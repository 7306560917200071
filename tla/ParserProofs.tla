----------------------------- MODULE ParserProofs -----------------------------
(***************************************************************************)
(* Proofs about Parser, for token lists of every length: that one token is *)
(* enough to decide, that errors are real, and that no assertion fails.    *)
(***************************************************************************)
EXTENDS Parser, NumberFacts, SequenceTheorems, FiniteSetTheorems

-----------------------------------------------------------------------------
(* The rules of the grammar, one by one. *)

LEMMA Rules ==
  /\ GetDescendents("MODULE") = {<<"END_OF_FILE">>, <<"FUNCTION_DEFINITION", "MODULE">>}
  /\ GetDescendents("FUNCTION_DEFINITION") =
       {<<"FUNCTION_NAME", "OPEN_FUNCTION_CALL", "VARIABLES_LIST", "CLOSE_FUNCTION_CALL",
          "CODE_BLOCK">>}
  /\ GetDescendents("VARIABLES_LIST") = {<<"VARIABLE", "VARIABLES_LIST_EXPANSION">>, <<>>}
  /\ GetDescendents("VARIABLES_LIST_EXPANSION") =
       {<<"ARGUMENT_LIST_SEPARATOR", "VARIABLE", "VARIABLES_LIST_EXPANSION">>, <<>>}
  /\ GetDescendents("CODE_BLOCK") =
       {<<"OPEN_CODE_BLOCK", "STATEMENT_LIST", "CLOSE_CODE_BLOCK">>}
  /\ GetDescendents("STATEMENT_LIST") = {<<"STATEMENT", "STATEMENT_LIST">>, <<>>}
  /\ GetDescendents("STATEMENT") =
       {<<"VARIABLE_ASSIGNMENT", "END_STATEMENT">>,
        <<"GLOBAL_DECLARATION", "END_STATEMENT">>,
        <<"FUNCTION_CALL", "END_STATEMENT">>,
        <<"KEYWORD_WHILE", "CONDITIONAL_EVALUATOR", "CODE_BLOCK">>,
        <<"KEYWORD_IF", "CONDITIONAL_EVALUATOR", "CODE_BLOCK", "ELSE_STATEMENT">>,
        <<"KEYWORD_RETURN", "RVALUE", "END_STATEMENT">>,
        <<"KEYWORD_BREAK", "END_STATEMENT">>}
  /\ GetDescendents("VARIABLE_ASSIGNMENT") = {<<"VARIABLE", "ASSIGNER", "RVALUE">>}
  /\ GetDescendents("GLOBAL_DECLARATION") = {<<"KEYWORD_GLOBAL", "VARIABLE">>}
  /\ GetDescendents("FUNCTION_CALL") =
       {<<"FUNCTION_NAME", "OPEN_FUNCTION_CALL", "RVALUE_LIST", "CLOSE_FUNCTION_CALL">>,
        <<"BUILTIN", "OPEN_FUNCTION_CALL", "RVALUE_LIST", "CLOSE_FUNCTION_CALL">>}
  /\ GetDescendents("CONDITIONAL_EVALUATOR") =
       {<<"OPEN_CONDITIONAL_BLOCK", "RVALUE", "CLOSE_CONDITIONAL_BLOCK">>}
  /\ GetDescendents("ELSE_STATEMENT") =
       {<<"KEYWORD_ELSE", "CODE_BLOCK">>,
        <<"KEYWORD_ELIF", "CONDITIONAL_EVALUATOR", "CODE_BLOCK", "ELSE_STATEMENT">>,
        <<>>}
  /\ GetDescendents("RVALUE") = {<<"QUOTED_STRING">>, <<"VARIABLE">>, <<"FUNCTION_CALL">>}
  /\ GetDescendents("RVALUE_LIST") = {<<"RVALUE", "RVALUE_LIST_EXPANSION">>, <<>>}
  /\ GetDescendents("RVALUE_LIST_EXPANSION") =
       {<<"ARGUMENT_LIST_SEPARATOR", "RVALUE", "RVALUE_LIST_EXPANSION">>, <<>>}
BY Zenon DEF GetDescendents, ModuleDescendents

(* The pieces after which only one other piece ever stands, and that piece. *)
Lists == {"VARIABLES_LIST", "VARIABLES_LIST_EXPANSION", "RVALUE_LIST", "RVALUE_LIST_EXPANSION"}

Tied == Lists \cup {"STATEMENT_LIST", "STATEMENT", "ELSE_STATEMENT"}

Follower(label) ==
  IF label \in Lists THEN "CLOSE_FUNCTION_CALL"
  ELSE IF label = "STATEMENT_LIST" THEN "CLOSE_CODE_BLOCK" ELSE "STATEMENT_LIST"

(* The pieces that end a program. *)
Ends == {"MODULE", "END_OF_FILE"}

WellFormed(p) ==
  \A i \in 1..Len(p) :
    /\ p[i] \in Tied => i < Len(p) /\ p[i + 1] = Follower(p[i])
    /\ p[i] \in Ends <=> i = Len(p)

(* An expansion that may stand where a piece stands. *)
Fits(d, label) ==
  /\ d \in Seq(Labels)
  /\ \A i \in 1..Len(d) :
       /\ d[i] \in Tied =>
            IF i < Len(d) THEN d[i + 1] = Follower(d[i])
            ELSE label \in Tied /\ Follower(label) = Follower(d[i])
       /\ d[i] \in Ends <=> i = Len(d) /\ label \in Ends
  /\ label \in Ends => d # <<>>

LEMMA ExpansionsFit ==
  \A label \in Expandable : \A d \in GetDescendents(label) : Fits(d, label)
<1> USE DEF Fits, Tied, Ends, Follower, Lists, Labels, Tokens, Expandable
<1>1. \A d \in GetDescendents("MODULE") : Fits(d, "MODULE")
  <2>1. Fits(<<"END_OF_FILE">>, "MODULE")
    OBVIOUS
  <2>2. Fits(<<"FUNCTION_DEFINITION", "MODULE">>, "MODULE")
    OBVIOUS
  <2> HIDE DEF Fits
  <2> QED  BY <2>1, <2>2, Rules
<1>2. \A d \in GetDescendents("FUNCTION_DEFINITION") : Fits(d, "FUNCTION_DEFINITION")
  <2>1. Fits(<<"FUNCTION_NAME", "OPEN_FUNCTION_CALL", "VARIABLES_LIST", "CLOSE_FUNCTION_CALL", "CODE_BLOCK">>,
             "FUNCTION_DEFINITION")
    OBVIOUS
  <2> HIDE DEF Fits
  <2> QED  BY <2>1, Rules
<1>3. \A d \in GetDescendents("VARIABLES_LIST") : Fits(d, "VARIABLES_LIST")
  <2>1. Fits(<<"VARIABLE", "VARIABLES_LIST_EXPANSION">>, "VARIABLES_LIST")
    OBVIOUS
  <2>2. Fits(<<>>, "VARIABLES_LIST")
    OBVIOUS
  <2> HIDE DEF Fits
  <2> QED  BY <2>1, <2>2, Rules
<1>4. \A d \in GetDescendents("VARIABLES_LIST_EXPANSION") : Fits(d, "VARIABLES_LIST_EXPANSION")
  <2>1. Fits(<<"ARGUMENT_LIST_SEPARATOR", "VARIABLE", "VARIABLES_LIST_EXPANSION">>,
             "VARIABLES_LIST_EXPANSION")
    OBVIOUS
  <2>2. Fits(<<>>, "VARIABLES_LIST_EXPANSION")
    OBVIOUS
  <2> HIDE DEF Fits
  <2> QED  BY <2>1, <2>2, Rules
<1>5. \A d \in GetDescendents("CODE_BLOCK") : Fits(d, "CODE_BLOCK")
  <2>1. Fits(<<"OPEN_CODE_BLOCK", "STATEMENT_LIST", "CLOSE_CODE_BLOCK">>, "CODE_BLOCK")
    OBVIOUS
  <2> HIDE DEF Fits
  <2> QED  BY <2>1, Rules
<1>6. \A d \in GetDescendents("STATEMENT_LIST") : Fits(d, "STATEMENT_LIST")
  <2>1. Fits(<<"STATEMENT", "STATEMENT_LIST">>, "STATEMENT_LIST")
    OBVIOUS
  <2>2. Fits(<<>>, "STATEMENT_LIST")
    OBVIOUS
  <2> HIDE DEF Fits
  <2> QED  BY <2>1, <2>2, Rules
<1>7. \A d \in GetDescendents("STATEMENT") : Fits(d, "STATEMENT")
  <2>1. Fits(<<"VARIABLE_ASSIGNMENT", "END_STATEMENT">>, "STATEMENT")
    OBVIOUS
  <2>2. Fits(<<"GLOBAL_DECLARATION", "END_STATEMENT">>, "STATEMENT")
    OBVIOUS
  <2>3. Fits(<<"FUNCTION_CALL", "END_STATEMENT">>, "STATEMENT")
    OBVIOUS
  <2>4. Fits(<<"KEYWORD_WHILE", "CONDITIONAL_EVALUATOR", "CODE_BLOCK">>, "STATEMENT")
    OBVIOUS
  <2>5. Fits(<<"KEYWORD_IF", "CONDITIONAL_EVALUATOR", "CODE_BLOCK", "ELSE_STATEMENT">>,
             "STATEMENT")
    OBVIOUS
  <2>6. Fits(<<"KEYWORD_RETURN", "RVALUE", "END_STATEMENT">>, "STATEMENT")
    OBVIOUS
  <2>7. Fits(<<"KEYWORD_BREAK", "END_STATEMENT">>, "STATEMENT")
    OBVIOUS
  <2> HIDE DEF Fits
  <2> QED  BY <2>1, <2>2, <2>3, <2>4, <2>5, <2>6, <2>7, Rules
<1>8. \A d \in GetDescendents("VARIABLE_ASSIGNMENT") : Fits(d, "VARIABLE_ASSIGNMENT")
  <2>1. Fits(<<"VARIABLE", "ASSIGNER", "RVALUE">>, "VARIABLE_ASSIGNMENT")
    OBVIOUS
  <2> HIDE DEF Fits
  <2> QED  BY <2>1, Rules
<1>9. \A d \in GetDescendents("GLOBAL_DECLARATION") : Fits(d, "GLOBAL_DECLARATION")
  <2>1. Fits(<<"KEYWORD_GLOBAL", "VARIABLE">>, "GLOBAL_DECLARATION")
    OBVIOUS
  <2> HIDE DEF Fits
  <2> QED  BY <2>1, Rules
<1>10. \A d \in GetDescendents("FUNCTION_CALL") : Fits(d, "FUNCTION_CALL")
  <2>1. Fits(<<"FUNCTION_NAME", "OPEN_FUNCTION_CALL", "RVALUE_LIST", "CLOSE_FUNCTION_CALL">>,
             "FUNCTION_CALL")
    OBVIOUS
  <2>2. Fits(<<"BUILTIN", "OPEN_FUNCTION_CALL", "RVALUE_LIST", "CLOSE_FUNCTION_CALL">>,
             "FUNCTION_CALL")
    OBVIOUS
  <2> HIDE DEF Fits
  <2> QED  BY <2>1, <2>2, Rules
<1>11. \A d \in GetDescendents("CONDITIONAL_EVALUATOR") : Fits(d, "CONDITIONAL_EVALUATOR")
  <2>1. Fits(<<"OPEN_CONDITIONAL_BLOCK", "RVALUE", "CLOSE_CONDITIONAL_BLOCK">>,
             "CONDITIONAL_EVALUATOR")
    OBVIOUS
  <2> HIDE DEF Fits
  <2> QED  BY <2>1, Rules
<1>12. \A d \in GetDescendents("ELSE_STATEMENT") : Fits(d, "ELSE_STATEMENT")
  <2>1. Fits(<<"KEYWORD_ELSE", "CODE_BLOCK">>, "ELSE_STATEMENT")
    OBVIOUS
  <2>2. Fits(<<"KEYWORD_ELIF", "CONDITIONAL_EVALUATOR", "CODE_BLOCK", "ELSE_STATEMENT">>,
             "ELSE_STATEMENT")
    OBVIOUS
  <2>3. Fits(<<>>, "ELSE_STATEMENT")
    OBVIOUS
  <2> HIDE DEF Fits
  <2> QED  BY <2>1, <2>2, <2>3, Rules
<1>13. \A d \in GetDescendents("RVALUE") : Fits(d, "RVALUE")
  <2>1. Fits(<<"QUOTED_STRING">>, "RVALUE")
    OBVIOUS
  <2>2. Fits(<<"VARIABLE">>, "RVALUE")
    OBVIOUS
  <2>3. Fits(<<"FUNCTION_CALL">>, "RVALUE")
    OBVIOUS
  <2> HIDE DEF Fits
  <2> QED  BY <2>1, <2>2, <2>3, Rules
<1>14. \A d \in GetDescendents("RVALUE_LIST") : Fits(d, "RVALUE_LIST")
  <2>1. Fits(<<"RVALUE", "RVALUE_LIST_EXPANSION">>, "RVALUE_LIST")
    OBVIOUS
  <2>2. Fits(<<>>, "RVALUE_LIST")
    OBVIOUS
  <2> HIDE DEF Fits
  <2> QED  BY <2>1, <2>2, Rules
<1>15. \A d \in GetDescendents("RVALUE_LIST_EXPANSION") : Fits(d, "RVALUE_LIST_EXPANSION")
  <2>1. Fits(<<"ARGUMENT_LIST_SEPARATOR", "RVALUE", "RVALUE_LIST_EXPANSION">>,
             "RVALUE_LIST_EXPANSION")
    OBVIOUS
  <2>2. Fits(<<>>, "RVALUE_LIST_EXPANSION")
    OBVIOUS
  <2> HIDE DEF Fits
  <2> QED  BY <2>1, <2>2, Rules
<1> HIDE DEF Fits
<1> QED  BY <1>1, <1>2, <1>3, <1>4, <1>5, <1>6, <1>7, <1>8, <1>9, <1>10, <1>11, <1>12, <1>13, <1>14, <1>15

LEMMA FitsReplace ==
  ASSUME NEW p \in Seq(Labels), p # <<>>, WellFormed(p), NEW d, Fits(d, Head(p))
  PROVE  WellFormed(d \o Tail(p)) /\ d \o Tail(p) \in Seq(Labels)
<1> DEFINE l == Head(p)
           s == Tail(p)
           q == d \o s
           n == Len(d)
           m == Len(s)
<1>1. /\ s \in Seq(Labels) /\ l = p[1] /\ m \in Nat /\ n \in Nat /\ Len(p) = m + 1
      /\ \A i \in 1..m : s[i] = p[i + 1]
      /\ d \in Seq(Labels)
  BY EmptySeq DEF Fits
<1>2. /\ q \in Seq(Labels) /\ Len(q) = n + m
      /\ \A i \in 1..(n + m) : q[i] = IF i <= n THEN d[i] ELSE s[i - n]
  BY <1>1, ConcatProperties
<1>0. /\ p[1] \in Tied => 1 < Len(p) /\ p[1 + 1] = Follower(p[1])
      /\ p[1] \in Ends <=> 1 = Len(p)
  <2>1. 1 \in 1..Len(p)
    BY <1>1
  <2> QED  BY <2>1 DEF WellFormed
<1>3. l \in Tied => m > 0 /\ s[1] = Follower(l)
  BY <1>0, <1>1
<1>4. l \in Ends <=> m = 0
  BY <1>0, <1>1
<1> HIDE DEF l, s, q, n, m
<1>5. ASSUME NEW i \in 1..(n + m)
      PROVE  /\ q[i] \in Tied => i < n + m /\ q[i + 1] = Follower(q[i])
             /\ q[i] \in Ends <=> i = n + m
  <2>1. CASE i > n
    <3>1. /\ i - n \in 1..m /\ (i - n) + 1 \in 1..(m + 1) /\ ~(i <= n) /\ ~(i + 1 <= n)
          /\ (i + 1) - n = (i - n) + 1
      BY <1>1, <2>1
    <3>2. q[i] = p[(i - n) + 1]
      BY <1>1, <1>2, <3>1
    <3>3. ASSUME i < n + m
          PROVE  q[i + 1] = p[((i - n) + 1) + 1]
      <4>1. i + 1 \in 1..(n + m) /\ (i - n) + 1 \in 1..m
        BY <1>1, <2>1, <3>3
      <4>2. q[i + 1] = s[(i - n) + 1]
        BY <1>2, <3>1, <4>1
      <4> QED  BY <1>1, <4>1, <4>2
    <3>4. (i - n) + 1 < Len(p) <=> i < n + m
      BY <1>1
    <3>5. (i - n) + 1 = Len(p) <=> i = n + m
      BY <1>1
    <3> DEFINE k == (i - n) + 1
    <3>6. k \in 1..Len(p)
      BY <1>1, <3>1
    <3> HIDE DEF k
    <3>7. /\ p[k] \in Tied => k < Len(p) /\ p[k + 1] = Follower(p[k])
          /\ p[k] \in Ends <=> k = Len(p)
      BY <3>6 DEF WellFormed
    <3> QED  BY <3>2, <3>3, <3>4, <3>5, <3>7 DEF k
  <2>2. CASE i < n
    <3>1. i \in 1..n /\ i + 1 \in 1..(n + m) /\ i + 1 <= n /\ i <= n /\ i < n + m /\ i # n
      BY <1>1, <2>2
    <3>2. q[i] = d[i] /\ q[i + 1] = d[i + 1]
      BY <1>2, <3>1
    <3> QED  BY <1>1, <2>2, <3>1, <3>2 DEF Fits, n, l
  <2>3. CASE i = n
    <3>1. i \in 1..n /\ i <= n
      BY <1>1, <2>3
    <3>2. q[i] = d[i]
      BY <1>2, <3>1
    <3>3. /\ d[i] \in Tied => l \in Tied /\ Follower(l) = Follower(d[i])
          /\ d[i] \in Ends <=> l \in Ends
      BY <2>3, <3>1 DEF Fits, n, l
    <3>4. m > 0 => q[i + 1] = s[1]
      <4>1. m > 0 => i + 1 \in 1..(n + m) /\ ~(i + 1 <= n) /\ (i + 1) - n = 1
        BY <1>1, <2>3
      <4> QED  BY <1>2, <4>1
    <3>5. m > 0 => i < n + m
      BY <1>1, <2>3
    <3>6. m = 0 <=> i = n + m
      BY <1>1, <2>3
    <3> QED  BY <1>3, <1>4, <3>2, <3>3, <3>4, <3>5, <3>6
  <2>4. i > n \/ i < n \/ i = n
    BY <1>1
  <2> QED  BY <2>1, <2>2, <2>3, <2>4
<1>6. WellFormed(q)
  BY <1>2, <1>5 DEF WellFormed
<1> QED  BY <1>2, <1>6 DEF q, s
-----------------------------------------------------------------------------
(* The recursive functions satisfy their equations. *)

LEMMA Expansions ==
  \A label \in Expandable : GetDescendents(label) \subseteq Seq(Labels)
BY ExpansionsFit DEF Fits

LEMMA StartersEquation ==
  \A label \in Labels :
    Starters[label] = IF IsToken(label) THEN {label}
                      ELSE IF AllowEmpty(label) THEN Tokens
                      ELSE UNION {Starters[Head(d)] : d \in NonEmpty(label)}
<1> DEFINE Body(f) == [label \in Labels |->
                         IF IsToken(label) THEN {label}
                         ELSE IF AllowEmpty(label) THEN Tokens
                         ELSE UNION {f[Head(d)] : d \in NonEmpty(label)}]
           base == [label \in Labels |-> IF IsToken(label) THEN {label}
                                        ELSE IF AllowEmpty(label) THEN Tokens ELSE {}]
           next == [label \in Labels |-> IF IsToken(label) \/ AllowEmpty(label) THEN {}
                                        ELSE {Head(d) : d \in NonEmpty(label)}]
<1>1. base \in [Labels -> SUBSET Tokens]
  BY DEF IsToken
<1>2. next \in [Labels -> SUBSET Labels]
  <2> SUFFICES ASSUME NEW label \in Labels, ~IsToken(label), NEW d \in NonEmpty(label)
               PROVE  Head(d) \in Labels
    OBVIOUS
  <2>1. d \in Seq(Labels) /\ d # <<>>
    BY Expansions DEF NonEmpty, IsToken, Labels
  <2> QED  BY <2>1
<1>3. PICK f : Accumulation(f, Labels, base, next)
  <2> HIDE DEF base, next
  <2> QED  BY <1>1, <1>2, Accumulates
<1>4. f = Body(f)
  <2>1. f = [x \in Labels |-> base[x] \cup UNION {f[y] : y \in next[x]}]
    BY <1>3 DEF Accumulation
  <2>2. ASSUME NEW x \in Labels
        PROVE  base[x] \cup UNION {f[y] : y \in next[x]} = Body(f)[x]
    OBVIOUS
  <2> HIDE DEF base, next
  <2>3. [x \in Labels |-> base[x] \cup UNION {f[y] : y \in next[x]}] = Body(f)
    BY <2>2
  <2> QED  BY <2>1, <2>3
<1>5. Starters = CHOOSE g : g = Body(g)
  BY DEF Starters
<1> HIDE DEF Body
<1>6. Starters = Body(Starters)
  BY <1>4, <1>5
<1> QED  BY <1>6 DEF Body

LEMMA DerivedEquation ==
  \A program \in Seq(Labels) :
    Derived[program] =
      IF program = <<>> \/ IsToken(Head(program)) THEN {program}
      ELSE UNION {Derived[d \o Tail(program)] : d \in GetDescendents(Head(program))}
<1> DEFINE Done(program) == program = <<>> \/ IsToken(Head(program))
           Body(f) == [program \in Seq(Labels) |->
                         IF program = <<>> \/ IsToken(Head(program)) THEN {program}
                         ELSE UNION {f[d \o Tail(program)] :
                                       d \in GetDescendents(Head(program))}]
           base == [program \in Seq(Labels) |-> IF Done(program) THEN {program} ELSE {}]
           next == [program \in Seq(Labels) |->
                      IF Done(program) THEN {}
                      ELSE {d \o Tail(program) : d \in GetDescendents(Head(program))}]
<1>1. base \in [Seq(Labels) -> SUBSET Seq(Labels)]
  OBVIOUS
<1>2. next \in [Seq(Labels) -> SUBSET Seq(Labels)]
  <2> SUFFICES ASSUME NEW p \in Seq(Labels), ~Done(p), NEW d \in GetDescendents(Head(p))
               PROVE  d \o Tail(p) \in Seq(Labels)
    OBVIOUS
  <2>1. Head(p) \in Expandable /\ Tail(p) \in Seq(Labels)
    BY DEF IsToken, Labels
  <2>2. d \in Seq(Labels)
    BY <2>1, Expansions
  <2> QED  BY <2>1, <2>2, ConcatProperties
<1>3. PICK f : Accumulation(f, Seq(Labels), base, next)
  <2> HIDE DEF base, next
  <2> QED  BY <1>1, <1>2, Accumulates
<1>4. f = Body(f)
  <2>1. f = [x \in Seq(Labels) |-> base[x] \cup UNION {f[y] : y \in next[x]}]
    BY <1>3 DEF Accumulation
  <2>2. ASSUME NEW x \in Seq(Labels)
        PROVE  base[x] \cup UNION {f[y] : y \in next[x]} = Body(f)[x]
    <3>1. CASE Done(x)
      BY <3>1
    <3>2. CASE ~Done(x)
      <4>1. base[x] = {} /\ next[x] = {d \o Tail(x) : d \in GetDescendents(Head(x))}
        BY <3>2
      <4>2. Body(f)[x] = UNION {f[d \o Tail(x)] : d \in GetDescendents(Head(x))}
        BY <3>2
      <4>3. {f[y] : y \in {d \o Tail(x) : d \in GetDescendents(Head(x))}} =
            {f[d \o Tail(x)] : d \in GetDescendents(Head(x))}
        OBVIOUS
      <4> QED  BY <4>1, <4>2, <4>3
    <3> QED  BY <3>1, <3>2
  <2> HIDE DEF base, next
  <2>3. [x \in Seq(Labels) |-> base[x] \cup UNION {f[y] : y \in next[x]}] = Body(f)
    BY <2>2
  <2> QED  BY <2>1, <2>3
<1>5. Derived = CHOOSE g : g = Body(g)
  BY DEF Derived
<1> HIDE DEF Body
<1>6. Derived = Body(Derived)
  BY <1>4, <1>5
<1> QED  BY <1>6 DEF Body
-----------------------------------------------------------------------------
(* With which tokens a piece starts. *)

(* The pieces that are never empty and may start an expansion. *)
Leaders == {"FUNCTION_DEFINITION", "STATEMENT", "VARIABLE_ASSIGNMENT", "GLOBAL_DECLARATION",
            "FUNCTION_CALL", "RVALUE"}

(* The pieces that may be empty. *)
Nullable == {"VARIABLES_LIST", "VARIABLES_LIST_EXPANSION", "STATEMENT_LIST", "RVALUE_LIST",
             "RVALUE_LIST_EXPANSION", "ELSE_STATEMENT"}

LEMMA NonEmptyRules ==
  /\ \A label \in Leaders : ~AllowEmpty(label) /\ NonEmpty(label) = GetDescendents(label)
  /\ \A label \in Nullable : AllowEmpty(label)
<1>1. \A label \in Leaders : \A d \in GetDescendents(label) : d # <<>>
  <2>1. \A d \in GetDescendents("FUNCTION_DEFINITION") : d # <<>>
    BY Rules
  <2>2. \A d \in GetDescendents("STATEMENT") : d # <<>>
    BY Rules
  <2>3. \A d \in GetDescendents("VARIABLE_ASSIGNMENT") : d # <<>>
    BY Rules
  <2>4. \A d \in GetDescendents("GLOBAL_DECLARATION") : d # <<>>
    BY Rules
  <2>5. \A d \in GetDescendents("FUNCTION_CALL") : d # <<>>
    BY Rules
  <2>6. \A d \in GetDescendents("RVALUE") : d # <<>>
    <3>1. GetDescendents("RVALUE") = {<<"QUOTED_STRING">>, <<"VARIABLE">>, <<"FUNCTION_CALL">>}
      BY Rules
    <3> QED  BY <3>1
  <2> QED  BY <2>1, <2>2, <2>3, <2>4, <2>5, <2>6 DEF Leaders
<1>2. \A label \in Nullable : <<>> \in GetDescendents(label)
  <2>1. /\ <<>> \in GetDescendents("VARIABLES_LIST")
        /\ <<>> \in GetDescendents("VARIABLES_LIST_EXPANSION")
        /\ <<>> \in GetDescendents("STATEMENT_LIST")
    BY Rules
  <2>2. /\ <<>> \in GetDescendents("RVALUE_LIST")
        /\ <<>> \in GetDescendents("RVALUE_LIST_EXPANSION")
        /\ <<>> \in GetDescendents("ELSE_STATEMENT")
    BY Rules
  <2>3. \A label \in Nullable :
          \/ label = "VARIABLES_LIST" \/ label = "VARIABLES_LIST_EXPANSION"
          \/ label = "STATEMENT_LIST" \/ label = "RVALUE_LIST"
          \/ label = "RVALUE_LIST_EXPANSION" \/ label = "ELSE_STATEMENT"
    BY DEF Nullable
  <2> QED  BY <2>1, <2>2, <2>3, Zenon
<1> QED  BY <1>1, <1>2 DEF AllowEmpty, NonEmpty

LEMMA StartersOfToken == \A t \in Tokens : Starters[t] = {t}
BY StartersEquation DEF Labels, IsToken

LEMMA StartersOfLeader ==
  \A label \in Leaders :
    Starters[label] = UNION {Starters[Head(d)] : d \in GetDescendents(label)}
<1>1. \A label \in Leaders : label \in Labels /\ ~IsToken(label)
  BY DEF Leaders, Labels, Expandable, Tokens, IsToken
<1> QED  BY <1>1, StartersEquation, NonEmptyRules

LEMMA StartersOfPieces ==
  /\ Starters["FUNCTION_DEFINITION"] = {"FUNCTION_NAME"}
  /\ Starters["VARIABLE_ASSIGNMENT"] = {"VARIABLE"}
  /\ Starters["GLOBAL_DECLARATION"] = {"KEYWORD_GLOBAL"}
  /\ Starters["FUNCTION_CALL"] = {"FUNCTION_NAME", "BUILTIN"}
  /\ Starters["RVALUE"] = {"QUOTED_STRING", "VARIABLE", "FUNCTION_NAME", "BUILTIN"}
  /\ Starters["STATEMENT"] = {"VARIABLE", "KEYWORD_GLOBAL", "FUNCTION_NAME", "BUILTIN",
                              "KEYWORD_WHILE", "KEYWORD_IF", "KEYWORD_RETURN",
                              "KEYWORD_BREAK"}
<1> DEFINE S(label) == UNION {Starters[Head(d)] : d \in GetDescendents(label)}
<1>0. \A label \in Leaders : Starters[label] = S(label)
  BY StartersOfLeader
<1>1. /\ Starters["FUNCTION_NAME"] = {"FUNCTION_NAME"}
      /\ Starters["BUILTIN"] = {"BUILTIN"}
      /\ Starters["VARIABLE"] = {"VARIABLE"}
      /\ Starters["QUOTED_STRING"] = {"QUOTED_STRING"}
      /\ Starters["KEYWORD_GLOBAL"] = {"KEYWORD_GLOBAL"}
  BY StartersOfToken DEF Tokens
<1>2. /\ Starters["KEYWORD_WHILE"] = {"KEYWORD_WHILE"}
      /\ Starters["KEYWORD_IF"] = {"KEYWORD_IF"}
      /\ Starters["KEYWORD_RETURN"] = {"KEYWORD_RETURN"}
      /\ Starters["KEYWORD_BREAK"] = {"KEYWORD_BREAK"}
  BY StartersOfToken DEF Tokens
<1>3. Starters["FUNCTION_DEFINITION"] = {"FUNCTION_NAME"}
  <2>1. S("FUNCTION_DEFINITION") = Starters["FUNCTION_NAME"]
    <3>1. GetDescendents("FUNCTION_DEFINITION") =
            {<<"FUNCTION_NAME", "OPEN_FUNCTION_CALL", "VARIABLES_LIST", "CLOSE_FUNCTION_CALL", "CODE_BLOCK">>}
      BY Rules
    <3>2. /\ Head(<<"FUNCTION_NAME", "OPEN_FUNCTION_CALL", "VARIABLES_LIST", "CLOSE_FUNCTION_CALL", "CODE_BLOCK">>) = "FUNCTION_NAME"
      OBVIOUS
    <3> QED  BY <3>1, <3>2
  <2> QED  BY <1>0, <1>1, <2>1 DEF Leaders
<1>4. Starters["VARIABLE_ASSIGNMENT"] = {"VARIABLE"}
  <2>1. S("VARIABLE_ASSIGNMENT") = Starters["VARIABLE"]
    <3>1. GetDescendents("VARIABLE_ASSIGNMENT") =
            {<<"VARIABLE", "ASSIGNER", "RVALUE">>}
      BY Rules
    <3>2. /\ Head(<<"VARIABLE", "ASSIGNER", "RVALUE">>) = "VARIABLE"
      OBVIOUS
    <3> QED  BY <3>1, <3>2
  <2> QED  BY <1>0, <1>1, <2>1 DEF Leaders
<1>5. Starters["GLOBAL_DECLARATION"] = {"KEYWORD_GLOBAL"}
  <2>1. S("GLOBAL_DECLARATION") = Starters["KEYWORD_GLOBAL"]
    <3>1. GetDescendents("GLOBAL_DECLARATION") =
            {<<"KEYWORD_GLOBAL", "VARIABLE">>}
      BY Rules
    <3>2. /\ Head(<<"KEYWORD_GLOBAL", "VARIABLE">>) = "KEYWORD_GLOBAL"
      OBVIOUS
    <3> QED  BY <3>1, <3>2
  <2> QED  BY <1>0, <1>1, <2>1 DEF Leaders
<1>6. Starters["FUNCTION_CALL"] = {"FUNCTION_NAME", "BUILTIN"}
  <2>1. S("FUNCTION_CALL") = Starters["FUNCTION_NAME"] \cup Starters["BUILTIN"]
    <3>1. GetDescendents("FUNCTION_CALL") =
            {<<"FUNCTION_NAME", "OPEN_FUNCTION_CALL", "RVALUE_LIST", "CLOSE_FUNCTION_CALL">>,
             <<"BUILTIN", "OPEN_FUNCTION_CALL", "RVALUE_LIST", "CLOSE_FUNCTION_CALL">>}
      BY Rules
    <3>2. /\ Head(<<"FUNCTION_NAME", "OPEN_FUNCTION_CALL", "RVALUE_LIST", "CLOSE_FUNCTION_CALL">>) = "FUNCTION_NAME"
          /\ Head(<<"BUILTIN", "OPEN_FUNCTION_CALL", "RVALUE_LIST", "CLOSE_FUNCTION_CALL">>) = "BUILTIN"
      OBVIOUS
    <3> QED  BY <3>1, <3>2
  <2> QED  BY <1>0, <1>1, <2>1 DEF Leaders
<1>7. Starters["RVALUE"] = {"QUOTED_STRING", "VARIABLE", "FUNCTION_NAME", "BUILTIN"}
  <2>1. S("RVALUE") =
          Starters["QUOTED_STRING"] \cup Starters["VARIABLE"] \cup Starters["FUNCTION_CALL"]
    <3>1. GetDescendents("RVALUE") =
            {<<"QUOTED_STRING">>,
             <<"VARIABLE">>,
             <<"FUNCTION_CALL">>}
      BY Rules
    <3>2. /\ Head(<<"QUOTED_STRING">>) = "QUOTED_STRING"
          /\ Head(<<"VARIABLE">>) = "VARIABLE"
          /\ Head(<<"FUNCTION_CALL">>) = "FUNCTION_CALL"
      OBVIOUS
    <3> QED  BY <3>1, <3>2
  <2> QED  BY <1>0, <1>1, <1>6, <2>1 DEF Leaders
<1>8. Starters["STATEMENT"] = {"VARIABLE", "KEYWORD_GLOBAL", "FUNCTION_NAME", "BUILTIN",
                               "KEYWORD_WHILE", "KEYWORD_IF", "KEYWORD_RETURN",
                               "KEYWORD_BREAK"}
  <2>1. S("STATEMENT") =
          UNION {Starters["VARIABLE_ASSIGNMENT"], Starters["GLOBAL_DECLARATION"],
                 Starters["FUNCTION_CALL"], Starters["KEYWORD_WHILE"], Starters["KEYWORD_IF"],
                 Starters["KEYWORD_RETURN"], Starters["KEYWORD_BREAK"]}
    <3>1. GetDescendents("STATEMENT") =
            {<<"VARIABLE_ASSIGNMENT", "END_STATEMENT">>,
             <<"GLOBAL_DECLARATION", "END_STATEMENT">>,
             <<"FUNCTION_CALL", "END_STATEMENT">>,
             <<"KEYWORD_WHILE", "CONDITIONAL_EVALUATOR", "CODE_BLOCK">>,
             <<"KEYWORD_IF", "CONDITIONAL_EVALUATOR", "CODE_BLOCK", "ELSE_STATEMENT">>,
             <<"KEYWORD_RETURN", "RVALUE", "END_STATEMENT">>,
             <<"KEYWORD_BREAK", "END_STATEMENT">>}
      BY Rules
    <3>2. /\ Head(<<"VARIABLE_ASSIGNMENT", "END_STATEMENT">>) = "VARIABLE_ASSIGNMENT"
          /\ Head(<<"GLOBAL_DECLARATION", "END_STATEMENT">>) = "GLOBAL_DECLARATION"
          /\ Head(<<"FUNCTION_CALL", "END_STATEMENT">>) = "FUNCTION_CALL"
          /\ Head(<<"KEYWORD_WHILE", "CONDITIONAL_EVALUATOR", "CODE_BLOCK">>) = "KEYWORD_WHILE"
          /\ Head(<<"KEYWORD_IF", "CONDITIONAL_EVALUATOR", "CODE_BLOCK", "ELSE_STATEMENT">>) = "KEYWORD_IF"
          /\ Head(<<"KEYWORD_RETURN", "RVALUE", "END_STATEMENT">>) = "KEYWORD_RETURN"
          /\ Head(<<"KEYWORD_BREAK", "END_STATEMENT">>) = "KEYWORD_BREAK"
      OBVIOUS
    <3> QED  BY <3>1, <3>2
  <2> HIDE DEF S
  <2>2. S("STATEMENT") =
          UNION {{"VARIABLE"}, {"KEYWORD_GLOBAL"}, {"FUNCTION_NAME", "BUILTIN"},
                 {"KEYWORD_WHILE"}, {"KEYWORD_IF"}, {"KEYWORD_RETURN"}, {"KEYWORD_BREAK"}}
    BY <1>1, <1>2, <1>4, <1>5, <1>6, <2>1
  <2>3. "STATEMENT" \in Leaders
    BY DEF Leaders
  <2> QED  BY <1>0, <2>2, <2>3
<1> QED  BY <1>3, <1>4, <1>5, <1>6, <1>7, <1>8

(* Every derivation that begins with a piece comes to one of these tokens. *)
Begins(head, tokens) ==
  \A program \in Seq(Labels) :
    program # <<>> /\ Head(program) = head =>
      \A p \in Derived[program] : p # <<>> /\ Head(p) \in tokens

LEMMA BeginsWithToken == \A t \in Tokens : Begins(t, {t})
BY DerivedEquation DEF Begins, IsToken

LEMMA ReplacedSequence ==
  ASSUME NEW program \in Seq(Labels), program # <<>>, Head(program) \in Expandable,
         NEW d \in GetDescendents(Head(program))
  PROVE  /\ d \o Tail(program) \in Seq(Labels)
         /\ d # <<>> => d \o Tail(program) # <<>> /\ Head(d \o Tail(program)) = Head(d)
         /\ d = <<>> => d \o Tail(program) = Tail(program)
<1>1. d \in Seq(Labels) /\ Tail(program) \in Seq(Labels)
  BY Expansions
<1> DEFINE s == Tail(program)
<1> HIDE DEF s
<1>2. /\ d \o s \in Seq(Labels) /\ Len(d \o s) = Len(d) + Len(s)
      /\ \A i \in 1..(Len(d) + Len(s)) : (d \o s)[i] = IF i <= Len(d) THEN d[i] ELSE s[i - Len(d)]
      /\ Len(d) \in Nat /\ Len(s) \in Nat
  BY <1>1, ConcatProperties DEF s
<1>3. ASSUME d # <<>>
      PROVE  d \o s # <<>> /\ Head(d \o s) = Head(d)
  <2>1. Len(d) > 0
    BY <1>1, <1>3, EmptySeq
  <2>2. 1 \in 1..(Len(d) + Len(s)) /\ 1 <= Len(d)
    BY <1>2, <2>1
  <2>3. (d \o s)[1] = d[1]
    BY <1>2, <2>2
  <2> DEFINE q == d \o s
  <2>4. q \in Seq(Labels) /\ q[1] = d[1] /\ Len(q) > 0
    BY <1>2, <2>1, <2>3
  <2> HIDE DEF q
  <2>5. q # <<>> /\ Head(q) = d[1] /\ Head(d) = d[1]
    BY <1>1, <2>4
  <2> QED  BY <2>5 DEF q
<1>4. ASSUME d = <<>>
      PROVE  d \o s = s
  BY <1>1, <1>4 DEF s
<1> QED  BY <1>2, <1>3, <1>4 DEF s

LEMMA DerivedOfPiece ==
  ASSUME NEW program \in Seq(Labels), program # <<>>, Head(program) \in Expandable
  PROVE  Derived[program] =
           UNION {Derived[d \o Tail(program)] : d \in GetDescendents(Head(program))}
<1>1. ~IsToken(Head(program))
  BY DEF IsToken, Expandable, Tokens
<1> QED  BY <1>1, DerivedEquation

LEMMA BeginsWithPiece ==
  ASSUME NEW head \in Expandable, NEW tokens,
         \A d \in GetDescendents(head) : d # <<>> /\ Begins(Head(d), tokens)
  PROVE  Begins(head, tokens)
<1> SUFFICES ASSUME NEW program \in Seq(Labels), program # <<>>, Head(program) = head,
                    NEW p \in Derived[program]
             PROVE  p # <<>> /\ Head(p) \in tokens
  BY DEF Begins
<1>1. PICK d \in GetDescendents(head) : p \in Derived[d \o Tail(program)]
  BY DerivedOfPiece
<1>2. /\ d \o Tail(program) \in Seq(Labels) /\ d \o Tail(program) # <<>>
      /\ Head(d \o Tail(program)) = Head(d)
  BY ReplacedSequence
<1> QED  BY <1>1, <1>2 DEF Begins

LEMMA BeginsWithStarters == \A head \in Tokens \cup Leaders : Begins(head, Starters[head])
<1>1. \A t \in Tokens : Begins(t, Starters[t])
  BY BeginsWithToken, StartersOfToken
<1>2. ASSUME NEW head \in Leaders,
             \A d \in GetDescendents(head) : Begins(Head(d), Starters[Head(d)])
      PROVE  Begins(head, Starters[head])
  <2>1. \A d \in GetDescendents(head) : d # <<>>
    BY NonEmptyRules DEF NonEmpty
  <2>2. \A d \in GetDescendents(head) : Starters[Head(d)] \subseteq Starters[head]
    BY StartersOfLeader
  <2>3. \A d \in GetDescendents(head) : Begins(Head(d), Starters[head])
    BY <1>2, <2>2 DEF Begins
  <2>4. head \in Expandable
    BY DEF Leaders, Expandable
  <2> QED  BY <2>1, <2>3, <2>4, BeginsWithPiece
<1> DEFINE B(head) == Begins(head, Starters[head])
<1>3. /\ B("FUNCTION_NAME") /\ B("BUILTIN") /\ B("VARIABLE") /\ B("QUOTED_STRING")
      /\ B("KEYWORD_GLOBAL") /\ B("KEYWORD_WHILE") /\ B("KEYWORD_IF")
      /\ B("KEYWORD_RETURN") /\ B("KEYWORD_BREAK")
  BY <1>1 DEF Tokens
<1> HIDE DEF B
<1>4. \A head \in Leaders : (\A d \in GetDescendents(head) : B(Head(d))) => B(head)
  BY <1>2 DEF B
<1>5. B("FUNCTION_DEFINITION")
  <2>1. \A d \in GetDescendents("FUNCTION_DEFINITION") : B(Head(d))
    BY <1>3, Rules
  <2> QED  BY <1>4, <2>1 DEF Leaders
<1>6. B("VARIABLE_ASSIGNMENT")
  <2>1. \A d \in GetDescendents("VARIABLE_ASSIGNMENT") : B(Head(d))
    BY <1>3, Rules
  <2> QED  BY <1>4, <2>1 DEF Leaders
<1>7. B("GLOBAL_DECLARATION")
  <2>1. \A d \in GetDescendents("GLOBAL_DECLARATION") : B(Head(d))
    BY <1>3, Rules
  <2> QED  BY <1>4, <2>1 DEF Leaders
<1>8. B("FUNCTION_CALL")
  <2>1. \A d \in GetDescendents("FUNCTION_CALL") : B(Head(d))
    BY <1>3, Rules
  <2> QED  BY <1>4, <2>1 DEF Leaders
<1>9. B("RVALUE")
  <2>1. \A d \in GetDescendents("RVALUE") : B(Head(d))
    BY <1>3, <1>8, Rules
  <2> QED  BY <1>4, <2>1 DEF Leaders
<1>10. B("STATEMENT")
  <2>1. \A d \in GetDescendents("STATEMENT") : B(Head(d))
    BY <1>3, <1>6, <1>7, <1>8, Rules
  <2> QED  BY <1>4, <2>1 DEF Leaders
<1>11. \A head \in Leaders : B(head)
  BY <1>5, <1>6, <1>7, <1>8, <1>9, <1>10 DEF Leaders
<1> QED  BY <1>1, <1>11 DEF B
(* A token leaves at most one expansion of a piece. *)
LEMMA AtMostOneChoice ==
  \A label \in Expandable : \A t \in Tokens : \A d, e \in Choices(label, t) : d = e
<1> DEFINE One(label) == \A t \in Tokens : \A d, e \in Choices(label, t) : d = e
<1>1. One("MODULE")
  <2>1. NonEmpty("MODULE") =
          {<<"END_OF_FILE">>,
           <<"FUNCTION_DEFINITION", "MODULE">>}
    <3>1. GetDescendents("MODULE") =
            {<<"END_OF_FILE">>,
             <<"FUNCTION_DEFINITION", "MODULE">>}
      BY Rules
    <3> QED  BY <3>1 DEF NonEmpty
  <2>2. /\ Head(<<"END_OF_FILE">>) = "END_OF_FILE"
        /\ Head(<<"FUNCTION_DEFINITION", "MODULE">>) = "FUNCTION_DEFINITION"
    OBVIOUS
  <2>3. /\ Starters["END_OF_FILE"] = {"END_OF_FILE"}
        /\ Starters["FUNCTION_DEFINITION"] = {"FUNCTION_NAME"}
    BY StartersOfPieces, StartersOfToken DEF Tokens
  <2> QED  BY <2>1, <2>2, <2>3 DEF Choices, Expands
<1>2. One("FUNCTION_DEFINITION")
  <2>1. NonEmpty("FUNCTION_DEFINITION") =
          {<<"FUNCTION_NAME", "OPEN_FUNCTION_CALL", "VARIABLES_LIST", "CLOSE_FUNCTION_CALL",
              "CODE_BLOCK">>}
    <3>1. GetDescendents("FUNCTION_DEFINITION") =
            {<<"FUNCTION_NAME", "OPEN_FUNCTION_CALL", "VARIABLES_LIST", "CLOSE_FUNCTION_CALL",
              "CODE_BLOCK">>}
      BY Rules
    <3> QED  BY <3>1 DEF NonEmpty
  <2> QED  BY <2>1 DEF Choices
<1>3. One("VARIABLES_LIST")
  <2>1. NonEmpty("VARIABLES_LIST") =
          {<<"VARIABLE", "VARIABLES_LIST_EXPANSION">>}
    <3>1. GetDescendents("VARIABLES_LIST") =
            {<<"VARIABLE", "VARIABLES_LIST_EXPANSION">>,
             <<>>}
      BY Rules
    <3> QED  BY <3>1 DEF NonEmpty
  <2> QED  BY <2>1 DEF Choices
<1>4. One("VARIABLES_LIST_EXPANSION")
  <2>1. NonEmpty("VARIABLES_LIST_EXPANSION") =
          {<<"ARGUMENT_LIST_SEPARATOR", "VARIABLE", "VARIABLES_LIST_EXPANSION">>}
    <3>1. GetDescendents("VARIABLES_LIST_EXPANSION") =
            {<<"ARGUMENT_LIST_SEPARATOR", "VARIABLE", "VARIABLES_LIST_EXPANSION">>,
             <<>>}
      BY Rules
    <3> QED  BY <3>1 DEF NonEmpty
  <2> QED  BY <2>1 DEF Choices
<1>5. One("CODE_BLOCK")
  <2>1. NonEmpty("CODE_BLOCK") =
          {<<"OPEN_CODE_BLOCK", "STATEMENT_LIST", "CLOSE_CODE_BLOCK">>}
    <3>1. GetDescendents("CODE_BLOCK") =
            {<<"OPEN_CODE_BLOCK", "STATEMENT_LIST", "CLOSE_CODE_BLOCK">>}
      BY Rules
    <3> QED  BY <3>1 DEF NonEmpty
  <2> QED  BY <2>1 DEF Choices
<1>6. One("STATEMENT_LIST")
  <2>1. NonEmpty("STATEMENT_LIST") =
          {<<"STATEMENT", "STATEMENT_LIST">>}
    <3>1. GetDescendents("STATEMENT_LIST") =
            {<<"STATEMENT", "STATEMENT_LIST">>,
             <<>>}
      BY Rules
    <3> QED  BY <3>1 DEF NonEmpty
  <2> QED  BY <2>1 DEF Choices
<1>7. One("STATEMENT")
  <2>1. NonEmpty("STATEMENT") =
          {<<"VARIABLE_ASSIGNMENT", "END_STATEMENT">>,
           <<"GLOBAL_DECLARATION", "END_STATEMENT">>,
           <<"FUNCTION_CALL", "END_STATEMENT">>,
           <<"KEYWORD_WHILE", "CONDITIONAL_EVALUATOR", "CODE_BLOCK">>,
           <<"KEYWORD_IF", "CONDITIONAL_EVALUATOR", "CODE_BLOCK", "ELSE_STATEMENT">>,
           <<"KEYWORD_RETURN", "RVALUE", "END_STATEMENT">>,
           <<"KEYWORD_BREAK", "END_STATEMENT">>}
    <3>1. GetDescendents("STATEMENT") =
            {<<"VARIABLE_ASSIGNMENT", "END_STATEMENT">>,
             <<"GLOBAL_DECLARATION", "END_STATEMENT">>,
             <<"FUNCTION_CALL", "END_STATEMENT">>,
             <<"KEYWORD_WHILE", "CONDITIONAL_EVALUATOR", "CODE_BLOCK">>,
             <<"KEYWORD_IF", "CONDITIONAL_EVALUATOR", "CODE_BLOCK", "ELSE_STATEMENT">>,
             <<"KEYWORD_RETURN", "RVALUE", "END_STATEMENT">>,
             <<"KEYWORD_BREAK", "END_STATEMENT">>}
      BY Rules
    <3> QED  BY <3>1 DEF NonEmpty
  <2>2. /\ Head(<<"VARIABLE_ASSIGNMENT", "END_STATEMENT">>) = "VARIABLE_ASSIGNMENT"
        /\ Head(<<"GLOBAL_DECLARATION", "END_STATEMENT">>) = "GLOBAL_DECLARATION"
        /\ Head(<<"FUNCTION_CALL", "END_STATEMENT">>) = "FUNCTION_CALL"
        /\ Head(<<"KEYWORD_WHILE", "CONDITIONAL_EVALUATOR", "CODE_BLOCK">>) = "KEYWORD_WHILE"
        /\ Head(<<"KEYWORD_IF", "CONDITIONAL_EVALUATOR", "CODE_BLOCK", "ELSE_STATEMENT">>) = "KEYWORD_IF"
        /\ Head(<<"KEYWORD_RETURN", "RVALUE", "END_STATEMENT">>) = "KEYWORD_RETURN"
        /\ Head(<<"KEYWORD_BREAK", "END_STATEMENT">>) = "KEYWORD_BREAK"
    OBVIOUS
  <2>3. /\ Starters["VARIABLE_ASSIGNMENT"] = {"VARIABLE"}
        /\ Starters["GLOBAL_DECLARATION"] = {"KEYWORD_GLOBAL"}
        /\ Starters["FUNCTION_CALL"] = {"FUNCTION_NAME", "BUILTIN"}
        /\ Starters["KEYWORD_WHILE"] = {"KEYWORD_WHILE"}
        /\ Starters["KEYWORD_IF"] = {"KEYWORD_IF"}
        /\ Starters["KEYWORD_RETURN"] = {"KEYWORD_RETURN"}
        /\ Starters["KEYWORD_BREAK"] = {"KEYWORD_BREAK"}
    BY StartersOfPieces, StartersOfToken DEF Tokens
  <2> QED  BY <2>1, <2>2, <2>3 DEF Choices, Expands
<1>8. One("VARIABLE_ASSIGNMENT")
  <2>1. NonEmpty("VARIABLE_ASSIGNMENT") =
          {<<"VARIABLE", "ASSIGNER", "RVALUE">>}
    <3>1. GetDescendents("VARIABLE_ASSIGNMENT") =
            {<<"VARIABLE", "ASSIGNER", "RVALUE">>}
      BY Rules
    <3> QED  BY <3>1 DEF NonEmpty
  <2> QED  BY <2>1 DEF Choices
<1>9. One("GLOBAL_DECLARATION")
  <2>1. NonEmpty("GLOBAL_DECLARATION") =
          {<<"KEYWORD_GLOBAL", "VARIABLE">>}
    <3>1. GetDescendents("GLOBAL_DECLARATION") =
            {<<"KEYWORD_GLOBAL", "VARIABLE">>}
      BY Rules
    <3> QED  BY <3>1 DEF NonEmpty
  <2> QED  BY <2>1 DEF Choices
<1>10. One("FUNCTION_CALL")
  <2>1. NonEmpty("FUNCTION_CALL") =
          {<<"FUNCTION_NAME", "OPEN_FUNCTION_CALL", "RVALUE_LIST", "CLOSE_FUNCTION_CALL">>,
           <<"BUILTIN", "OPEN_FUNCTION_CALL", "RVALUE_LIST", "CLOSE_FUNCTION_CALL">>}
    <3>1. GetDescendents("FUNCTION_CALL") =
            {<<"FUNCTION_NAME", "OPEN_FUNCTION_CALL", "RVALUE_LIST", "CLOSE_FUNCTION_CALL">>,
             <<"BUILTIN", "OPEN_FUNCTION_CALL", "RVALUE_LIST", "CLOSE_FUNCTION_CALL">>}
      BY Rules
    <3> QED  BY <3>1 DEF NonEmpty
  <2>2. /\ Head(<<"FUNCTION_NAME", "OPEN_FUNCTION_CALL", "RVALUE_LIST", "CLOSE_FUNCTION_CALL">>) = "FUNCTION_NAME"
        /\ Head(<<"BUILTIN", "OPEN_FUNCTION_CALL", "RVALUE_LIST", "CLOSE_FUNCTION_CALL">>) = "BUILTIN"
    OBVIOUS
  <2>3. /\ Starters["FUNCTION_NAME"] = {"FUNCTION_NAME"}
        /\ Starters["BUILTIN"] = {"BUILTIN"}
    BY StartersOfPieces, StartersOfToken DEF Tokens
  <2> QED  BY <2>1, <2>2, <2>3 DEF Choices, Expands
<1>11. One("CONDITIONAL_EVALUATOR")
  <2>1. NonEmpty("CONDITIONAL_EVALUATOR") =
          {<<"OPEN_CONDITIONAL_BLOCK", "RVALUE", "CLOSE_CONDITIONAL_BLOCK">>}
    <3>1. GetDescendents("CONDITIONAL_EVALUATOR") =
            {<<"OPEN_CONDITIONAL_BLOCK", "RVALUE", "CLOSE_CONDITIONAL_BLOCK">>}
      BY Rules
    <3> QED  BY <3>1 DEF NonEmpty
  <2> QED  BY <2>1 DEF Choices
<1>12. One("ELSE_STATEMENT")
  <2>1. NonEmpty("ELSE_STATEMENT") =
          {<<"KEYWORD_ELSE", "CODE_BLOCK">>,
           <<"KEYWORD_ELIF", "CONDITIONAL_EVALUATOR", "CODE_BLOCK", "ELSE_STATEMENT">>}
    <3>1. GetDescendents("ELSE_STATEMENT") =
            {<<"KEYWORD_ELSE", "CODE_BLOCK">>,
             <<"KEYWORD_ELIF", "CONDITIONAL_EVALUATOR", "CODE_BLOCK", "ELSE_STATEMENT">>,
             <<>>}
      BY Rules
    <3> QED  BY <3>1 DEF NonEmpty
  <2>2. /\ Head(<<"KEYWORD_ELSE", "CODE_BLOCK">>) = "KEYWORD_ELSE"
        /\ Head(<<"KEYWORD_ELIF", "CONDITIONAL_EVALUATOR", "CODE_BLOCK", "ELSE_STATEMENT">>) = "KEYWORD_ELIF"
    OBVIOUS
  <2>3. /\ Starters["KEYWORD_ELSE"] = {"KEYWORD_ELSE"}
        /\ Starters["KEYWORD_ELIF"] = {"KEYWORD_ELIF"}
    BY StartersOfPieces, StartersOfToken DEF Tokens
  <2> QED  BY <2>1, <2>2, <2>3 DEF Choices, Expands
<1>13. One("RVALUE")
  <2>1. NonEmpty("RVALUE") =
          {<<"QUOTED_STRING">>,
           <<"VARIABLE">>,
           <<"FUNCTION_CALL">>}
    <3>1. GetDescendents("RVALUE") =
            {<<"QUOTED_STRING">>,
             <<"VARIABLE">>,
             <<"FUNCTION_CALL">>}
      BY Rules
    <3> QED  BY <3>1 DEF NonEmpty
  <2>2. /\ Head(<<"QUOTED_STRING">>) = "QUOTED_STRING"
        /\ Head(<<"VARIABLE">>) = "VARIABLE"
        /\ Head(<<"FUNCTION_CALL">>) = "FUNCTION_CALL"
    OBVIOUS
  <2>3. /\ Starters["QUOTED_STRING"] = {"QUOTED_STRING"}
        /\ Starters["VARIABLE"] = {"VARIABLE"}
        /\ Starters["FUNCTION_CALL"] = {"FUNCTION_NAME", "BUILTIN"}
    BY StartersOfPieces, StartersOfToken DEF Tokens
  <2> QED  BY <2>1, <2>2, <2>3 DEF Choices, Expands
<1>14. One("RVALUE_LIST")
  <2>1. NonEmpty("RVALUE_LIST") =
          {<<"RVALUE", "RVALUE_LIST_EXPANSION">>}
    <3>1. GetDescendents("RVALUE_LIST") =
            {<<"RVALUE", "RVALUE_LIST_EXPANSION">>,
             <<>>}
      BY Rules
    <3> QED  BY <3>1 DEF NonEmpty
  <2> QED  BY <2>1 DEF Choices
<1>15. One("RVALUE_LIST_EXPANSION")
  <2>1. NonEmpty("RVALUE_LIST_EXPANSION") =
          {<<"ARGUMENT_LIST_SEPARATOR", "RVALUE", "RVALUE_LIST_EXPANSION">>}
    <3>1. GetDescendents("RVALUE_LIST_EXPANSION") =
            {<<"ARGUMENT_LIST_SEPARATOR", "RVALUE", "RVALUE_LIST_EXPANSION">>,
             <<>>}
      BY Rules
    <3> QED  BY <3>1 DEF NonEmpty
  <2> QED  BY <2>1 DEF Choices
<1> HIDE DEF One
<1> QED  BY <1>1, <1>2, <1>3, <1>4, <1>5, <1>6, <1>7, <1>8, <1>9, <1>10, <1>11, <1>12, <1>13, <1>14, <1>15 DEF One, Expandable

LEMMA Unambiguous ==
  ASSUME NEW label \in Labels, NEW t \in Tokens
  PROVE  ~Ambiguous(label, t)
<1> SUFFICES ASSUME NEW piece \in Expandable PROVE ~(Cardinality(Choices(piece, t)) > 1)
  BY DEF Ambiguous
<1>1. CASE Choices(piece, t) = {}
  BY <1>1, FS_EmptySet
<1>2. CASE Choices(piece, t) # {}
  <2>1. PICK d : d \in Choices(piece, t)
    BY <1>2
  <2>2. Choices(piece, t) = {d}
    BY <2>1, AtMostOneChoice
  <2> QED  BY <2>2, FS_Singleton
<1> QED  BY <1>1, <1>2

(* An expansion starts with a token or with a piece that is never empty. *)
LEMMA ExpansionsAreLed ==
  \A label \in Expandable : \A d \in GetDescendents(label) :
    d # <<>> => Head(d) \in Tokens \cup Leaders
<1> DEFINE Led(label) == \A d \in GetDescendents(label) :
                           d # <<>> => Head(d) \in Tokens \cup Leaders
<1>1. Led("MODULE")
  <2>1. GetDescendents("MODULE") =
          {<<"END_OF_FILE">>,
           <<"FUNCTION_DEFINITION", "MODULE">>}
    BY Rules
  <2> QED  BY <2>1 DEF Tokens, Leaders
<1>2. Led("FUNCTION_DEFINITION")
  <2>1. GetDescendents("FUNCTION_DEFINITION") =
          {<<"FUNCTION_NAME", "OPEN_FUNCTION_CALL", "VARIABLES_LIST", "CLOSE_FUNCTION_CALL",
              "CODE_BLOCK">>}
    BY Rules
  <2> QED  BY <2>1 DEF Tokens, Leaders
<1>3. Led("VARIABLES_LIST")
  <2>1. GetDescendents("VARIABLES_LIST") =
          {<<"VARIABLE", "VARIABLES_LIST_EXPANSION">>,
           <<>>}
    BY Rules
  <2> QED  BY <2>1 DEF Tokens, Leaders
<1>4. Led("VARIABLES_LIST_EXPANSION")
  <2>1. GetDescendents("VARIABLES_LIST_EXPANSION") =
          {<<"ARGUMENT_LIST_SEPARATOR", "VARIABLE", "VARIABLES_LIST_EXPANSION">>,
           <<>>}
    BY Rules
  <2> QED  BY <2>1 DEF Tokens, Leaders
<1>5. Led("CODE_BLOCK")
  <2>1. GetDescendents("CODE_BLOCK") =
          {<<"OPEN_CODE_BLOCK", "STATEMENT_LIST", "CLOSE_CODE_BLOCK">>}
    BY Rules
  <2> QED  BY <2>1 DEF Tokens, Leaders
<1>6. Led("STATEMENT_LIST")
  <2>1. GetDescendents("STATEMENT_LIST") =
          {<<"STATEMENT", "STATEMENT_LIST">>,
           <<>>}
    BY Rules
  <2> QED  BY <2>1 DEF Tokens, Leaders
<1>7. Led("STATEMENT")
  <2>1. GetDescendents("STATEMENT") =
          {<<"VARIABLE_ASSIGNMENT", "END_STATEMENT">>,
           <<"GLOBAL_DECLARATION", "END_STATEMENT">>,
           <<"FUNCTION_CALL", "END_STATEMENT">>,
           <<"KEYWORD_WHILE", "CONDITIONAL_EVALUATOR", "CODE_BLOCK">>,
           <<"KEYWORD_IF", "CONDITIONAL_EVALUATOR", "CODE_BLOCK", "ELSE_STATEMENT">>,
           <<"KEYWORD_RETURN", "RVALUE", "END_STATEMENT">>,
           <<"KEYWORD_BREAK", "END_STATEMENT">>}
    BY Rules
  <2> QED  BY <2>1 DEF Tokens, Leaders
<1>8. Led("VARIABLE_ASSIGNMENT")
  <2>1. GetDescendents("VARIABLE_ASSIGNMENT") =
          {<<"VARIABLE", "ASSIGNER", "RVALUE">>}
    BY Rules
  <2> QED  BY <2>1 DEF Tokens, Leaders
<1>9. Led("GLOBAL_DECLARATION")
  <2>1. GetDescendents("GLOBAL_DECLARATION") =
          {<<"KEYWORD_GLOBAL", "VARIABLE">>}
    BY Rules
  <2> QED  BY <2>1 DEF Tokens, Leaders
<1>10. Led("FUNCTION_CALL")
  <2>1. GetDescendents("FUNCTION_CALL") =
          {<<"FUNCTION_NAME", "OPEN_FUNCTION_CALL", "RVALUE_LIST", "CLOSE_FUNCTION_CALL">>,
           <<"BUILTIN", "OPEN_FUNCTION_CALL", "RVALUE_LIST", "CLOSE_FUNCTION_CALL">>}
    BY Rules
  <2> QED  BY <2>1 DEF Tokens, Leaders
<1>11. Led("CONDITIONAL_EVALUATOR")
  <2>1. GetDescendents("CONDITIONAL_EVALUATOR") =
          {<<"OPEN_CONDITIONAL_BLOCK", "RVALUE", "CLOSE_CONDITIONAL_BLOCK">>}
    BY Rules
  <2> QED  BY <2>1 DEF Tokens, Leaders
<1>12. Led("ELSE_STATEMENT")
  <2>1. GetDescendents("ELSE_STATEMENT") =
          {<<"KEYWORD_ELSE", "CODE_BLOCK">>,
           <<"KEYWORD_ELIF", "CONDITIONAL_EVALUATOR", "CODE_BLOCK", "ELSE_STATEMENT">>,
           <<>>}
    BY Rules
  <2> QED  BY <2>1 DEF Tokens, Leaders
<1>13. Led("RVALUE")
  <2>1. GetDescendents("RVALUE") =
          {<<"QUOTED_STRING">>,
           <<"VARIABLE">>,
           <<"FUNCTION_CALL">>}
    BY Rules
  <2> QED  BY <2>1 DEF Tokens, Leaders
<1>14. Led("RVALUE_LIST")
  <2>1. GetDescendents("RVALUE_LIST") =
          {<<"RVALUE", "RVALUE_LIST_EXPANSION">>,
           <<>>}
    BY Rules
  <2> QED  BY <2>1 DEF Tokens, Leaders
<1>15. Led("RVALUE_LIST_EXPANSION")
  <2>1. GetDescendents("RVALUE_LIST_EXPANSION") =
          {<<"ARGUMENT_LIST_SEPARATOR", "RVALUE", "RVALUE_LIST_EXPANSION">>,
           <<>>}
    BY Rules
  <2> QED  BY <2>1 DEF Tokens, Leaders
<1> HIDE DEF Led
<1> QED  BY <1>1, <1>2, <1>3, <1>4, <1>5, <1>6, <1>7, <1>8, <1>9, <1>10, <1>11, <1>12, <1>13, <1>14, <1>15 DEF Led, Expandable

LEMMA OnlyNullable ==
  \A label \in Expandable : <<>> \in GetDescendents(label) => label \in Nullable
<1>1. <<>> \notin GetDescendents("MODULE")
  <2>1. GetDescendents("MODULE") =
          {<<"END_OF_FILE">>,
           <<"FUNCTION_DEFINITION", "MODULE">>}
    BY Rules
  <2> QED  BY <2>1
<1>2. <<>> \notin GetDescendents("FUNCTION_DEFINITION")
  <2>1. GetDescendents("FUNCTION_DEFINITION") =
          {<<"FUNCTION_NAME", "OPEN_FUNCTION_CALL", "VARIABLES_LIST", "CLOSE_FUNCTION_CALL",
              "CODE_BLOCK">>}
    BY Rules
  <2> QED  BY <2>1
<1>3. <<>> \notin GetDescendents("CODE_BLOCK")
  <2>1. GetDescendents("CODE_BLOCK") =
          {<<"OPEN_CODE_BLOCK", "STATEMENT_LIST", "CLOSE_CODE_BLOCK">>}
    BY Rules
  <2> QED  BY <2>1
<1>4. <<>> \notin GetDescendents("STATEMENT")
  <2>1. GetDescendents("STATEMENT") =
          {<<"VARIABLE_ASSIGNMENT", "END_STATEMENT">>,
           <<"GLOBAL_DECLARATION", "END_STATEMENT">>,
           <<"FUNCTION_CALL", "END_STATEMENT">>,
           <<"KEYWORD_WHILE", "CONDITIONAL_EVALUATOR", "CODE_BLOCK">>,
           <<"KEYWORD_IF", "CONDITIONAL_EVALUATOR", "CODE_BLOCK", "ELSE_STATEMENT">>,
           <<"KEYWORD_RETURN", "RVALUE", "END_STATEMENT">>,
           <<"KEYWORD_BREAK", "END_STATEMENT">>}
    BY Rules
  <2> QED  BY <2>1
<1>5. <<>> \notin GetDescendents("VARIABLE_ASSIGNMENT")
  <2>1. GetDescendents("VARIABLE_ASSIGNMENT") =
          {<<"VARIABLE", "ASSIGNER", "RVALUE">>}
    BY Rules
  <2> QED  BY <2>1
<1>6. <<>> \notin GetDescendents("GLOBAL_DECLARATION")
  <2>1. GetDescendents("GLOBAL_DECLARATION") =
          {<<"KEYWORD_GLOBAL", "VARIABLE">>}
    BY Rules
  <2> QED  BY <2>1
<1>7. <<>> \notin GetDescendents("FUNCTION_CALL")
  <2>1. GetDescendents("FUNCTION_CALL") =
          {<<"FUNCTION_NAME", "OPEN_FUNCTION_CALL", "RVALUE_LIST", "CLOSE_FUNCTION_CALL">>,
           <<"BUILTIN", "OPEN_FUNCTION_CALL", "RVALUE_LIST", "CLOSE_FUNCTION_CALL">>}
    BY Rules
  <2> QED  BY <2>1
<1>8. <<>> \notin GetDescendents("CONDITIONAL_EVALUATOR")
  <2>1. GetDescendents("CONDITIONAL_EVALUATOR") =
          {<<"OPEN_CONDITIONAL_BLOCK", "RVALUE", "CLOSE_CONDITIONAL_BLOCK">>}
    BY Rules
  <2> QED  BY <2>1
<1>9. <<>> \notin GetDescendents("RVALUE")
  <2>1. GetDescendents("RVALUE") =
          {<<"QUOTED_STRING">>,
           <<"VARIABLE">>,
           <<"FUNCTION_CALL">>}
    BY Rules
  <2> QED  BY <2>1
<1> QED  BY <1>1, <1>2, <1>3, <1>4, <1>5, <1>6, <1>7, <1>8, <1>9 DEF Expandable, Nullable
(* The tokens for which a piece that may be empty is not replaced by nothing. *)
Continues(label) ==
  CASE label = "VARIABLES_LIST" -> {"VARIABLE"}
    [] label \in {"VARIABLES_LIST_EXPANSION", "RVALUE_LIST_EXPANSION"} ->
         {"ARGUMENT_LIST_SEPARATOR"}
    [] label = "STATEMENT_LIST" -> Starters["STATEMENT"]
    [] label = "RVALUE_LIST" -> Starters["RVALUE"]
    [] label = "ELSE_STATEMENT" -> {"KEYWORD_ELSE", "KEYWORD_ELIF"}

LEMMA ContinuesValues ==
  /\ Continues("VARIABLES_LIST") = {"VARIABLE"}
  /\ Continues("VARIABLES_LIST_EXPANSION") = {"ARGUMENT_LIST_SEPARATOR"}
  /\ Continues("STATEMENT_LIST") = Starters["STATEMENT"]
  /\ Continues("RVALUE_LIST") = Starters["RVALUE"]
  /\ Continues("RVALUE_LIST_EXPANSION") = {"ARGUMENT_LIST_SEPARATOR"}
  /\ Continues("ELSE_STATEMENT") = {"KEYWORD_ELSE", "KEYWORD_ELIF"}
<1>1. Continues("VARIABLES_LIST") = {"VARIABLE"}
  BY Zenon DEF Continues
<1>2. Continues("VARIABLES_LIST_EXPANSION") = {"ARGUMENT_LIST_SEPARATOR"}
  BY Zenon DEF Continues
<1>3. Continues("STATEMENT_LIST") = Starters["STATEMENT"]
  BY Zenon DEF Continues
<1>4. Continues("RVALUE_LIST") = Starters["RVALUE"]
  BY Zenon DEF Continues
<1>5. Continues("RVALUE_LIST_EXPANSION") = {"ARGUMENT_LIST_SEPARATOR"}
  BY Zenon DEF Continues
<1>6. Continues("ELSE_STATEMENT") = {"KEYWORD_ELSE", "KEYWORD_ELIF"}
  BY Zenon DEF Continues
<1> QED  BY <1>1, <1>2, <1>3, <1>4, <1>5, <1>6

LEMMA ChoicesContinue ==
  \A label \in Nullable : \A t \in Tokens : Choices(label, t) # {} => t \in Continues(label)
<1> DEFINE OK(label) == \A t \in Tokens : Choices(label, t) # {} => t \in Continues(label)
<1>1. OK("VARIABLES_LIST")
  <2>1. NonEmpty("VARIABLES_LIST") =
          {<<"VARIABLE", "VARIABLES_LIST_EXPANSION">>}
    <3>1. GetDescendents("VARIABLES_LIST") =
            {<<"VARIABLE", "VARIABLES_LIST_EXPANSION">>,
             <<>>}
      BY Rules
    <3> QED  BY <3>1 DEF NonEmpty
  <2>2. /\ Head(<<"VARIABLE", "VARIABLES_LIST_EXPANSION">>) = "VARIABLE"
    OBVIOUS
  <2>3. /\ Starters["VARIABLE"] = {"VARIABLE"}
    BY StartersOfToken DEF Tokens
  <2> QED  BY <2>1, <2>2, <2>3, ContinuesValues DEF Choices, Expands
<1>2. OK("VARIABLES_LIST_EXPANSION")
  <2>1. NonEmpty("VARIABLES_LIST_EXPANSION") =
          {<<"ARGUMENT_LIST_SEPARATOR", "VARIABLE", "VARIABLES_LIST_EXPANSION">>}
    <3>1. GetDescendents("VARIABLES_LIST_EXPANSION") =
            {<<"ARGUMENT_LIST_SEPARATOR", "VARIABLE", "VARIABLES_LIST_EXPANSION">>,
             <<>>}
      BY Rules
    <3> QED  BY <3>1 DEF NonEmpty
  <2>2. /\ Head(<<"ARGUMENT_LIST_SEPARATOR", "VARIABLE", "VARIABLES_LIST_EXPANSION">>) = "ARGUMENT_LIST_SEPARATOR"
    OBVIOUS
  <2>3. /\ Starters["ARGUMENT_LIST_SEPARATOR"] = {"ARGUMENT_LIST_SEPARATOR"}
    BY StartersOfToken DEF Tokens
  <2> QED  BY <2>1, <2>2, <2>3, ContinuesValues DEF Choices, Expands
<1>3. OK("STATEMENT_LIST")
  <2>1. NonEmpty("STATEMENT_LIST") =
          {<<"STATEMENT", "STATEMENT_LIST">>}
    <3>1. GetDescendents("STATEMENT_LIST") =
            {<<"STATEMENT", "STATEMENT_LIST">>,
             <<>>}
      BY Rules
    <3> QED  BY <3>1 DEF NonEmpty
  <2>2. /\ Head(<<"STATEMENT", "STATEMENT_LIST">>) = "STATEMENT"
    OBVIOUS
  <2> QED  BY <2>1, <2>2, ContinuesValues DEF Choices, Expands
<1>4. OK("RVALUE_LIST")
  <2>1. NonEmpty("RVALUE_LIST") =
          {<<"RVALUE", "RVALUE_LIST_EXPANSION">>}
    <3>1. GetDescendents("RVALUE_LIST") =
            {<<"RVALUE", "RVALUE_LIST_EXPANSION">>,
             <<>>}
      BY Rules
    <3> QED  BY <3>1 DEF NonEmpty
  <2>2. /\ Head(<<"RVALUE", "RVALUE_LIST_EXPANSION">>) = "RVALUE"
    OBVIOUS
  <2> QED  BY <2>1, <2>2, ContinuesValues DEF Choices, Expands
<1>5. OK("RVALUE_LIST_EXPANSION")
  <2>1. NonEmpty("RVALUE_LIST_EXPANSION") =
          {<<"ARGUMENT_LIST_SEPARATOR", "RVALUE", "RVALUE_LIST_EXPANSION">>}
    <3>1. GetDescendents("RVALUE_LIST_EXPANSION") =
            {<<"ARGUMENT_LIST_SEPARATOR", "RVALUE", "RVALUE_LIST_EXPANSION">>,
             <<>>}
      BY Rules
    <3> QED  BY <3>1 DEF NonEmpty
  <2>2. /\ Head(<<"ARGUMENT_LIST_SEPARATOR", "RVALUE", "RVALUE_LIST_EXPANSION">>) = "ARGUMENT_LIST_SEPARATOR"
    OBVIOUS
  <2>3. /\ Starters["ARGUMENT_LIST_SEPARATOR"] = {"ARGUMENT_LIST_SEPARATOR"}
    BY StartersOfToken DEF Tokens
  <2> QED  BY <2>1, <2>2, <2>3, ContinuesValues DEF Choices, Expands
<1>6. OK("ELSE_STATEMENT")
  <2>1. NonEmpty("ELSE_STATEMENT") =
          {<<"KEYWORD_ELSE", "CODE_BLOCK">>,
           <<"KEYWORD_ELIF", "CONDITIONAL_EVALUATOR", "CODE_BLOCK", "ELSE_STATEMENT">>}
    <3>1. GetDescendents("ELSE_STATEMENT") =
            {<<"KEYWORD_ELSE", "CODE_BLOCK">>,
             <<"KEYWORD_ELIF", "CONDITIONAL_EVALUATOR", "CODE_BLOCK", "ELSE_STATEMENT">>,
             <<>>}
      BY Rules
    <3> QED  BY <3>1 DEF NonEmpty
  <2>2. /\ Head(<<"KEYWORD_ELSE", "CODE_BLOCK">>) = "KEYWORD_ELSE"
        /\ Head(<<"KEYWORD_ELIF", "CONDITIONAL_EVALUATOR", "CODE_BLOCK", "ELSE_STATEMENT">>) = "KEYWORD_ELIF"
    OBVIOUS
  <2>3. /\ Starters["KEYWORD_ELSE"] = {"KEYWORD_ELSE"}
        /\ Starters["KEYWORD_ELIF"] = {"KEYWORD_ELIF"}
    BY StartersOfToken DEF Tokens
  <2> QED  BY <2>1, <2>2, <2>3, ContinuesValues DEF Choices, Expands
<1> HIDE DEF OK
<1> QED  BY <1>1, <1>2, <1>3, <1>4, <1>5, <1>6 DEF OK, Nullable

(* What follows a piece that may be empty never starts with a token that the *)
(* piece itself could start with.                                           *)
LEMMA Follow ==
  ASSUME NEW program \in Seq(Labels), program # <<>>, WellFormed(program),
         Head(program) \in Nullable, NEW t \in Tokens, Choices(Head(program), t) # {},
         NEW p \in Derived[Tail(program)], p # <<>>
  PROVE  Head(p) # t
<1> DEFINE h == Head(program)
           s == Tail(program)
<1>1. /\ s \in Seq(Labels) /\ h = program[1] /\ Len(s) = Len(program) - 1
      /\ Len(program) \in Nat /\ Len(program) > 0
      /\ \A i \in 1..Len(s) : s[i] = program[i + 1]
  BY EmptySeq
<1>2. h \in Tied
  BY DEF Tied, Lists, Nullable
<1>0. /\ Begins("CLOSE_FUNCTION_CALL", {"CLOSE_FUNCTION_CALL"})
      /\ Begins("CLOSE_CODE_BLOCK", {"CLOSE_CODE_BLOCK"})
  BY BeginsWithToken DEF Tokens
<1>3. 1 < Len(program) /\ program[1 + 1] = Follower(h)
  <2>1. 1 \in 1..Len(program)
    BY <1>1
  <2> QED  BY <1>1, <1>2, <2>1 DEF WellFormed
<1>4. s # <<>> /\ Head(s) = Follower(h)
  <2>1. Len(s) > 0 /\ 1 \in 1..Len(s)
    BY <1>1, <1>3
  <2>2. s[1] = Follower(h)
    BY <1>1, <1>3, <2>1
  <2> HIDE DEF s, h
  <2> QED  BY <1>1, <2>1, <2>2
<1>5. t \in Continues(h)
  BY ChoicesContinue
<1>6. CASE h \in Lists
  <2>1. Head(s) = "CLOSE_FUNCTION_CALL"
    BY <1>4, <1>6 DEF Follower
  <2>2. Head(p) = "CLOSE_FUNCTION_CALL"
    <3> HIDE DEF s
    <3> QED  BY <1>0, <1>1, <1>4, <2>1 DEF Begins, s
  <2>3. "CLOSE_FUNCTION_CALL" \notin Continues(h)
    <3> HIDE DEF h
    <3> QED  BY <1>6, ContinuesValues, StartersOfPieces DEF Lists
  <2> QED  BY <1>5, <2>2, <2>3
<1>7. CASE h = "STATEMENT_LIST"
  <2>1. Head(s) = "CLOSE_CODE_BLOCK"
    BY <1>4, <1>7 DEF Follower, Lists
  <2>2. Head(p) = "CLOSE_CODE_BLOCK"
    <3> HIDE DEF s
    <3> QED  BY <1>0, <1>1, <1>4, <2>1 DEF Begins, s
  <2> QED  BY <1>5, <1>7, <2>2, ContinuesValues, StartersOfPieces
<1>8. CASE h = "ELSE_STATEMENT"
  <2>1. Head(s) = "STATEMENT_LIST"
    BY <1>4, <1>8 DEF Follower, Lists
  <2> DEFINE r == Tail(s)
  <2>2. r \in Seq(Labels) /\ r # <<>> /\ Head(r) = "CLOSE_CODE_BLOCK"
    <3>1. program[2] = "STATEMENT_LIST" /\ 2 \in 1..Len(program)
      BY <1>1, <1>3, <1>8 DEF Follower, Lists
    <3>2. 2 < Len(program) /\ program[2 + 1] = "CLOSE_CODE_BLOCK"
      BY <3>1 DEF WellFormed, Tied, Follower, Lists
    <3>3. Len(r) = Len(s) - 1 /\ r \in Seq(Labels) /\ \A i \in 1..Len(r) : r[i] = s[i + 1]
      BY <1>1, <1>4
    <3>4. 1 \in 1..Len(r) /\ 2 \in 1..Len(s)
      BY <1>1, <3>2, <3>3
    <3>5. r[1] = "CLOSE_CODE_BLOCK"
      <4>1. r[1] = s[1 + 1] /\ s[2] = program[2 + 1]
        BY <1>1, <3>3, <3>4
      <4> QED  BY <3>2, <4>1
    <3> HIDE DEF r
    <3> QED  BY <3>3, <3>4, <3>5
  <2>3. PICK d \in GetDescendents("STATEMENT_LIST") : p \in Derived[d \o r]
    <3>1. Head(s) \in Expandable
      BY <2>1 DEF Expandable
    <3>2. p \in Derived[s]
      OBVIOUS
    <3> HIDE DEF s
    <3>3. Derived[s] = UNION {Derived[e \o Tail(s)] : e \in GetDescendents(Head(s))}
      BY <1>1, <1>4, <3>1, DerivedOfPiece
    <3> QED  BY <2>1, <3>2, <3>3
  <2>4. d = <<>> \/ d = <<"STATEMENT", "STATEMENT_LIST">>
    BY Rules
  <2>5. CASE d = <<>>
    <3>1. d \o r = r
      BY <2>2, <2>5
    <3>2. Head(p) = "CLOSE_CODE_BLOCK"
      <4> HIDE DEF r
      <4> QED  BY <1>0, <2>2, <2>3, <3>1 DEF Begins
    <3> QED  BY <1>5, <1>8, <3>2, ContinuesValues
  <2>6. CASE d = <<"STATEMENT", "STATEMENT_LIST">>
    <3>0. Head(s) \in Expandable
      BY <2>1 DEF Expandable
    <3>1. d # <<>> /\ Head(d) = "STATEMENT"
      BY <2>6
    <3>2. d \o r \in Seq(Labels) /\ d \o r # <<>> /\ Head(d \o r) = "STATEMENT"
      <4> HIDE DEF s
      <4> QED  BY <1>1, <1>4, <2>1, <3>0, <3>1, ReplacedSequence
    <3>3. Begins("STATEMENT", Starters["STATEMENT"])
      BY BeginsWithStarters DEF Leaders
    <3>4. Head(p) \in Starters["STATEMENT"]
      <4> HIDE DEF r
      <4> QED  BY <2>3, <3>2, <3>3 DEF Begins
    <3> QED  BY <1>5, <1>8, <3>4, ContinuesValues, StartersOfPieces
  <2> QED  BY <2>4, <2>5, <2>6
<1>9. h \in Lists \/ h = "STATEMENT_LIST" \/ h = "ELSE_STATEMENT"
  BY DEF Nullable, Lists
<1> QED  BY <1>6, <1>7, <1>8, <1>9
-----------------------------------------------------------------------------
(* The inductive invariant. *)

(* The program is one a leftmost derivation of MODULE can reach, it is used  *)
(* up with END_OF_FILE, and the parser has left out no other derivation.    *)
IInv ==
  /\ TypeOK /\ at_end \in BOOLEAN
  /\ WellFormed(current_program)
  /\ current_program = <<>> <=> at_end
  /\ ~at_end => token_index < MaxTokens
  /\ token # NoToken => ~at_end /\ (token_index + 1 = MaxTokens => token = "END_OF_FILE")
  /\ token = NoToken => possible = {current_program}
  /\ FollowsEveryDerivation
  /\ ErrorsAreReal
  /\ NeverAborts
-----------------------------------------------------------------------------
(* What a step does to the derivations. *)

LEMMA LedByOne ==
  ASSUME NEW program, NEW t
  PROVE  LedBy({program}, t) = {p \in Derived[program] : p # <<>> /\ Head(p) = t}
BY DEF LedBy

(* A token leads its own program only. *)
LEMMA LedByToken ==
  ASSUME NEW program \in Seq(Labels), program # <<>>, Head(program) \in Tokens, NEW t
  PROVE  LedBy({program}, t) = IF Head(program) = t THEN {program} ELSE {}
<1>1. Derived[program] = {program}
  BY DerivedEquation DEF IsToken
<1>2. LedBy({program}, t) = {p \in {program} : p # <<>> /\ Head(p) = t}
  BY <1>1, LedByOne
<1> QED  BY <1>2

(* The expansion the parser takes when Expand finds one. *)
Chosen(label, t) ==
  IF Choices(label, t) = {} THEN <<>> ELSE CHOOSE d \in Choices(label, t) : TRUE

LEMMA ChosenExpansion ==
  ASSUME NEW label \in Expandable, NEW t \in Tokens, Expands(label, t)
  PROVE  /\ Chosen(label, t) \in GetDescendents(label)
         /\ \A d \in Choices(label, t) : d = Chosen(label, t)
<1>0. label \in Labels /\ ~IsToken(label)
  BY DEF Labels, IsToken, Expandable, Tokens
<1>1. CASE Choices(label, t) = {}
  <2>1. AllowEmpty(label)
    <3> SUFFICES ASSUME ~AllowEmpty(label) PROVE FALSE
      OBVIOUS
    <3>1. t \in UNION {Starters[Head(d)] : d \in NonEmpty(label)}
      BY <1>0, StartersEquation DEF Expands
    <3> QED  BY <1>1, <3>1 DEF Choices, Expands
  <2> QED  BY <1>1, <2>1 DEF Chosen, AllowEmpty
<1>2. CASE Choices(label, t) # {}
  <2>1. Chosen(label, t) \in Choices(label, t)
    BY <1>2 DEF Chosen
  <2>2. \A d \in Choices(label, t) : d = Chosen(label, t)
    BY <2>1, AtMostOneChoice
  <2> QED  BY <2>1, <2>2 DEF Choices, NonEmpty
<1> QED  BY <1>1, <1>2

(* The expansion chosen contains every way to go on with the token. *)
LEMMA ExpandKeepsDerivations ==
  ASSUME NEW program \in Seq(Labels), program # <<>>, WellFormed(program),
         Head(program) \in Expandable, NEW t \in Tokens, Expands(Head(program), t)
  PROVE  LedBy({Chosen(Head(program), t) \o Tail(program)}, t) = LedBy({program}, t)
<1> DEFINE h == Head(program)
           s == Tail(program)
           c == Chosen(h, t)
<1>1. c \in GetDescendents(h) /\ \A d \in Choices(h, t) : d = c
  BY ChosenExpansion
<1>2. Derived[program] = UNION {Derived[d \o s] : d \in GetDescendents(h)}
  BY DerivedOfPiece
<1>3. ASSUME NEW d \in GetDescendents(h), NEW p \in Derived[d \o s], p # <<>>, Head(p) = t
      PROVE  d = c
  <2>1. /\ d \o s \in Seq(Labels)
        /\ d # <<>> => d \o s # <<>> /\ Head(d \o s) = Head(d)
        /\ d = <<>> => d \o s = s
    BY ReplacedSequence
  <2>2. CASE d # <<>>
    <3>1. Begins(Head(d), Starters[Head(d)])
      BY <2>2, ExpansionsAreLed, BeginsWithStarters
    <3>2. t \in Starters[Head(d)]
      <4> HIDE DEF s, h
      <4> QED  BY <1>3, <2>1, <2>2, <3>1 DEF Begins
    <3>3. d \in Choices(h, t)
      BY <2>2, <3>2 DEF Choices, NonEmpty, Expands
    <3> QED  BY <1>1, <3>3
  <2>3. CASE d = <<>>
    <3>1. h \in Nullable
      BY <2>3, OnlyNullable
    <3>2. p \in Derived[s]
      BY <1>3, <2>1, <2>3
    <3>3. Choices(h, t) = {}
      BY <1>3, <3>1, <3>2, Follow
    <3> QED  BY <2>3, <3>3 DEF Chosen
  <2> QED  BY <2>2, <2>3
<1> HIDE DEF c, h, s
<1>4. \A p : p # <<>> /\ Head(p) = t => (p \in Derived[program] <=> p \in Derived[c \o s])
  BY <1>1, <1>2, <1>3
<1>5. LedBy({c \o s}, t) = LedBy({program}, t)
  <2>1. LedBy({program}, t) = {p \in Derived[program] : p # <<>> /\ Head(p) = t}
    BY LedByOne
  <2>2. LedBy({c \o s}, t) = {p \in Derived[c \o s] : p # <<>> /\ Head(p) = t}
    BY LedByOne
  <2> QED  BY <1>4, <2>1, <2>2
<1> QED  BY <1>5 DEF c, h, s

(* When Expand finds none, no derivation goes on with the token. *)
LEMMA NoExpansionNoDerivation ==
  ASSUME NEW program \in Seq(Labels), program # <<>>,
         NEW t \in Tokens, Head(program) # t, ~Expands(Head(program), t)
  PROVE  LedBy({program}, t) = {}
<1> DEFINE h == Head(program)
           s == Tail(program)
<1>0. h \in Labels
  OBVIOUS
<1>1. CASE h \in Tokens
  BY <1>1, LedByToken
<1>2. CASE h \in Expandable
  <2>1. ~IsToken(h) /\ t \notin Starters[h]
    BY <1>2 DEF IsToken, Expandable, Tokens, Expands
  <2>2. ~AllowEmpty(h)
    BY <1>0, <2>1, StartersEquation
  <2>3. \A d \in GetDescendents(h) : d # <<>> /\ d \in NonEmpty(h)
    BY <2>2 DEF AllowEmpty, NonEmpty
  <2>4. \A d \in GetDescendents(h) : t \notin Starters[Head(d)]
    BY <1>0, <2>1, <2>2, <2>3, StartersEquation
  <2>5. Derived[program] = UNION {Derived[d \o s] : d \in GetDescendents(h)}
    BY <1>2, DerivedOfPiece
  <2>6. ASSUME NEW p \in Derived[program], p # <<>>
        PROVE  Head(p) # t
    <3>1. PICK d \in GetDescendents(h) : p \in Derived[d \o s]
      BY <2>5
    <3>2. d \o s \in Seq(Labels) /\ d \o s # <<>> /\ Head(d \o s) = Head(d)
      BY <1>2, <2>3, ReplacedSequence
    <3>3. Begins(Head(d), Starters[Head(d)])
      BY <1>2, <2>3, ExpansionsAreLed, BeginsWithStarters
    <3>4. Head(p) \in Starters[Head(d)]
      <4> HIDE DEF s, h
      <4> QED  BY <3>1, <3>2, <3>3 DEF Begins
    <3> QED  BY <2>4, <3>4
  <2> QED  BY <2>6, LedByOne
<1> QED  BY <1>0, <1>1, <1>2 DEF Labels
LEMMA TailWellFormed ==
  ASSUME NEW p \in Seq(Labels), p # <<>>, WellFormed(p)
  PROVE  /\ Tail(p) \in Seq(Labels) /\ WellFormed(Tail(p))
         /\ Tail(p) = <<>> <=> Head(p) \in Ends
<1> DEFINE s == Tail(p)
<1>1. /\ s \in Seq(Labels) /\ Head(p) = p[1] /\ Len(p) = Len(s) + 1 /\ Len(s) \in Nat
      /\ \A i \in 1..Len(s) : s[i] = p[i + 1]
  BY EmptySeq
<1>2. \A i \in 1..Len(p) :
        /\ p[i] \in Tied => i < Len(p) /\ p[i + 1] = Follower(p[i])
        /\ p[i] \in Ends <=> i = Len(p)
  BY DEF WellFormed
<1>3. Len(s) = 0 <=> s = <<>>
  <2> HIDE DEF s
  <2> QED  BY <1>1, EmptySeq
<1> HIDE DEF s
<1>4. s = <<>> <=> Head(p) \in Ends
  <2>1. 1 \in 1..Len(p)
    BY <1>1
  <2>2. p[1] \in Ends <=> 1 = Len(p)
    BY <1>2, <2>1
  <2> QED  BY <1>1, <1>3, <2>2
<1>5. WellFormed(s)
  <2> SUFFICES ASSUME NEW i \in 1..Len(s)
               PROVE  /\ s[i] \in Tied => i < Len(s) /\ s[i + 1] = Follower(s[i])
                      /\ s[i] \in Ends <=> i = Len(s)
    BY DEF WellFormed
  <2> DEFINE k == i + 1
  <2>1. k \in 1..Len(p) /\ s[i] = p[k] /\ (k < Len(p) <=> i < Len(s))
        /\ (k = Len(p) <=> i = Len(s))
    BY <1>1
  <2>2. i < Len(s) => s[i + 1] = p[k + 1]
    BY <1>1
  <2> HIDE DEF k
  <2> QED  BY <1>2, <2>1, <2>2
<1> QED  BY <1>1, <1>4, <1>5 DEF s

-----------------------------------------------------------------------------
(* The steps. *)

LEMMA InitInvariant == Init => IInv
<1> SUFFICES ASSUME Init PROVE IInv
  OBVIOUS
<1> USE BoundAssumption DEF Init
<1>1. "MODULE" \in Labels /\ "MODULE" \in Ends /\ "MODULE" \notin Tied
  BY DEF Labels, Expandable, Ends, Tied, Lists
<1>2. TypeOK
  BY <1>1 DEF TypeOK
<1>3. WellFormed(current_program)
  BY <1>1 DEF WellFormed
<1>4. current_program # <<>> /\ at_end = FALSE
  BY <1>1
<1>5. token_index < MaxTokens /\ token = NoToken /\ possible = {current_program}
  OBVIOUS
<1>6. FollowsEveryDerivation /\ ErrorsAreReal /\ NeverAborts
  BY <1>5 DEF FollowsEveryDerivation, ErrorsAreReal, NeverAborts
<1> QED  BY <1>2, <1>3, <1>4, <1>5, <1>6 DEF IInv

LEMMA LookStep ==
  ASSUME IInv, Look
  PROVE  IInv'
<1> USE BoundAssumption
<1>1. ~at_end /\ UNCHANGED <<status, current_program, token_index, at_end, possible>>
  BY DEF IInv, Look
<1>2. token' \in Tokens /\ (token_index + 1 = MaxTokens => token' = "END_OF_FILE")
  <2>1. token_index + 1 = MaxTokens => ~(token_index + 1 < MaxTokens)
    BY DEF IInv, TypeOK
  <2> QED  BY <1>1, <2>1 DEF Look, Tokens
<1>3. token' # NoToken /\ possible = {current_program} /\ status = "parsing"
  BY <1>2 DEF IInv, Look, Labels
<1>4. LedBy({current_program'}, token') = LedBy(possible', token')
  BY <1>1, <1>3
<1>5. (FollowsEveryDerivation /\ ErrorsAreReal /\ NeverAborts)'
  BY <1>1, <1>3, <1>4 DEF FollowsEveryDerivation, ErrorsAreReal, NeverAborts
<1>6. TypeOK'
  BY <1>1, <1>2 DEF IInv, TypeOK
<1> QED  BY <1>1, <1>2, <1>3, <1>5, <1>6 DEF IInv, WellFormed

LEMMA ConsumeStep ==
  ASSUME IInv, Consume
  PROVE  IInv'
<1> USE BoundAssumption
<1>1. /\ status = "parsing" /\ status' = "parsing" /\ token' = NoToken
      /\ current_program # <<>> /\ token # NoToken /\ Head(current_program) = token
      /\ current_program' = Tail(current_program) /\ token_index' = token_index + 1
      /\ at_end' = (token = "END_OF_FILE")
      /\ possible' = {Tail(p) : p \in LedBy(possible, token)}
  BY DEF Consume, Looking
<1>2. /\ current_program \in Seq(Labels) /\ token \in Tokens /\ WellFormed(current_program)
      /\ token_index \in 0..MaxTokens /\ ~at_end /\ token_index < MaxTokens
      /\ token_index + 1 = MaxTokens => token = "END_OF_FILE"
      /\ LedBy({current_program}, token) = LedBy(possible, token)
  BY <1>1 DEF IInv, TypeOK, FollowsEveryDerivation
<1>3. LedBy({current_program}, token) = {current_program}
  BY <1>1, <1>2, LedByToken
<1>4. possible' = {current_program'}
  BY <1>1, <1>2, <1>3
<1>5. /\ current_program' \in Seq(Labels) /\ WellFormed(current_program)'
      /\ current_program' = <<>> <=> token \in Ends
  <2>1. WellFormed(Tail(current_program))
    BY <1>1, <1>2, TailWellFormed
  <2>2. WellFormed(current_program)'
    BY <1>1, <2>1 DEF WellFormed
  <2> QED  BY <1>1, <1>2, <2>2, TailWellFormed
<1>6. current_program' = <<>> <=> at_end'
  <2>1. token \in Ends <=> token = "END_OF_FILE"
    BY <1>2 DEF Ends, Tokens
  <2> QED  BY <1>1, <1>5, <2>1
<1>7. token_index' \in 0..MaxTokens /\ (~at_end' => token_index' < MaxTokens)
  <2>1. token_index' \in 0..MaxTokens
    BY <1>1, <1>2
  <2>2. ~at_end' => token_index + 1 # MaxTokens
    BY <1>1, <1>2
  <2>3. token_index + 1 # MaxTokens => token_index' < MaxTokens
    BY <1>1, <1>2
  <2> QED  BY <2>1, <2>2, <2>3
<1>8. TypeOK'
  BY <1>1, <1>5, <1>7 DEF TypeOK
<1>9. (FollowsEveryDerivation /\ ErrorsAreReal /\ NeverAborts)'
  BY <1>1 DEF FollowsEveryDerivation, ErrorsAreReal, NeverAborts
<1>10. at_end' \in BOOLEAN
  BY <1>1
<1> QED  BY <1>1, <1>4, <1>5, <1>6, <1>7, <1>8, <1>9, <1>10 DEF IInv

LEMMA ExpandFrontStep ==
  ASSUME IInv, ExpandFront
  PROVE  IInv'
<1> USE BoundAssumption
<1> DEFINE h == Head(current_program)
<1>1. /\ status = "parsing" /\ current_program # <<>> /\ token # NoToken /\ h # token
      /\ UNCHANGED <<token, token_index, at_end, possible>>
  BY DEF ExpandFront, Looking
<1>2. /\ current_program \in Seq(Labels) /\ token \in Tokens /\ WellFormed(current_program)
      /\ token_index \in 0..MaxTokens /\ ~at_end /\ at_end \in BOOLEAN
      /\ token_index < MaxTokens /\ (token_index + 1 = MaxTokens => token = "END_OF_FILE")
      /\ LedBy({current_program}, token) = LedBy(possible, token)
  BY <1>1 DEF IInv, TypeOK, FollowsEveryDerivation
<1>3. h \in Labels /\ ~Ambiguous(h, token)
  BY <1>1, <1>2, Unambiguous
<1>4. CASE Expands(h, token)
  <2>1. current_program' = Chosen(h, token) \o Tail(current_program) /\ status' = "parsing"
    BY <1>1, <1>3, <1>4 DEF ExpandFront, Replace, Chosen
  <2>2. h \in Expandable
    <3>1. h \in Tokens => token \in {h}
      BY <1>4, StartersOfToken DEF Expands
    <3> QED  BY <1>1, <1>3, <3>1 DEF Labels
  <2>3. Fits(Chosen(h, token), h)
    BY <1>2, <1>4, <2>2, ChosenExpansion, ExpansionsFit
  <2>4. WellFormed(Chosen(h, token) \o Tail(current_program)) /\ current_program' \in Seq(Labels)
    BY <1>1, <1>2, <2>1, <2>3, FitsReplace
  <2>5. WellFormed(current_program)'
    BY <2>1, <2>4 DEF WellFormed
  <2>6. LedBy({current_program'}, token) = LedBy({current_program}, token)
    BY <1>1, <1>2, <1>4, <2>1, <2>2, ExpandKeepsDerivations
  <2>7. current_program' # <<>>
    <3>1. /\ Chosen(h, token) \in Seq(Labels) /\ Tail(current_program) \in Seq(Labels)
          /\ h \in Ends => Chosen(h, token) # <<>>
      BY <1>1, <1>2, <2>3 DEF Fits
    <3>2. h \notin Ends => Tail(current_program) # <<>>
      BY <1>1, <1>2, TailWellFormed
    <3> DEFINE c == Chosen(h, token)
               s == Tail(current_program)
    <3> HIDE DEF c, s, h
    <3>3. Len(c \o s) = Len(c) + Len(s) /\ Len(c) \in Nat /\ Len(s) \in Nat
      BY <3>1, ConcatProperties DEF c, s
    <3>4. Len(c) > 0 \/ Len(s) > 0
      BY <3>1, <3>2, <3>3, EmptySeq DEF c, s
    <3>5. Len(c \o s) # 0
      BY <3>3, <3>4
    <3> QED  BY <2>1, <3>5 DEF c, s
  <2>8. TypeOK'
    BY <1>1, <1>2, <2>1, <2>4 DEF TypeOK
  <2>9. (FollowsEveryDerivation /\ ErrorsAreReal /\ NeverAborts)'
    BY <1>1, <1>2, <2>1, <2>6 DEF FollowsEveryDerivation, ErrorsAreReal, NeverAborts
  <2> QED  BY <1>1, <1>2, <2>5, <2>7, <2>8, <2>9 DEF IInv
<1>5. CASE ~Expands(h, token)
  <2>1. status' = "failure" /\ UNCHANGED current_program
    BY <1>1, <1>3, <1>5 DEF ExpandFront
  <2>2. LedBy(possible, token) = {}
    BY <1>1, <1>2, <1>5, NoExpansionNoDerivation
  <2>3. TypeOK'
    BY <1>1, <1>2, <2>1 DEF TypeOK
  <2>4. (FollowsEveryDerivation /\ ErrorsAreReal /\ NeverAborts)'
    BY <1>1, <1>2, <2>1, <2>2 DEF FollowsEveryDerivation, ErrorsAreReal, NeverAborts
  <2>5. WellFormed(current_program)'
    BY <1>2, <2>1 DEF WellFormed
  <2> QED  BY <1>1, <1>2, <2>1, <2>3, <2>4, <2>5 DEF IInv
<1> QED  BY <1>4, <1>5

LEMMA FinishStep ==
  ASSUME IInv, Finish
  PROVE  IInv'
<1>1. /\ current_program = <<>> /\ at_end /\ status' = "success"
      /\ UNCHANGED <<current_program, token, token_index, at_end, possible>>
  BY DEF IInv, Finish
<1>2. token = NoToken /\ possible = {<<>>}
  BY <1>1 DEF IInv
<1>3. (FollowsEveryDerivation /\ ErrorsAreReal /\ NeverAborts)'
  BY <1>1, <1>2 DEF FollowsEveryDerivation, ErrorsAreReal, NeverAborts
<1> QED  BY <1>1, <1>2, <1>3 DEF IInv, TypeOK, WellFormed

LEMMA StepInvariant == IInv /\ [Next]_vars => IInv'
<1> SUFFICES ASSUME IInv, [Next]_vars PROVE IInv'
  OBVIOUS
<1>1. CASE Look
  BY <1>1, LookStep
<1>2. CASE Consume
  BY <1>2, ConsumeStep
<1>3. CASE ExpandFront
  BY <1>3, ExpandFrontStep
<1>4. CASE Finish
  BY <1>4, FinishStep
<1>5. CASE UNCHANGED vars
  BY <1>5 DEF vars, IInv, TypeOK, WellFormed, FollowsEveryDerivation, ErrorsAreReal,
              NeverAborts
<1> QED  BY <1>1, <1>2, <1>3, <1>4, <1>5 DEF Next

LEMMA Invariant == Spec => []IInv
<1>1. Init => IInv
  BY InitInvariant
<1>2. IInv /\ [Next]_vars => IInv'
  BY StepInvariant
<1> QED  BY <1>1, <1>2, PTL DEF Spec

-----------------------------------------------------------------------------
(* The theorems. *)

(* The state of ParseTokens has its types: what is left to be found is a list *)
(* of grammar pieces, and the index stays within the tokens.                *)
THEOREM TypesRight == Spec => []TypeOK
<1>1. IInv => TypeOK
  BY DEF IInv
<1> QED  BY <1>1, Invariant, PTL

(* One token is enough to decide, for token lists of every length: the one  *)
(* derivation that Expand chooses contains every way the grammar has to go  *)
(* on with the token.                                                       *)
THEOREM OneTokenDecides == Spec => []FollowsEveryDerivation
<1>1. IInv => FollowsEveryDerivation
  BY DEF IInv
<1> QED  BY <1>1, Invariant, PTL

(* ParseTokens reports an error exactly where no program of the grammar goes *)
(* on, and success only when MODULE derives the tokens.                     *)
THEOREM ErrorsRight == Spec => []ErrorsAreReal
<1>1. IInv => ErrorsAreReal
  BY DEF IInv
<1> QED  BY <1>1, Invariant, PTL

(* Expand never meets two expansions that start with the token, no token is *)
(* left when the program is used up, and tokens.at stays within the list.   *)
THEOREM AssertionsHold == Spec => []NeverAborts
<1>1. IInv => NeverAborts
  BY DEF IInv
<1> QED  BY <1>1, Invariant, PTL
=============================================================================
