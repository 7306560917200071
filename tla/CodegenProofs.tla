----------------------------- MODULE CodegenProofs -----------------------------
(***************************************************************************)
(* What Codegen's runs check of its invariants, and that the contexts are  *)
(* lexical scopes, proved for any programs, names and expressions and any  *)
(* depth of blocks.                                                        *)
(*                                                                         *)
(* The contexts of the evaluators and the scopes of the C++ compiler are    *)
(* two stacks that go up and down together.  The invariant relates them     *)
(* level by level: the local variables of a context are those declared in   *)
(* the scopes up to its own, so what the evaluators accept is what C++      *)
(* finds.                                                                   *)
(***************************************************************************)
EXTENDS Codegen, NumberFacts, TLAPS

Scope == [vars : SUBSET Vars, loop : BOOLEAN]

(* The two stacks, with the context that goes from function to function *)
(* below the others.                                                      *)
Stacks ==
  /\ contexts \in Seq(Context)
  /\ scopes \in Seq(Scope)
  /\ Len(contexts) \in 1..(MaxDepth + 1)
  /\ Len(scopes) = Len(contexts) - 1

Base ==
  /\ contexts[1].globals = {} /\ contexts[1].in_loop = FALSE
  /\ Len(contexts) = 1 => contexts[1].locals = {}

(* A context's local variables are those declared in the scopes so far. *)
SameLocals ==
  \A i \in 1..Len(scopes) : \A x \in Vars :
    x \in contexts[i + 1].locals <=> \E k \in 1..i : x \in scopes[k].vars

SameLoops ==
  \A i \in 1..Len(scopes) : contexts[i + 1].in_loop => \E k \in 1..i : scopes[k].loop

(* No name means two things in a context, and its globals will be defined. *)
Disjoint == \A i \in 1..Len(contexts) : contexts[i].locals \cap contexts[i].globals = {}

GlobalsKnown ==
  /\ \A i \in 1..Len(contexts) : contexts[i].globals \subseteq all_global_variables
  /\ used \subseteq all_global_variables

(* What a call may name has been declared. *)
CallsKnown ==
  /\ functions \in Programs
  /\ fn_index \in 0..(Len(functions) + 1)
  /\ main_args \in 0..1
  /\ fn_index > 0 => /\ Dictionary \cup Builtins \subseteq declared
                     /\ <<Main, main_args>> \in Dictionary
  /\ Len(contexts) > 1 => fn_index \in DOMAIN functions

Flags ==
  /\ all_global_variables \subseteq Vars
  /\ chain \in BOOLEAN
  /\ status \in {"running", "success", "failure"}
  /\ CppFollowsRules

IInv ==
  /\ Stacks /\ Base /\ SameLocals /\ SameLoops /\ NoShadowing
  /\ Disjoint /\ GlobalsKnown /\ CallsKnown /\ Flags

-----------------------------------------------------------------------------
(* The innermost context and the scopes *)

(* Inside a function the stacks have at least one block each. *)
LEMMA Depth ==
  ASSUME IInv, InFunction
  PROVE  /\ Len(scopes) \in Nat \ {0}
         /\ Len(contexts) = Len(scopes) + 1
         /\ Len(scopes) <= MaxDepth
         /\ Top = contexts[Len(scopes) + 1] /\ Top \in Context
         /\ fn_index \in 1..Len(functions) /\ fn_index > 0
<1>1. /\ Len(scopes) \in Nat /\ Len(contexts) \in Nat
      /\ Len(contexts) = Len(scopes) + 1 /\ Len(contexts) > 1
      /\ Len(contexts) <= MaxDepth + 1
  BY DepthAssumption DEF IInv, Stacks, InFunction
<1>2. Top = contexts[Len(scopes) + 1] /\ Top \in Context
  <2>1. Len(contexts) \in DOMAIN contexts
    BY <1>1 DEF IInv, Stacks
  <2> QED  BY <1>1, <2>1 DEF IInv, Stacks, Top
<1>3. fn_index \in 1..Len(functions)
  BY <1>1, ProgramsAssumption DEF IInv, CallsKnown
<1>4. fn_index > 0
  <2>1. Len(functions) \in Nat
    BY ProgramsAssumption DEF IInv, CallsKnown
  <2> QED  BY <1>3, <2>1
<1> QED  BY <1>1, <1>2, <1>3, <1>4, DepthAssumption

(* What an evaluator resolves in the innermost context is an expression C++ *)
(* accepts in the scopes it has open (RValueEvaluator::GetCode).            *)
LEMMA CodeIsRight ==
  ASSUME IInv, InFunction, NEW code,
         code.locals \subseteq Top.locals, code.globals \subseteq Top.globals,
         code.calls \subseteq Dictionary \cup Builtins
  PROVE  /\ ExpressionErrors(code) = {}
         /\ code.globals \subseteq all_global_variables
<1>1. Top.locals \subseteq InScope
  <2> SUFFICES ASSUME NEW x \in Top.locals PROVE x \in InScope
    OBVIOUS
  <2>1. /\ Len(scopes) \in 1..Len(scopes) /\ x \in Vars
        /\ x \in contexts[Len(scopes) + 1].locals
    BY Depth DEF Context
  <2>2. PICK k \in 1..Len(scopes) : x \in scopes[k].vars
    BY <2>1 DEF IInv, SameLocals
  <2>3. k \in DOMAIN scopes
    BY <2>2 DEF IInv, Stacks
  <2> QED  BY <2>2, <2>3 DEF InScope
<1>2. code.calls \subseteq declared
  BY Depth DEF IInv, CallsKnown
<1>3. Top.globals \subseteq all_global_variables
  <2>1. Len(scopes) + 1 \in 1..Len(contexts)
    BY Depth
  <2> QED  BY <2>1, Depth DEF IInv, GlobalsKnown
<1> QED  BY <1>1, <1>2, <1>3 DEF ExpressionErrors, Broken

LEMMA ResolvedIsRight ==
  ASSUME IInv, InFunction, NEW rv, Resolves(rv)
  PROVE  /\ ExpressionErrors(GetCode(rv)) = {}
         /\ GetCode(rv).globals \subseteq all_global_variables
<1>1. /\ GetCode(rv).locals \subseteq Top.locals
      /\ GetCode(rv).globals \subseteq Top.globals
      /\ GetCode(rv).calls \subseteq Dictionary \cup Builtins
  BY DEF GetCode, Resolves
<1> QED  BY <1>1, CodeIsRight

(* Writing back the innermost context as it is changes nothing. *)
LEMMA ChangedTop ==
  ASSUME IInv, InFunction, Changed(Top)
  PROVE  contexts' = contexts /\ chain' = FALSE
BY Depth DEF Changed, IInv, Stacks, Top

-----------------------------------------------------------------------------
(* Statements that leave the blocks as they are *)

LEMMA StopKeeps ==
  ASSUME IInv, NEW stmt, Stop(stmt, "failure"), UNCHANGED <<fn_index, main_args>>
  PROVE  IInv'
<1>1. UNCHANGED <<functions, contexts, all_global_variables, chain, scopes, declared,
                  used, cpp_errors, fn_index, main_args>>
      /\ status' = "failure"
  BY DEF Stop, cpp
<1>2. Stacks' /\ Base' /\ SameLocals' /\ SameLoops' /\ NoShadowing' /\ Disjoint' /\ GlobalsKnown'
  BY <1>1 DEF IInv, Stacks, Base, SameLocals, SameLoops, NoShadowing, Disjoint, GlobalsKnown
<1>3. CallsKnown' /\ Flags'
  BY <1>1 DEF IInv, CallsKnown, Dictionary, Flags, CppFollowsRules
<1> QED  BY <1>2, <1>3 DEF IInv

(* An expression is emitted. *)
LEMMA EmitKeeps ==
  ASSUME IInv, InFunction, NEW code,
         code.locals \subseteq Top.locals, code.globals \subseteq Top.globals,
         code.calls \subseteq Dictionary \cup Builtins,
         CppExpression(code), Changed(Top),
         UNCHANGED <<functions, status, all_global_variables, fn_index, main_args>>
  PROVE  IInv'
<1>1. /\ UNCHANGED <<functions, status, all_global_variables, fn_index, main_args,
                     contexts, scopes, declared>>
      /\ chain' = FALSE /\ cpp_errors' = cpp_errors
      /\ used' = used \cup code.globals
  BY ChangedTop, CodeIsRight DEF CppExpression
<1>2. Stacks' /\ Base' /\ SameLocals' /\ SameLoops' /\ NoShadowing' /\ Disjoint'
  BY <1>1 DEF IInv, Stacks, Base, SameLocals, SameLoops, NoShadowing, Disjoint
<1>3. GlobalsKnown'
  BY <1>1, CodeIsRight DEF IInv, GlobalsKnown
<1>4. CallsKnown' /\ Flags'
  BY <1>1 DEF IInv, CallsKnown, Dictionary, Flags, CppFollowsRules
<1> QED  BY <1>2, <1>3, <1>4 DEF IInv

LEMMA ExpressionKeeps ==
  ASSUME IInv, NEW rv, Expression(rv), UNCHANGED <<fn_index, main_args>>
  PROVE  IInv'
<1>1. CASE ~Resolves(rv)
  BY <1>1, StopKeeps DEF Expression
<1>2. CASE Resolves(rv)
  <2>1. /\ GetCode(rv).locals \subseteq Top.locals
        /\ GetCode(rv).globals \subseteq Top.globals
        /\ GetCode(rv).calls \subseteq Dictionary \cup Builtins
    BY <1>2 DEF GetCode, Resolves
  <2>2. /\ InFunction /\ CppExpression(GetCode(rv)) /\ Changed(Top)
        /\ UNCHANGED <<functions, status, all_global_variables, fn_index, main_args>>
    BY <1>2 DEF Expression, Did
  <2> QED  BY <2>1, <2>2, EmitKeeps
<1> QED  BY <1>1, <1>2

(* BREAK: in a context that is in a loop, some scope is a loop's. *)
LEMMA BreakKeeps ==
  ASSUME IInv, Break, UNCHANGED <<fn_index, main_args>>
  PROVE  IInv'
<1>1. CASE ~Top.in_loop
  BY <1>1, StopKeeps DEF Break
<1>2. CASE Top.in_loop
  <2>1. InFunction /\ CppBreak /\ Changed(Top)
        /\ UNCHANGED <<functions, status, all_global_variables>>
    BY <1>2 DEF Break, Did
  <2>2. Len(scopes) \in 1..Len(scopes) /\ contexts[Len(scopes) + 1].in_loop
    BY <1>2, <2>1, Depth
  <2>3. PICK k \in 1..Len(scopes) : scopes[k].loop
    BY <2>2 DEF IInv, SameLoops
  <2>4. k \in DOMAIN scopes
    BY <2>3 DEF IInv, Stacks
  <2>5. /\ UNCHANGED <<functions, status, all_global_variables, fn_index, main_args,
                       contexts, scopes, declared, used>>
        /\ chain' = FALSE /\ cpp_errors' = cpp_errors
    BY <2>1, <2>3, <2>4, ChangedTop DEF CppBreak, Broken
  <2>6. Stacks' /\ Base' /\ SameLocals' /\ SameLoops' /\ NoShadowing' /\ Disjoint' /\ GlobalsKnown'
    BY <2>5 DEF IInv, Stacks, Base, SameLocals, SameLoops, NoShadowing, Disjoint, GlobalsKnown
  <2>7. CallsKnown' /\ Flags'
    BY <2>5 DEF IInv, CallsKnown, Dictionary, Flags, CppFollowsRules
  <2> QED  BY <2>6, <2>7 DEF IInv
<1> QED  BY <1>1, <1>2

-----------------------------------------------------------------------------
(* Statements that bind a name *)

(* The innermost context with context in its place. *)
LEMMA ContextsAfter ==
  ASSUME IInv, InFunction, NEW context \in Context, Changed(context)
  PROVE  /\ contexts' \in Seq(Context) /\ Len(contexts') = Len(contexts)
         /\ contexts'[Len(scopes) + 1] = context
         /\ \A i \in 1..Len(scopes) : contexts'[i] = contexts[i]
         /\ chain' = FALSE
<1>1. /\ contexts \in Seq(Context) /\ Len(contexts) \in Nat
      /\ Len(scopes) \in Nat \ {0} /\ Len(contexts) = Len(scopes) + 1
      /\ contexts' = [contexts EXCEPT ![Len(contexts)] = context]
      /\ chain' = FALSE
  BY Depth DEF IInv, Stacks, Changed
<1> QED  BY <1>1

LEMMA GlobalKeeps ==
  ASSUME IInv, NEW x \in Vars, Global(x), UNCHANGED <<fn_index, main_args>>
  PROVE  IInv'
<1>1. CASE x \in Top.locals
  BY <1>1, StopKeeps DEF Global
<1>2. CASE x \notin Top.locals
  <2> DEFINE context == [Top EXCEPT !.globals = @ \cup {x}]
             n == Len(scopes)
  <2>1. /\ InFunction /\ Changed(context)
        /\ all_global_variables' = all_global_variables \cup {x}
        /\ UNCHANGED <<functions, status, scopes, declared, used, cpp_errors, fn_index, main_args>>
    BY <1>2 DEF Global, Did, cpp
  <2>2. /\ n \in Nat \ {0} /\ Len(contexts) = n + 1 /\ n <= MaxDepth
        /\ Top = contexts[n + 1] /\ Top \in Context
    BY <2>1, Depth
  <2>3. /\ context \in Context
        /\ context.locals = Top.locals /\ context.in_loop = Top.in_loop
        /\ context.globals = Top.globals \cup {x}
    BY <2>2 DEF Context
  <2>4. /\ contexts' \in Seq(Context) /\ Len(contexts') = n + 1
        /\ contexts'[n + 1] = context
        /\ \A i \in 1..n : contexts'[i] = contexts[i]
        /\ chain' = FALSE
    BY <2>1, <2>2, <2>3, ContextsAfter
  <2> HIDE DEF context
  <2>5. \A i \in 1..(n + 1) : /\ contexts'[i].locals = contexts[i].locals
                              /\ contexts'[i].in_loop = contexts[i].in_loop
                              /\ contexts'[i].globals = IF i = n + 1 THEN contexts[i].globals \cup {x}
                                                         ELSE contexts[i].globals
    <3> TAKE i \in 1..(n + 1)
    <3>1. CASE i = n + 1
      BY <2>2, <2>3, <2>4, <3>1
    <3>2. CASE i # n + 1
      <4>1. i \in 1..n
        BY <2>2, <3>2
      <4> QED  BY <2>4, <3>2, <4>1
    <3> QED  BY <3>1, <3>2
  <2>6. Stacks' /\ NoShadowing'
    BY <2>1, <2>2, <2>4 DEF IInv, Stacks, NoShadowing
  <2>7. Base'
    BY <2>2, <2>4 DEF IInv, Base
  <2>8. SameLocals' /\ SameLoops'
    <3>1. n' = n /\ \A i \in 1..n : i + 1 \in 1..(n + 1)
      BY <2>1, <2>2
    <3> QED  BY <2>1, <2>5, <3>1 DEF IInv, SameLocals, SameLoops
  <2>9. Disjoint'
    BY <1>2, <2>2, <2>4, <2>5 DEF IInv, Disjoint
  <2>10. GlobalsKnown'
    BY <2>1, <2>2, <2>4, <2>5 DEF IInv, GlobalsKnown
  <2>11. CallsKnown'
    <3>1. Len(contexts') = Len(contexts)
      BY <2>2, <2>4
    <3> QED  BY <2>1, <3>1 DEF IInv, CallsKnown, Dictionary
  <2>12. Flags'
    BY <2>1, <2>4 DEF IInv, Flags, CppFollowsRules
  <2> QED  BY <2>6, <2>7, <2>8, <2>9, <2>10, <2>11, <2>12 DEF IInv
<1> QED  BY <1>1, <1>2

(* The scopes with scope in place of the innermost. *)
LEMMA ScopesAfter ==
  ASSUME IInv, InFunction, NEW scope \in Scope,
         scopes' = [scopes EXCEPT ![Len(scopes)] = scope]
  PROVE  /\ scopes' \in Seq(Scope) /\ Len(scopes') = Len(scopes)
         /\ scopes'[Len(scopes)] = scope
         /\ \A k \in 1..Len(scopes) : k # Len(scopes) => scopes'[k] = scopes[k]
<1>1. scopes \in Seq(Scope) /\ Len(scopes) \in 1..Len(scopes)
  BY Depth DEF IInv, Stacks
<1> QED  BY <1>1

(* The scopes with one more variable in the innermost. *)
LEMMA VariableAfter ==
  ASSUME IInv, InFunction, NEW x \in Vars,
         scopes' = [scopes EXCEPT ![Len(scopes)].vars = @ \cup {x}]
  PROVE  /\ scopes' \in Seq(Scope) /\ Len(scopes') = Len(scopes)
         /\ \A k \in 1..Len(scopes) :
              /\ scopes'[k].loop = scopes[k].loop
              /\ scopes'[k].vars = IF k = Len(scopes) THEN scopes[k].vars \cup {x}
                                   ELSE scopes[k].vars
<1> DEFINE n == Len(scopes)
           scope == [scopes[n] EXCEPT !.vars = @ \cup {x}]
<1>1. scopes \in Seq(Scope) /\ n \in 1..n /\ scopes[n] \in Scope
  BY Depth DEF IInv, Stacks
<1>2. /\ scope \in Scope /\ scope.loop = scopes[n].loop
      /\ scope.vars = scopes[n].vars \cup {x}
  BY <1>1 DEF Scope
<1>3. scopes' = [scopes EXCEPT ![n] = scope]
  OBVIOUS
<1> HIDE DEF scope, n
<1>4. /\ scopes' \in Seq(Scope) /\ Len(scopes') = n
      /\ scopes'[n] = scope
      /\ \A k \in 1..n : k # n => scopes'[k] = scopes[k]
  BY <1>2, <1>3, ScopesAfter DEF n
<1>5. ASSUME NEW k \in 1..n
      PROVE  /\ scopes'[k].loop = scopes[k].loop
             /\ scopes'[k].vars = IF k = n THEN scopes[k].vars \cup {x} ELSE scopes[k].vars
  <2>1. CASE k = n
    BY <1>2, <1>4, <2>1
  <2>2. CASE k # n
    BY <1>4, <2>2
  <2> QED  BY <2>1, <2>2
<1> QED  BY <1>4, <1>5 DEF n

(* The first assignment to x declares it, in the innermost scope and        *)
(* context: no scope has it yet, as the context would know it.              *)
LEMMA DeclareKeeps ==
  ASSUME IInv, InFunction, NEW x \in Vars, NEW rv, Resolves(rv),
         x \notin Top.locals, x \notin Top.globals,
         CppDeclare(x, GetCode(rv)),
         Changed([Top EXCEPT !.locals = @ \cup {x}]),
         UNCHANGED <<functions, status, all_global_variables, fn_index, main_args>>
  PROVE  IInv'
<1> DEFINE context == [Top EXCEPT !.locals = @ \cup {x}]
           n == Len(scopes)
<1>1. /\ n \in Nat \ {0} /\ Len(contexts) = n + 1 /\ n <= MaxDepth
      /\ Top = contexts[n + 1] /\ Top \in Context
  BY Depth
<1>2. /\ context \in Context
      /\ context.globals = Top.globals /\ context.in_loop = Top.in_loop
      /\ context.locals = Top.locals \cup {x}
  BY <1>1 DEF Context
<1>3. /\ contexts' \in Seq(Context) /\ Len(contexts') = n + 1
      /\ contexts'[n + 1] = context
      /\ \A i \in 1..n : contexts'[i] = contexts[i]
      /\ chain' = FALSE
  BY <1>1, <1>2, ContextsAfter
<1> HIDE DEF context
<1>4. \A i \in 1..(n + 1) : /\ contexts'[i].globals = contexts[i].globals
                            /\ contexts'[i].in_loop = contexts[i].in_loop
                            /\ contexts'[i].locals = IF i = n + 1 THEN contexts[i].locals \cup {x}
                                                      ELSE contexts[i].locals
  <2> TAKE i \in 1..(n + 1)
  <2>1. CASE i = n + 1
    BY <1>1, <1>2, <1>3, <2>1
  <2>2. CASE i # n + 1
    <3>1. i \in 1..n
      BY <1>1, <2>2
    <3> QED  BY <1>3, <2>2, <3>1
  <2> QED  BY <2>1, <2>2
<1>5. /\ scopes \in Seq(Scope)
      /\ scopes' = [scopes EXCEPT ![n].vars = @ \cup {x}]
      /\ used' = used \cup GetCode(rv).globals /\ declared' = declared
  BY Zenon DEF IInv, Stacks, CppDeclare
<1>6. /\ scopes' \in Seq(Scope) /\ Len(scopes') = n
      /\ \A k \in 1..n : /\ scopes'[k].loop = scopes[k].loop
                         /\ scopes'[k].vars = IF k = n THEN scopes[k].vars \cup {x}
                                               ELSE scopes[k].vars
  BY <1>5, VariableAfter
<1>7. \A k \in 1..n : x \notin scopes[k].vars
  <2>1. n \in 1..n /\ x \notin contexts[n + 1].locals
    BY <1>1
  <2> QED  BY <2>1 DEF IInv, SameLocals
<1>8. Stacks'
  BY <1>1, <1>3, <1>6 DEF IInv, Stacks
<1>9. Base'
  BY <1>1, <1>3 DEF IInv, Base
<1>10. SameLocals'
  <2> SUFFICES ASSUME NEW i \in 1..n, NEW y \in Vars
               PROVE  y \in contexts'[i + 1].locals <=> \E k \in 1..i : y \in scopes'[k].vars
    BY <1>6 DEF SameLocals
  <2>1. y \in contexts[i + 1].locals <=> \E k \in 1..i : y \in scopes[k].vars
    BY DEF IInv, SameLocals
  <2>2. i + 1 \in 1..(n + 1) /\ 1..i \subseteq 1..n /\ (i + 1 = n + 1 <=> i = n)
    BY <1>1
  <2>3. CASE i = n
    <3>1. contexts'[i + 1].locals = contexts[i + 1].locals \cup {x}
      BY <1>4, <2>2, <2>3
    <3>2. i \in 1..i /\ scopes'[i].vars = scopes[i].vars \cup {x}
      BY <1>1, <1>6, <2>3
    <3>3. \A k \in 1..i : scopes'[k].vars = IF k = i THEN scopes[k].vars \cup {x} ELSE scopes[k].vars
      BY <1>6, <2>3
    <3> QED  BY <2>1, <3>1, <3>2, <3>3
  <2>4. CASE i # n
    <3>1. contexts'[i + 1].locals = contexts[i + 1].locals
      BY <1>4, <2>2, <2>4
    <3>2. \A k \in 1..i : k \in 1..n /\ k # n
      BY <1>1, <2>4
    <3>3. \A k \in 1..i : scopes'[k].vars = scopes[k].vars
      BY <1>6, <3>2
    <3> QED  BY <2>1, <3>1, <3>3
  <2> QED  BY <2>3, <2>4
<1>11. SameLoops'
  <2> SUFFICES ASSUME NEW i \in 1..n, contexts'[i + 1].in_loop
               PROVE  \E k \in 1..i : scopes'[k].loop
    BY <1>6 DEF SameLoops
  <2>1. i + 1 \in 1..(n + 1) /\ 1..i \subseteq 1..n
    BY <1>1
  <2>2. contexts[i + 1].in_loop
    BY <1>4, <2>1
  <2> QED  BY <1>6, <2>1, <2>2 DEF IInv, SameLoops
<1>12. NoShadowing'
  <2>1. DOMAIN scopes = 1..n /\ DOMAIN scopes' = 1..n
    BY <1>1, <1>5, <1>6
  <2> SUFFICES ASSUME NEW i \in 1..n, NEW j \in 1..n, i # j,
                      NEW y \in scopes'[i].vars, y \in scopes'[j].vars
               PROVE  FALSE
    BY <2>1 DEF NoShadowing
  <2>2. scopes[i].vars \cap scopes[j].vars = {}
    BY <2>1 DEF IInv, NoShadowing
  <2>3. y = x \/ y \in scopes[i].vars
    BY <1>6
  <2>4. y = x \/ y \in scopes[j].vars
    BY <1>6
  <2>5. y = x
    BY <2>2, <2>3, <2>4
  <2>6. x \in scopes'[i].vars /\ x \in scopes'[j].vars
    BY <2>5
  <2> QED  BY <1>6, <1>7, <2>6
<1>13. Disjoint'
  <2>1. \A i \in 1..(n + 1) : contexts[i].locals \cap contexts[i].globals = {}
    BY <1>1 DEF IInv, Disjoint
  <2>2. x \notin contexts[n + 1].globals
    BY <1>1
  <2> QED  BY <1>3, <1>4, <2>1, <2>2 DEF Disjoint
<1>14. GlobalsKnown'
  <2>1. GetCode(rv).globals \subseteq all_global_variables
    BY ResolvedIsRight
  <2> QED  BY <1>1, <1>3, <1>4, <1>5, <2>1 DEF IInv, GlobalsKnown
<1>15. CallsKnown'
  <2>1. Len(contexts') = Len(contexts)
    BY <1>1, <1>3
  <2> QED  BY <1>5, <2>1 DEF IInv, CallsKnown, Dictionary
<1>16. Flags'
  <2>1. x \notin scopes[n].vars /\ x \notin GetCode(rv).locals
    BY <1>1, <1>7 DEF GetCode
  <2>2. cpp_errors' = cpp_errors
    BY <2>1, ResolvedIsRight DEF CppDeclare, Broken
  <2> QED  BY <1>3, <2>2 DEF IInv, Flags, CppFollowsRules
<1> QED  BY <1>8, <1>9, <1>10, <1>11, <1>12, <1>13, <1>14, <1>15, <1>16 DEF IInv

(* VariableAssignmentEvaluator: its assertion never fails, as no name is    *)
(* both a local and a global variable.                                      *)
LEMMA AssignKeeps ==
  ASSUME IInv, NEW x \in Vars, NEW rv, Assign(x, rv), UNCHANGED <<fn_index, main_args>>
  PROVE  IInv'
<1> DEFINE code == GetCode(rv)
           global == [code EXCEPT !.globals = @ \cup {x}]
           local  == [code EXCEPT !.locals = @ \cup {x}]
<1>1. InFunction
  BY DEF Assign
<1>2. CASE ~Resolves(rv)
  BY <1>2, StopKeeps DEF Assign
<1>3. ASSUME Resolves(rv)
      PROVE  /\ code.locals \subseteq Top.locals
             /\ code.globals \subseteq Top.globals
             /\ code.calls \subseteq Dictionary \cup Builtins
  BY <1>3 DEF GetCode, Resolves
<1>4. CASE Resolves(rv) /\ x \in Top.globals
  <2>1. x \notin Top.locals
    <3>1. Len(scopes) + 1 \in 1..Len(contexts)
      BY <1>1, Depth
    <3>2. Top.locals \cap Top.globals = {}
      BY <1>1, <3>1, Depth DEF IInv, Disjoint
    <3> QED  BY <1>4, <3>2
  <2>2. /\ CppExpression(global) /\ Changed(Top)
        /\ UNCHANGED <<functions, status, all_global_variables>>
    BY <1>4, <2>1, Zenon DEF Assign, CppAssignGlobal, Did
  <2>3. /\ global.locals = code.locals /\ global.globals = code.globals \cup {x}
        /\ global.calls = code.calls
    BY DEF GetCode
  <2>4. /\ global.locals \subseteq Top.locals /\ global.globals \subseteq Top.globals
        /\ global.calls \subseteq Dictionary \cup Builtins
    BY <1>3, <1>4, <2>3
  <2> HIDE DEF global
  <2> QED  BY <1>1, <2>2, <2>4, EmitKeeps
<1>5. CASE Resolves(rv) /\ x \notin Top.globals /\ x \in Top.locals
  <2>1. /\ CppExpression(local) /\ Changed(Top)
        /\ UNCHANGED <<functions, status, all_global_variables>>
    BY <1>5, Zenon DEF Assign, CppAssignLocal, Did
  <2>2. /\ local.globals = code.globals /\ local.locals = code.locals \cup {x}
        /\ local.calls = code.calls
    BY DEF GetCode
  <2>3. /\ local.locals \subseteq Top.locals /\ local.globals \subseteq Top.globals
        /\ local.calls \subseteq Dictionary \cup Builtins
    BY <1>3, <1>5, <2>2
  <2> HIDE DEF local
  <2> QED  BY <1>1, <2>1, <2>3, EmitKeeps
<1>6. CASE Resolves(rv) /\ x \notin Top.globals /\ x \notin Top.locals
  <2>1. /\ CppDeclare(x, GetCode(rv)) /\ Changed([Top EXCEPT !.locals = @ \cup {x}])
        /\ UNCHANGED <<functions, status, all_global_variables>>
    BY <1>6, Zenon DEF Assign, Did
  <2> QED  BY <1>1, <1>6, <2>1, DeclareKeeps
<1> QED  BY <1>2, <1>4, <1>5, <1>6

-----------------------------------------------------------------------------
(* Blocks *)

(* A block opens: its context starts with the variables of the one around   *)
(* it, its scope with none.                                                 *)
LEMMA OpenKeeps ==
  ASSUME IInv, NEW by \in {"while", "if", "elif", "else"}, NEW rv, Open(by, rv),
         UNCHANGED <<fn_index, main_args>>
  PROVE  IInv'
<1>1. CASE ~Resolves(rv)
  BY <1>1, StopKeeps DEF Open
<1>2. CASE Resolves(rv)
  <2> DEFINE n == Len(scopes)
             context == Inside(by)
             scope == [vars |-> {}, loop |-> by = "while"]
  <2>1. /\ InFunction /\ Len(contexts) <= MaxDepth
        /\ contexts' = Append(contexts, context) /\ scopes' = Append(scopes, scope)
        /\ cpp_errors' = cpp_errors \cup ExpressionErrors(GetCode(rv))
        /\ used' = used \cup GetCode(rv).globals
        /\ chain' = FALSE
        /\ UNCHANGED <<functions, status, all_global_variables, declared, fn_index, main_args>>
    BY <1>2 DEF Open, CppOpen, Did
  <2>2. /\ n \in Nat \ {0} /\ Len(contexts) = n + 1 /\ n + 1 <= MaxDepth
        /\ Top = contexts[n + 1] /\ Top \in Context
        /\ contexts \in Seq(Context) /\ scopes \in Seq(Scope)
    BY <2>1, Depth DEF IInv, Stacks
  <2>3. /\ context \in Context /\ context.locals = Top.locals
        /\ context.globals = Top.globals
        /\ context.in_loop => Top.in_loop \/ by = "while"
    <3>1. Kind(by) \in {"plain", "loop", "branch"}
      BY DEF Kind
    <3> QED  BY <2>2, <3>1 DEF Inside, Context
  <2>4. scope \in Scope /\ scope.vars = {} /\ scope.loop = (by = "while")
    BY DEF Scope
  <2> HIDE DEF context, scope
  <2>5. /\ contexts' \in Seq(Context) /\ Len(contexts') = n + 2
        /\ contexts'[n + 2] = context
        /\ \A i \in 1..(n + 1) : contexts'[i] = contexts[i]
    BY <2>1, <2>2, <2>3
  <2>6. /\ scopes' \in Seq(Scope) /\ Len(scopes') = n + 1
        /\ scopes'[n + 1] = scope
        /\ \A k \in 1..n : scopes'[k] = scopes[k]
    BY <2>1, <2>2, <2>4
  <2>7. Stacks'
    BY <2>2, <2>5, <2>6, DepthAssumption DEF Stacks
  <2>8. Base'
    BY <2>2, <2>5 DEF IInv, Base
  <2>9. SameLocals'
    <3> SUFFICES ASSUME NEW i \in 1..(n + 1), NEW y \in Vars
                 PROVE  y \in contexts'[i + 1].locals <=> \E k \in 1..i : y \in scopes'[k].vars
      BY <2>6 DEF SameLocals
    <3>1. CASE i = n + 1
      <4>1. y \in contexts[n + 1].locals <=> \E k \in 1..n : y \in scopes[k].vars
        BY <2>2 DEF IInv, SameLocals
      <4>2. contexts'[i + 1].locals = contexts[n + 1].locals
        BY <2>2, <2>3, <2>5, <3>1
      <4>3. 1..i = 1..n \cup {n + 1}
        BY <2>2, <3>1
      <4>4. y \notin scopes'[n + 1].vars /\ \A k \in 1..n : scopes'[k] = scopes[k]
        BY <2>4, <2>6
      <4> QED  BY <4>1, <4>2, <4>3, <4>4
    <3>2. CASE i # n + 1
      <4>1. i \in 1..n /\ i + 1 \in 1..(n + 1) /\ 1..i \subseteq 1..n
        BY <2>2, <3>2
      <4>2. y \in contexts[i + 1].locals <=> \E k \in 1..i : y \in scopes[k].vars
        BY <4>1 DEF IInv, SameLocals
      <4> QED  BY <2>5, <2>6, <4>1, <4>2
    <3> QED  BY <3>1, <3>2
  <2>10. SameLoops'
    <3> SUFFICES ASSUME NEW i \in 1..(n + 1), contexts'[i + 1].in_loop
                 PROVE  \E k \in 1..i : scopes'[k].loop
      BY <2>6 DEF SameLoops
    <3>1. CASE i = n + 1 /\ by = "while"
      <4>1. i \in 1..i /\ scopes'[i].loop
        BY <2>2, <2>4, <2>6, <3>1
      <4> QED  BY <4>1
    <3>2. CASE i = n + 1 /\ by # "while"
      <4>1. contexts[n + 1].in_loop
        BY <2>2, <2>3, <2>5, <3>2
      <4>2. n \in 1..n
        BY <2>2
      <4>3. PICK k \in 1..n : scopes[k].loop
        BY <4>1, <4>2 DEF IInv, SameLoops
      <4>4. k \in 1..i /\ scopes'[k].loop
        BY <2>2, <2>6, <3>2, <4>3
      <4> QED  BY <4>4
    <3>3. CASE i # n + 1
      <4>1. i \in 1..n /\ i + 1 \in 1..(n + 1) /\ 1..i \subseteq 1..n
        BY <2>2, <3>3
      <4>2. PICK k \in 1..i : scopes[k].loop
        BY <2>5, <4>1 DEF IInv, SameLoops
      <4> QED  BY <2>6, <4>1, <4>2
    <3> QED  BY <3>1, <3>2, <3>3
  <2>11. NoShadowing'
    <3>1. DOMAIN scopes = 1..n /\ DOMAIN scopes' = 1..n \cup {n + 1}
      BY <2>2, <2>6
    <3>2. scopes'[n + 1].vars = {}
      BY <2>4, <2>6
    <3> QED  BY <2>6, <3>1, <3>2 DEF IInv, NoShadowing
  <2>12. Disjoint' /\ GlobalsKnown'
    <3>1. 1..Len(contexts') = 1..(n + 1) \cup {n + 2} /\ n + 1 \in 1..(n + 1)
      BY <2>2, <2>5
    <3>2. contexts'[n + 2].locals = contexts[n + 1].locals
          /\ contexts'[n + 2].globals = contexts[n + 1].globals
      BY <2>2, <2>3, <2>5
    <3>3. GetCode(rv).globals \subseteq all_global_variables
      BY <1>2, <2>1, ResolvedIsRight
    <3>4. Disjoint'
      BY <2>2, <2>5, <3>1, <3>2 DEF IInv, Disjoint
    <3>5. GlobalsKnown'
      BY <2>1, <2>2, <2>5, <3>1, <3>2, <3>3 DEF IInv, GlobalsKnown
    <3> QED  BY <3>4, <3>5
  <2>13. CallsKnown'
    <3>1. fn_index \in DOMAIN functions
      BY <2>2 DEF IInv, CallsKnown
    <3> QED  BY <2>1, <3>1 DEF IInv, CallsKnown, Dictionary
  <2>14. Flags'
    <3>1. cpp_errors' = cpp_errors
      BY <1>2, <2>1, ResolvedIsRight
    <3> QED  BY <2>1, <3>1 DEF IInv, Flags, CppFollowsRules
  <2> QED  BY <2>7, <2>8, <2>9, <2>10, <2>11, <2>12, <2>13, <2>14 DEF IInv
<1> QED  BY <1>1, <1>2

(* A block inside a function closes: both stacks lose their innermost part. *)
LEMMA CloseKeeps ==
  ASSUME IInv, Close, UNCHANGED <<fn_index, main_args>>
  PROVE  IInv'
<1> DEFINE n == Len(scopes)
<1>1. /\ InFunction /\ Len(contexts) > 2
      /\ contexts' = SubSeq(contexts, 1, Len(contexts) - 1)
      /\ scopes' = SubSeq(scopes, 1, n - 1)
      /\ chain' = (Top.kind = "branch")
      /\ UNCHANGED <<functions, status, all_global_variables, declared, used, cpp_errors,
                      fn_index, main_args>>
  BY DEF Close, CppClose, Did, Around
<1>2. /\ n \in Nat /\ n > 1 /\ Len(contexts) = n + 1 /\ n <= MaxDepth
      /\ contexts \in Seq(Context) /\ scopes \in Seq(Scope)
  BY <1>1, Depth DEF IInv, Stacks
<1>3. /\ contexts' \in Seq(Context) /\ Len(contexts') = n
      /\ \A i \in 1..n : contexts'[i] = contexts[i]
  BY <1>1, <1>2
<1>4. /\ scopes' \in Seq(Scope) /\ Len(scopes') = n - 1
      /\ \A k \in 1..(n - 1) : scopes'[k] = scopes[k]
  BY <1>1, <1>2
<1>5. Stacks'
  BY <1>2, <1>3, <1>4, DepthAssumption DEF Stacks
<1>6. Base'
  BY <1>2, <1>3 DEF IInv, Base
<1>7. \A i \in 1..(n - 1) : i \in 1..n /\ i + 1 \in 1..n /\ 1..i \subseteq 1..(n - 1)
  BY <1>2
<1>8. SameLocals' /\ SameLoops'
  BY <1>3, <1>4, <1>7 DEF IInv, SameLocals, SameLoops
<1>9. NoShadowing'
  <2>1. DOMAIN scopes = 1..n /\ DOMAIN scopes' = 1..(n - 1)
    BY <1>2, <1>4
  <2> QED  BY <1>4, <1>7, <2>1 DEF IInv, NoShadowing
<1>10. Disjoint' /\ GlobalsKnown'
  <2>1. 1..n \subseteq 1..Len(contexts)
    BY <1>2
  <2> QED  BY <1>1, <1>3, <2>1 DEF IInv, Disjoint, GlobalsKnown
<1>11. CallsKnown'
  <2>1. fn_index \in DOMAIN functions
    BY <1>1, <1>2 DEF IInv, CallsKnown
  <2> QED  BY <1>1, <2>1 DEF IInv, CallsKnown, Dictionary
<1>12. Flags'
  BY <1>1 DEF IInv, Flags, CppFollowsRules
<1> QED  BY <1>5, <1>6, <1>8, <1>9, <1>10, <1>11, <1>12 DEF IInv

-----------------------------------------------------------------------------
(* Functions *)

(* The checks before any code, and the declarations of all functions. *)
LEMMA StartKeeps ==
  ASSUME IInv, Start
  PROVE  IInv'
<1>1. /\ status = "running" /\ fn_index = 0
      /\ UNCHANGED <<functions, contexts, all_global_variables, chain, last,
                    scopes, used, cpp_errors>>
      /\ status' \in {"running", "success", "failure"}
  BY DEF Start, cpp, CppDeclareFunctions
<1>2. Stacks' /\ Base' /\ SameLocals' /\ SameLoops' /\ NoShadowing' /\ Disjoint' /\ GlobalsKnown'
  BY <1>1 DEF IInv, Stacks, Base, SameLocals, SameLoops, NoShadowing, Disjoint, GlobalsKnown
<1>3. Flags'
  BY <1>1 DEF IInv, Flags, CppFollowsRules
<1>4. CASE UNCHANGED <<fn_index, main_args, declared>>
  BY <1>1, <1>2, <1>3, <1>4 DEF IInv, CallsKnown, Dictionary
<1>5. CASE /\ ~Refused /\ functions # <<>> /\ fn_index' = 1 /\ main_args' = MainArgs
           /\ declared' = declared \cup (Dictionary \cup Builtins)
  <2>1. /\ functions \in Programs /\ Len(functions) \in Nat
        /\ DOMAIN functions = 1..Len(functions)
        /\ \A i \in DOMAIN functions : functions[i].params \in Seq(Vars)
    BY ProgramsAssumption DEF IInv, CallsKnown
  <2> DEFINE i == CHOOSE j \in DOMAIN functions : functions[j].name = Main
  <2>2. i \in DOMAIN functions /\ functions[i].name = Main
    BY <1>5 DEF Refused, Names
  <2>3. MainArgs = Len(functions[i].params)
    BY DEF MainArgs
  <2> HIDE DEF i
  <2>4. MainArgs \in Nat
    BY <2>1, <2>2, <2>3
  <2>5. MainArgs \in 0..1
    BY <1>5, <2>4 DEF Refused
  <2>6. <<Main, MainArgs>> \in Dictionary
    BY <2>2, <2>3 DEF Dictionary
  <2>7. Len(functions) # 0 /\ 1 \in DOMAIN functions
    BY <2>1, <2>2
  <2>8. CallsKnown'
    BY <1>1, <1>5, <2>1, <2>5, <2>6, <2>7 DEF CallsKnown, Dictionary
  <2> QED  BY <1>2, <1>3, <2>8 DEF IInv
<1> QED  BY <1>4, <1>5 DEF Start, cpp, CppDeclareFunctions

(* A function starts in a context without variables: only its parameters    *)
(* are there.                                                               *)
LEMMA StartFunctionKeeps ==
  ASSUME IInv, StartFunction
  PROVE  IInv'
<1>1. /\ contexts[1] \in Context /\ contexts[1].locals = {}
      /\ contexts[1].globals = {} /\ contexts[1].in_loop = FALSE
  <2>1. Len(contexts) = 1
    BY DEF StartFunction
  <2> QED  BY <2>1 DEF IInv, Stacks, Base
<1> DEFINE params == functions[fn_index].params
           names  == {params[i] : i \in DOMAIN params}
           context == [contexts[1] EXCEPT !.locals = @ \cup names]
           scope == [vars |-> names, loop |-> FALSE]
<1>2. /\ Len(contexts) = 1 /\ fn_index \in DOMAIN functions
      /\ contexts' = <<context, context>> /\ scopes' = <<scope>>
      /\ chain' = FALSE /\ cpp_errors' \subseteq cpp_errors \cup {"parameter redefined"}
      /\ UNCHANGED <<functions, all_global_variables, last, status, fn_index, main_args,
                    declared, used>>
  BY DEF StartFunction, CppFunction, Broken
<1>3. names \subseteq Vars
  <2>1. params \in Seq(Vars)
    BY <1>2, ProgramsAssumption DEF IInv, CallsKnown
  <2> QED  BY <2>1
<1> HIDE DEF params, names
<1>4. /\ context \in Context /\ context.locals = names
      /\ context.globals = {} /\ context.in_loop = FALSE
  BY <1>3, <1>1 DEF Context
<1>5. scope \in Scope /\ scope.vars = names /\ scope.loop = FALSE
  BY <1>3 DEF Scope
<1> HIDE DEF context, scope
<1>6. /\ contexts' \in Seq(Context) /\ Len(contexts') = 2
      /\ contexts'[1] = context /\ contexts'[2] = context
      /\ scopes' \in Seq(Scope) /\ Len(scopes') = 1 /\ scopes'[1] = scope
  <2>1. contexts' = <<context, context>> /\ scopes' = <<scope>>
    BY <1>2
  <2>2. context \in Context /\ scope \in Scope
    BY <1>4, <1>5
  <2> QED  BY <2>1, <2>2
<1>7. Stacks' /\ Base'
  BY <1>4, <1>6, DepthAssumption DEF Stacks, Base
<1>8. SameLocals' /\ SameLoops'
  <2>1. \A i \in 1..1 : i = 1 /\ i + 1 = 2 /\ 1 \in 1..i /\ \A k \in 1..i : k = 1
    OBVIOUS
  <2>2. SameLocals'
    BY <1>4, <1>5, <1>6, <2>1 DEF SameLocals
  <2>3. SameLoops'
    BY <1>4, <1>5, <1>6, <2>1 DEF SameLoops
  <2> QED  BY <2>2, <2>3
<1>9. NoShadowing'
  <2>1. \A i \in DOMAIN scopes' : i = 1
    BY <1>6
  <2> QED  BY <2>1 DEF NoShadowing
<1>10. Disjoint' /\ GlobalsKnown'
  <2>1. \A i \in 1..2 : contexts'[i].globals = {}
    BY <1>4, <1>6
  <2> QED  BY <1>2, <1>6, <2>1 DEF IInv, Disjoint, GlobalsKnown
<1>11. CallsKnown'
  BY <1>2 DEF IInv, CallsKnown, Dictionary
<1>12. Flags'
  BY <1>2 DEF IInv, Flags, CppFollowsRules
<1> QED  BY <1>7, <1>8, <1>9, <1>10, <1>11, <1>12 DEF IInv

(* A function ends: its context is dropped and its parameters forgotten. *)
LEMMA EndFunctionKeeps ==
  ASSUME IInv, EndFunction
  PROVE  IInv'
<1>1. /\ contexts[1] \in Context /\ contexts[1].globals = {} /\ contexts[1].in_loop = FALSE
      /\ scopes \in Seq(Scope) /\ Len(scopes) = 1
      /\ fn_index \in 1..Len(functions) /\ Len(functions) \in Nat
  <2>1. InFunction /\ Len(contexts) = 2
    BY DEF EndFunction
  <2>2. Len(functions) \in Nat
    BY ProgramsAssumption DEF IInv, CallsKnown
  <2>3. fn_index \in 1..Len(functions)
    BY <2>1, Depth
  <2>4. Len(scopes) = 1
    <3> DEFINE n == Len(scopes)
    <3>1. n \in Nat /\ Len(contexts) = n + 1
      BY <2>1, Depth
    <3>2. n \in Nat /\ 2 = n + 1
      BY <2>1, <3>1, Zenon
    <3> HIDE DEF n
    <3>3. n = 1
      BY <3>2
    <3> QED  BY <3>3 DEF n
  <2>5. contexts[1] \in Context /\ scopes \in Seq(Scope)
    BY <2>1 DEF IInv, Stacks
  <2> QED  BY <2>2, <2>3, <2>4, <2>5 DEF IInv, Base
<1> DEFINE context == [contexts[1] EXCEPT !.locals = {}]
<1>2. /\ contexts' = <<context>> /\ scopes' = SubSeq(scopes, 1, Len(scopes) - 1)
      /\ fn_index' = fn_index + 1
      /\ UNCHANGED <<functions, all_global_variables, chain, status, main_args,
                    declared, used, cpp_errors>>
  BY DEF EndFunction, CppClose, Did
<1>3. /\ context \in Context /\ context.locals = {}
      /\ context.globals = {} /\ context.in_loop = FALSE
  BY <1>1 DEF Context
<1> HIDE DEF context
<1>4. /\ contexts' \in Seq(Context) /\ Len(contexts') = 1 /\ contexts'[1] = context
      /\ scopes' \in Seq(Scope) /\ Len(scopes') = 0 /\ scopes' = <<>>
  BY <1>1, <1>2, <1>3
<1>5. Stacks' /\ Base'
  BY <1>3, <1>4, DepthAssumption DEF Stacks, Base
<1>6. SameLocals' /\ SameLoops' /\ NoShadowing'
  BY <1>4 DEF SameLocals, SameLoops, NoShadowing
<1>7. Disjoint' /\ GlobalsKnown'
  <2>1. \A i \in 1..1 : contexts'[i].globals = {}
    BY <1>3, <1>4
  <2> QED  BY <1>2, <1>4, <2>1 DEF IInv, Disjoint, GlobalsKnown
<1>8. CallsKnown'
  BY <1>1, <1>2, <1>4 DEF IInv, CallsKnown, Dictionary
<1>9. Flags'
  BY <1>2 DEF IInv, Flags, CppFollowsRules
<1> QED  BY <1>5, <1>6, <1>7, <1>8, <1>9 DEF IInv

(* Every global variable used is defined, and Main is called as declared. *)
LEMMA FinishKeeps ==
  ASSUME IInv, Finish
  PROVE  IInv'
<1>1. /\ fn_index = Len(functions) + 1 /\ fn_index > 1 /\ status' = "success"
      /\ UNCHANGED <<functions, contexts, all_global_variables, chain, last, fn_index, main_args,
                    scopes, declared, used>>
      /\ cpp_errors' = cpp_errors
           \cup Broken("undeclared global variable", used \subseteq all_global_variables)
           \cup Broken("undeclared function",
                       <<Main, IF main_args = 0 THEN 0 ELSE 1>> \in declared)
  BY DEF Finish, CppEnd
<1>2. fn_index > 0
  <2>1. Len(functions) \in Nat
    BY ProgramsAssumption DEF IInv, CallsKnown
  <2>2. fn_index = Len(functions) + 1
    BY DEF Finish
  <2> QED  BY <2>1, <2>2
<1>3. (IF main_args = 0 THEN 0 ELSE 1) = main_args
  BY DEF IInv, CallsKnown
<1>4. cpp_errors' = cpp_errors
  BY <1>1, <1>2, <1>3 DEF IInv, CallsKnown, GlobalsKnown, Broken
<1>5. Stacks' /\ Base' /\ SameLocals' /\ SameLoops' /\ NoShadowing' /\ Disjoint' /\ GlobalsKnown'
  BY <1>1 DEF IInv, Stacks, Base, SameLocals, SameLoops, NoShadowing, Disjoint, GlobalsKnown
<1>6. CallsKnown' /\ Flags'
  BY <1>1, <1>4 DEF IInv, CallsKnown, Dictionary, Flags, CppFollowsRules
<1> QED  BY <1>5, <1>6 DEF IInv

-----------------------------------------------------------------------------
(* The theorems *)

LEMMA InitHolds == Init => IInv
<1> SUFFICES ASSUME Init PROVE IInv
  OBVIOUS
<1>1. EmptyContext \in Context /\ EmptyContext.locals = {} /\ EmptyContext.globals = {}
      /\ EmptyContext.in_loop = FALSE
  BY DEF EmptyContext, Context
<1>2. /\ contexts \in Seq(Context) /\ Len(contexts) = 1 /\ contexts[1] = EmptyContext
      /\ scopes \in Seq(Scope) /\ Len(scopes) = 0 /\ scopes = <<>>
  BY <1>1 DEF Init, CppInit
<1>3. Stacks /\ Base
  BY <1>1, <1>2, DepthAssumption DEF Stacks, Base
<1>4. SameLocals /\ SameLoops /\ NoShadowing
  BY <1>2 DEF SameLocals, SameLoops, NoShadowing
<1>5. Disjoint /\ GlobalsKnown
  BY <1>1, <1>2 DEF Disjoint, GlobalsKnown, Init, CppInit
<1>6. CallsKnown
  <2>1. functions \in Programs /\ Len(functions) \in Nat
    BY ProgramsAssumption DEF Init
  <2> QED  BY <1>2, <2>1 DEF CallsKnown, Init
<1>7. Flags
  BY DEF Flags, CppFollowsRules, Init, CppInit
<1> QED  BY <1>3, <1>4, <1>5, <1>6, <1>7 DEF IInv

LEMMA NextKeeps == IInv /\ [Next]_vars => IInv'
<1> SUFFICES ASSUME IInv, [Next]_vars PROVE IInv'
  OBVIOUS
<1>1. CASE Start
  BY <1>1, StartKeeps
<1>2. CASE StartFunction
  BY <1>2, StartFunctionKeeps
<1>3. CASE Statement /\ UNCHANGED <<fn_index, main_args>>
  <2>1. ASSUME NEW rv \in RValues, NEW x \in Vars, Assign(x, rv) PROVE IInv'
    BY <1>3, <2>1, AssignKeeps
  <2>2. ASSUME NEW rv \in RValues, Expression(rv) PROVE IInv'
    BY <1>3, <2>2, ExpressionKeeps
  <2>3. ASSUME NEW rv \in RValues, NEW by \in {"while", "if", "elif", "else"}, Open(by, rv)
        PROVE  IInv'
    BY <1>3, <2>3, OpenKeeps
  <2>4. ASSUME NEW x \in Vars, Global(x) PROVE IInv'
    BY <1>3, <2>4, GlobalKeeps
  <2>5. CASE Break
    BY <1>3, <2>5, BreakKeeps
  <2>6. CASE Close
    BY <1>3, <2>6, CloseKeeps
  <2> QED  BY <1>3, <2>1, <2>2, <2>3, <2>4, <2>5, <2>6 DEF Statement
<1>4. CASE EndFunction
  BY <1>4, EndFunctionKeeps
<1>5. CASE Finish
  BY <1>5, FinishKeeps
<1>6. CASE UNCHANGED vars
  <2>1. UNCHANGED <<functions, contexts, all_global_variables, chain, status, scopes, declared,
                    used, cpp_errors, fn_index, main_args>>
    BY <1>6 DEF vars, evaluator, cpp
  <2>2. Stacks' /\ Base' /\ SameLocals' /\ SameLoops' /\ NoShadowing' /\ Disjoint' /\ GlobalsKnown'
    BY <2>1 DEF IInv, Stacks, Base, SameLocals, SameLoops, NoShadowing, Disjoint, GlobalsKnown
  <2>3. CallsKnown' /\ Flags'
    BY <2>1 DEF IInv, CallsKnown, Dictionary, Flags, CppFollowsRules
  <2> QED  BY <2>2, <2>3 DEF IInv
<1> QED  BY <1>1, <1>2, <1>3, <1>4, <1>5, <1>6 DEF Next

(* The inductive invariant holds of every compilation, whatever the         *)
(* programs, the names and the depth of blocks.                             *)
THEOREM StacksAgree == Spec => []IInv
BY InitHolds, NextKeeps, PTL DEF Spec

(* What the compiler accepts follows the rules of C++ on scopes,            *)
(* declarations, calls and loops, up to parameters named alike (GetCode of  *)
(* the evaluators, GenerateCode); literals are not in the model.            *)
THEOREM AcceptedIsCpp == Spec => []CppFollowsRules
<1>1. IInv => CppFollowsRules
  BY DEF IInv, Flags
<1> QED  BY <1>1, StacksAgree, PTL

(* No variable of a generated function hides another. *)
THEOREM NothingHidden == Spec => []NoShadowing
<1>1. IInv => NoShadowing
  BY DEF IInv
<1> QED  BY <1>1, StacksAgree, PTL

(* No name is both local and global, and the assertion at evaluator.cc:80   *)
(* never fails.                                                             *)
THEOREM NamesHaveOneMeaning == Spec => []OneMeaning
<1>1. IInv => OneMeaning
  <2> SUFFICES ASSUME IInv PROVE OneMeaning
    OBVIOUS
  <2>1. DOMAIN contexts = 1..Len(contexts)
    BY DEF IInv, Stacks
  <2> QED  BY <2>1 DEF IInv, Disjoint, Flags, OneMeaning
<1> QED  BY <1>1, StacksAgree, PTL

(* The contexts, the shared set of global variables and the counters keep   *)
(* their types, and blocks stay within their bound.                         *)
THEOREM CompilerTypes == Spec => []TypeOK
<1>1. IInv => TypeOK
  BY DEF IInv, Stacks, CallsKnown, Flags, TypeOK
<1> QED  BY <1>1, StacksAgree, PTL

-----------------------------------------------------------------------------
(* Lexical scoping *)

(* The contexts of the evaluators implement lexical scoping.  A block binds  *)
(* what its context has more than the one around it; that these bindings    *)
(* add up to the context again needs the contexts to grow inwards, and for  *)
(* local variables it is IInv: what a block binds is what its scope in the  *)
(* generated C++ declares.                                                  *)

(* The global variables of a block are those of every block inside it. *)
GlobalsGrow ==
  \A i, j \in 1..Len(contexts) : i <= j => contexts[i].globals \subseteq contexts[j].globals

(* A context is in a loop when a block around it, or its own, is a loop's. *)
LoopBlocks ==
  \A i \in 1..Len(scopes) :
    contexts[i + 1].in_loop <=> \E k \in 1..i : contexts[k + 1].kind = "loop"

LInv == IInv /\ GlobalsGrow /\ LoopBlocks /\ contexts[1].kind = "plain"

(* The block whose context is c inside a context b. *)
BlockOf(b, c) == [locals |-> c.locals \ b.locals, globals |-> c.globals \ b.globals,
                  loop |-> c.kind = "loop"]

(* The blocks of a stack of contexts, below them the one that goes from     *)
(* function to function.                                                    *)
BlocksOf(cs) ==
  [i \in 1..(Len(cs) - 1) |->
     BlockOf(IF i = 1 THEN EmptyContext ELSE cs[i], cs[i + 1])]

(* The blocks as Codegen gives them to LexicalScopes. *)
Now == [i \in 1..(Len(contexts) - 1) |->
          [locals  |-> OfBlock(i, LAMBDA c : c.locals),
           globals |-> OfBlock(i, LAMBDA c : c.globals),
           loop    |-> contexts[i + 1].kind = "loop"]]

-----------------------------------------------------------------------------

LEMMA NowIs == Now = BlocksOf(contexts) /\ Now' = BlocksOf(contexts')
BY DEF Now, BlocksOf, BlockOf, EmptyContext, OfBlock

(* What LexicalScopes says of the blocks it is given. *)
LEMMA LexicalForms ==
  /\ Lexical!Locals = UNION {Now[i].locals : i \in DOMAIN Now}
  /\ Lexical!Globals = UNION {Now[i].globals : i \in DOMAIN Now}
  /\ Lexical!InLoop <=> \E i \in DOMAIN Now : Now[i].loop
BY DEF Lexical!Locals, Lexical!Globals, Lexical!InLoop, Now

(* The bindings of the blocks add up to the innermost context. *)
LEMMA InnermostBinds ==
  ASSUME LInv, InFunction
  PROVE  /\ Lexical!Locals = Top.locals
         /\ Lexical!Globals = Top.globals
         /\ Lexical!InLoop <=> Top.in_loop
<1> DEFINE n == Len(scopes)
<1>1. /\ n \in Nat \ {0} /\ Len(contexts) = n + 1 /\ Top = contexts[n + 1] /\ Top \in Context
      /\ contexts \in Seq(Context)
  BY Depth DEF LInv, IInv, Stacks
<1>2. /\ DOMAIN Now = 1..n
      /\ \A i \in 1..n :
           Now[i] = BlockOf(IF i = 1 THEN EmptyContext ELSE contexts[i], contexts[i + 1])
  <2>1. Len(contexts) - 1 = n
    BY <1>1
  <2> QED  BY <2>1, NowIs DEF BlocksOf
<1>3. \A i \in 1..n :
        /\ Now[i].locals = contexts[i + 1].locals \ (IF i = 1 THEN {} ELSE contexts[i].locals)
        /\ Now[i].globals = contexts[i + 1].globals \ (IF i = 1 THEN {} ELSE contexts[i].globals)
        /\ Now[i].loop = (contexts[i + 1].kind = "loop")
  BY <1>2 DEF BlockOf, EmptyContext
<1>4. \A i \in 1..n : i + 1 \in 1..(n + 1) /\ i \in 1..(n + 1) /\ i + 1 <= n + 1
  BY <1>1
<1>5. Lexical!Locals = Top.locals
  <2>1. ASSUME NEW i \in 1..n, NEW x \in Now[i].locals
        PROVE  x \in Top.locals
    <3>0. contexts[i + 1] \in Context
      BY <1>1, <1>4
    <3>1. x \in contexts[i + 1].locals /\ x \in Vars
      BY <1>3, <2>1, <3>0 DEF Context
    <3>2. PICK k \in 1..i : x \in scopes[k].vars
      BY <3>1 DEF LInv, IInv, SameLocals
    <3>3. k \in 1..n /\ n \in 1..n
      BY <1>1
    <3> QED  BY <1>1, <3>1, <3>2, <3>3 DEF LInv, IInv, SameLocals
  <2>2. ASSUME NEW x \in Top.locals
        PROVE  \E i \in 1..n : x \in Now[i].locals
    <3>1. x \in Vars /\ n \in 1..n
      BY <1>1 DEF Context
    <3>2. PICK k \in 1..n : x \in scopes[k].vars
      BY <1>1, <3>1 DEF LInv, IInv, SameLocals
    <3>3. x \in contexts[k + 1].locals
      <4>1. k \in 1..k
        BY <1>1
      <4> QED  BY <3>1, <3>2, <4>1 DEF LInv, IInv, SameLocals
    <3>4. ASSUME k # 1, x \in contexts[k].locals
          PROVE  FALSE
      <4>1. k - 1 \in 1..n /\ (k - 1) + 1 = k
        BY <1>1, <3>4
      <4>2. PICK j \in 1..(k - 1) : x \in scopes[j].vars
        BY <3>1, <3>4, <4>1 DEF LInv, IInv, SameLocals
      <4>3. j \in DOMAIN scopes /\ k \in DOMAIN scopes /\ j # k
        BY <1>1, <4>1 DEF LInv, IInv, Stacks
      <4> QED  BY <3>2, <4>2, <4>3 DEF LInv, IInv, NoShadowing
    <3> QED  BY <1>3, <3>3, <3>4
  <2> QED  BY <1>2, <2>1, <2>2, LexicalForms
<1>6. Lexical!Globals = Top.globals
  <2>1. ASSUME NEW i \in 1..n, NEW x \in Now[i].globals
        PROVE  x \in Top.globals
    <3>1. x \in contexts[i + 1].globals /\ n + 1 \in 1..(n + 1)
      BY <1>1, <1>3
    <3> QED  BY <1>1, <1>4, <3>1 DEF LInv, GlobalsGrow
  <2>2. ASSUME NEW x \in Top.globals
        PROVE  \E i \in 1..n : x \in Now[i].globals
    <3> DEFINE T == {i \in 1..n : x \in contexts[i + 1].globals}
    <3>1. T \subseteq Nat /\ n \in T
      BY <1>1
    <3>2. PICK k \in T : \A y \in T : k <= y
      BY <3>1, Least
    <3>3. ASSUME k # 1, x \in contexts[k].globals
          PROVE  FALSE
      <4>1. k - 1 \in 1..n /\ (k - 1) + 1 = k /\ ~(k <= k - 1)
        BY <1>1, <3>3
      <4> QED  BY <3>2, <3>3, <4>1
    <3> QED  BY <1>3, <3>2, <3>3
  <2> QED  BY <1>2, <2>1, <2>2, LexicalForms
<1>7. Lexical!InLoop <=> Top.in_loop
  <2>1. n \in 1..n
    BY <1>1
  <2>2. Top.in_loop <=> \E k \in 1..n : contexts[k + 1].kind = "loop"
    BY <1>1, <2>1 DEF LInv, LoopBlocks
  <2> QED  BY <1>2, <1>3, <2>2, LexicalForms
<1> QED  BY <1>5, <1>6, <1>7

-----------------------------------------------------------------------------
(* The invariant is inductive *)

(* The blocks that stay keep what they are; the innermost may bind globals. *)
LEMMA FewerKeep ==
  ASSUME LInv, IInv', Len(contexts') <= Len(contexts),
         \A i \in 1..Len(contexts') :
           /\ contexts'[i].in_loop = contexts[i].in_loop
           /\ contexts'[i].kind = contexts[i].kind
           /\ contexts[i].globals \subseteq contexts'[i].globals
           /\ i < Len(contexts') => contexts'[i].globals = contexts[i].globals
  PROVE  LInv'
<1> DEFINE m == Len(contexts')
<1>1. /\ m \in Nat \ {0} /\ Len(scopes') = m - 1 /\ Len(scopes) = Len(contexts) - 1
      /\ Len(contexts) \in Nat /\ m <= Len(contexts)
  BY DepthAssumption DEF LInv, IInv, Stacks
<1>2. GlobalsGrow'
  <2> SUFFICES ASSUME NEW i \in 1..m, NEW j \in 1..m, i <= j
               PROVE  contexts'[i].globals \subseteq contexts'[j].globals
    BY DEF GlobalsGrow
  <2>1. CASE i = j
    BY <2>1
  <2>2. CASE i # j
    <3>1. i < m /\ i \in 1..Len(contexts) /\ j \in 1..Len(contexts)
      BY <1>1, <2>2
    <3>2. contexts[i].globals \subseteq contexts[j].globals
      BY <3>1 DEF LInv, GlobalsGrow
    <3> QED  BY <3>1, <3>2
  <2> QED  BY <2>1, <2>2
<1>3. LoopBlocks'
  <2> SUFFICES ASSUME NEW i \in 1..(m - 1)
               PROVE  contexts'[i + 1].in_loop <=> \E k \in 1..i : contexts'[k + 1].kind = "loop"
    BY <1>1 DEF LoopBlocks
  <2>1. i \in 1..Len(scopes) /\ i + 1 \in 1..m /\ \A k \in 1..i : k + 1 \in 1..m
    BY <1>1
  <2> QED  BY <2>1 DEF LInv, LoopBlocks
<1>4. contexts'[1].kind = "plain"
  BY <1>1 DEF LInv
<1> QED  BY <1>2, <1>3, <1>4 DEF LInv

LEMMA SameKeep ==
  ASSUME LInv, IInv', contexts' = contexts
  PROVE  LInv'
<1>1. Len(contexts) \in Nat
  BY DEF LInv, IInv, Stacks
<1> QED  BY <1>1, FewerKeep

(* The innermost context may bind more. *)
LEMMA BindingKeeps ==
  ASSUME LInv, IInv', InFunction, NEW context \in Context, Changed(context),
         context.in_loop = Top.in_loop, context.kind = Top.kind,
         Top.globals \subseteq context.globals
  PROVE  LInv'
<1> DEFINE n == Len(scopes)
<1>1. /\ contexts' \in Seq(Context) /\ Len(contexts') = Len(contexts)
      /\ contexts'[n + 1] = context
      /\ \A i \in 1..n : contexts'[i] = contexts[i]
  BY ContextsAfter DEF LInv
<1>2. n \in Nat \ {0} /\ Len(contexts) = n + 1 /\ Top = contexts[n + 1]
  BY Depth DEF LInv
<1>3. ASSUME NEW i \in 1..(n + 1)
      PROVE  /\ contexts'[i].in_loop = contexts[i].in_loop
             /\ contexts'[i].kind = contexts[i].kind
             /\ contexts[i].globals \subseteq contexts'[i].globals
             /\ i < n + 1 => contexts'[i].globals = contexts[i].globals
  <2>1. CASE i = n + 1
    BY <1>1, <1>2, <2>1
  <2>2. CASE i # n + 1
    <3>1. i \in 1..n
      BY <1>2, <2>2
    <3> QED  BY <1>1, <3>1
  <2> QED  BY <2>1, <2>2
<1> HIDE DEF n
<1>4. Len(contexts') = n + 1 /\ Len(contexts') <= Len(contexts)
  BY <1>1, <1>2
<1> QED  BY <1>3, <1>4, FewerKeep

(* A block opened starts as a copy of the context around it. *)
LEMMA OpeningKeeps ==
  ASSUME LInv, IInv', InFunction, NEW by \in {"while", "if", "elif", "else"},
         contexts' = Append(contexts, Inside(by))
  PROVE  LInv'
<1> DEFINE n == Len(contexts)
           context == Inside(by)
<1>1. /\ n \in Nat \ {0} /\ n > 1 /\ contexts \in Seq(Context) /\ Top \in Context
      /\ Top = contexts[n] /\ Len(scopes) = n - 1
  BY Depth DEF LInv, IInv, Stacks
<1>2. /\ context.globals = Top.globals
      /\ context.in_loop = (Top.in_loop \/ by = "while")
      /\ context.kind = "loop" <=> by = "while"
  BY <1>1 DEF Inside, Kind, Context
<1>3. /\ Len(contexts') = n + 1 /\ contexts'[n + 1] = context
      /\ \A i \in 1..n : contexts'[i] = contexts[i]
  <2> HIDE DEF context
  <2> QED  BY <1>1 DEF context
<1>4. Len(scopes') = n
  BY <1>1, <1>3 DEF IInv, Stacks
<1> HIDE DEF n, context
<1>5. GlobalsGrow'
  <2> SUFFICES ASSUME NEW i \in 1..(n + 1), NEW j \in 1..(n + 1), i <= j
               PROVE  contexts'[i].globals \subseteq contexts'[j].globals
    BY <1>3 DEF GlobalsGrow
  <2>1. CASE j # n + 1
    <3>1. i \in 1..n /\ j \in 1..n
      BY <1>1, <2>1
    <3> QED  BY <1>3, <3>1 DEF LInv, GlobalsGrow, n
  <2>2. CASE j = n + 1 /\ i # n + 1
    <3>1. i \in 1..n /\ n \in 1..n /\ i <= n
      BY <1>1, <2>2
    <3>2. contexts[i].globals \subseteq contexts[n].globals
      BY <3>1 DEF LInv, GlobalsGrow, n
    <3> QED  BY <1>1, <1>2, <1>3, <2>2, <3>1, <3>2
  <2>3. CASE i = n + 1 /\ j = n + 1
    BY <2>3
  <2> QED  BY <2>1, <2>2, <2>3
<1>6. LoopBlocks'
  <2> SUFFICES ASSUME NEW i \in 1..n
               PROVE  contexts'[i + 1].in_loop <=> \E k \in 1..i : contexts'[k + 1].kind = "loop"
    BY <1>4 DEF LoopBlocks
  <2>1. CASE i # n
    <3>1. i \in 1..Len(scopes) /\ \A k \in 1..i : k + 1 \in 1..n
      BY <1>1, <2>1
    <3>2. i + 1 \in 1..n
      BY <1>1, <2>1
    <3> QED  BY <1>3, <3>1, <3>2 DEF LInv, LoopBlocks
  <2>2. CASE i = n
    <3>1. n - 1 \in 1..Len(scopes) /\ (n - 1) + 1 = n
      BY <1>1
    <3>2. Top.in_loop <=> \E k \in 1..(n - 1) : contexts[k + 1].kind = "loop"
      BY <1>1, <3>1 DEF LInv, LoopBlocks
    <3>3. \A k \in 1..(n - 1) : k + 1 \in 1..n /\ k \in 1..n /\ k # n
      BY <1>1
    <3>4. \A k \in 1..(n - 1) : contexts'[k + 1].kind = contexts[k + 1].kind
      BY <1>3, <3>3
    <3>5. \A k \in 1..n : k = n \/ k \in 1..(n - 1)
      BY <1>1
    <3>6. contexts'[n + 1] = context /\ n \in 1..n
      BY <1>1, <1>3
    <3> QED  BY <1>2, <2>2, <3>2, <3>3, <3>4, <3>5, <3>6
  <2> QED  BY <2>1, <2>2
<1>7. contexts'[1].kind = "plain"
  <2>1. 1 \in 1..n
    BY <1>1
  <2> QED  BY <1>3, <2>1 DEF LInv
<1> QED  BY <1>5, <1>6, <1>7 DEF LInv

LEMMA ClosingKeeps ==
  ASSUME LInv, IInv', Len(contexts) > 1,
         contexts' = SubSeq(contexts, 1, Len(contexts) - 1)
  PROVE  LInv'
<1> DEFINE n == Len(contexts) - 1
<1>1. n \in Nat /\ n >= 1 /\ n <= Len(contexts) /\ contexts \in Seq(Context)
  BY DEF LInv, IInv, Stacks
<1>2. Len(contexts') = n /\ \A i \in 1..n : contexts'[i] = contexts[i]
  BY <1>1
<1> QED  BY <1>1, <1>2, FewerKeep

(* The block of a function and the context it was copied from. *)
LEMMA FunctionKeeps ==
  ASSUME LInv, IInv', StartFunction \/ EndFunction
  PROVE  LInv'
<1>1. contexts[1] \in Context /\ contexts[1].kind = "plain" /\ contexts[1].in_loop = FALSE
  BY DepthAssumption DEF LInv, IInv, Stacks, Base
<1>2. CASE StartFunction
  <2>1. PICK context : /\ contexts' = <<context, context>>
                       /\ \E names : context = [contexts[1] EXCEPT !.locals = @ \cup names]
    BY <1>2 DEF StartFunction
  <2>2. context.kind = "plain" /\ context.in_loop = FALSE
    BY <1>1, <2>1 DEF Context
  <2>3. Len(contexts') = 2 /\ contexts'[1] = context /\ contexts'[2] = context
    BY <2>1
  <2>4. Len(scopes') = 1
    BY <2>3 DEF IInv, Stacks
  <2>5. GlobalsGrow'
    BY <2>3 DEF GlobalsGrow
  <2>6. LoopBlocks'
    BY <2>2, <2>3, <2>4 DEF LoopBlocks
  <2> QED  BY <2>2, <2>3, <2>5, <2>6 DEF LInv
<1>3. CASE EndFunction
  <2>1. contexts' = <<[contexts[1] EXCEPT !.locals = {}]>>
    BY <1>3 DEF EndFunction
  <2>2. Len(contexts') = 1 /\ contexts'[1].kind = "plain"
    BY <1>1, <2>1 DEF Context
  <2>3. Len(scopes') = 0
    BY <2>2 DEF IInv, Stacks
  <2>4. GlobalsGrow'
    BY <2>2 DEF GlobalsGrow
  <2>5. LoopBlocks'
    BY <2>3 DEF LoopBlocks
  <2> QED  BY <2>2, <2>4, <2>5 DEF LInv
<1> QED  BY <1>2, <1>3

-----------------------------------------------------------------------------
(* How the blocks change *)

Block == [locals : SUBSET Vars, globals : SUBSET Vars, loop : BOOLEAN]

(* The blocks of any stack of contexts. *)
LEMMA BlocksFacts ==
  ASSUME NEW cs \in Seq(Context), Len(cs) > 0
  PROVE  /\ BlocksOf(cs) \in Seq(Block) /\ Len(BlocksOf(cs)) = Len(cs) - 1
         /\ \A i \in 1..(Len(cs) - 1) :
              BlocksOf(cs)[i] = BlockOf(IF i = 1 THEN EmptyContext ELSE cs[i], cs[i + 1])
<1> DEFINE n == Len(cs) - 1
           block(i) == BlockOf(IF i = 1 THEN EmptyContext ELSE cs[i], cs[i + 1])
<1>1. n \in Nat /\ \A i \in 1..n : i + 1 \in 1..Len(cs)
  OBVIOUS
<1>2. ASSUME NEW i \in 1..n
      PROVE  block(i) \in Block
  <2> DEFINE b == IF i = 1 THEN EmptyContext ELSE cs[i]
             c == cs[i + 1]
  <2>1. c \in Context
    BY <1>1
  <2>2. /\ c.locals \ b.locals \in SUBSET Vars /\ c.globals \ b.globals \in SUBSET Vars
        /\ (c.kind = "loop") \in BOOLEAN
    <3> HIDE DEF b, c
    <3> QED  BY <2>1 DEF Context
  <2> HIDE DEF b, c
  <2>3. BlockOf(b, c) \in Block
    BY <2>2 DEF BlockOf, Block
  <2> QED  BY <2>3 DEF b, c
<1>3. BlocksOf(cs) = [i \in 1..n |-> block(i)]
  BY DEF BlocksOf
<1> HIDE DEF block, n
<1>4. [i \in 1..n |-> block(i)] \in Seq(Block) /\ Len([i \in 1..n |-> block(i)]) = n
  BY <1>1, <1>2
<1>5. \A i \in 1..n : BlocksOf(cs)[i] = block(i)
  BY <1>3
<1> QED  BY <1>3, <1>4, <1>5 DEF block, n

(* Inside a function. *)
LEMMA NowFacts ==
  ASSUME LInv, InFunction
  PROVE  /\ Now \in Seq(Block) /\ Len(Now) = Len(scopes) /\ Len(Now) \in Nat \ {0}
         /\ Now # <<>> /\ Len(contexts) = Len(Now) + 1
         /\ \A i \in 1..Len(Now) :
              Now[i] = BlockOf(IF i = 1 THEN EmptyContext ELSE contexts[i], contexts[i + 1])
<1>1. /\ Len(scopes) \in Nat \ {0} /\ Len(contexts) = Len(scopes) + 1
      /\ contexts \in Seq(Context)
  BY Depth DEF LInv, IInv, Stacks
<1>2. Len(contexts) > 0 /\ Len(contexts) - 1 = Len(scopes)
  BY <1>1
<1>3. /\ Now \in Seq(Block) /\ Len(Now) = Len(scopes)
      /\ \A i \in 1..Len(scopes) :
           Now[i] = BlockOf(IF i = 1 THEN EmptyContext ELSE contexts[i], contexts[i + 1])
  BY <1>1, <1>2, BlocksFacts, NowIs
<1>4. Now # <<>>
  BY <1>1, <1>3
<1> QED  BY <1>1, <1>3, <1>4

(* Outside every function there is no block. *)
LEMMA NoBlocks ==
  ASSUME NEW cs \in Seq(Context), Len(cs) = 1
  PROVE  BlocksOf(cs) = <<>>
<1>1. BlocksOf(cs) \in Seq(Block) /\ Len(BlocksOf(cs)) = 0
  <2>1. Len(cs) > 0 /\ Len(cs) - 1 = 0
    OBVIOUS
  <2> QED  BY <2>1, BlocksFacts
<1> QED  BY <1>1

(* A new innermost context is a new innermost block. *)
LEMMA BlocksChanged ==
  ASSUME LInv, InFunction, NEW context \in Context, Changed(context)
  PROVE  LET n == Len(Now)
         IN  Now' = [Now EXCEPT ![n] = BlockOf(IF n = 1 THEN EmptyContext ELSE contexts[n], context)]
<1> DEFINE n == Len(Now)
           block == BlockOf(IF n = 1 THEN EmptyContext ELSE contexts[n], context)
<1>1. /\ Now \in Seq(Block) /\ n \in Nat \ {0} /\ n = Len(scopes) /\ Len(contexts) = n + 1
      /\ \A i \in 1..n :
           Now[i] = BlockOf(IF i = 1 THEN EmptyContext ELSE contexts[i], contexts[i + 1])
  BY NowFacts
<1>2. /\ contexts' \in Seq(Context) /\ Len(contexts') = n + 1
      /\ contexts'[n + 1] = context
      /\ \A i \in 1..n : contexts'[i] = contexts[i]
  BY <1>1, ContextsAfter DEF LInv
<1> HIDE DEF n
<1>3. /\ Now' \in Seq(Block) /\ Len(Now') = n
      /\ \A i \in 1..n :
           Now'[i] = BlockOf(IF i = 1 THEN EmptyContext ELSE contexts'[i], contexts'[i + 1])
  <2>1. Len(contexts') > 0 /\ Len(contexts') - 1 = n
    BY <1>1, <1>2
  <2> QED  BY <1>2, <2>1, BlocksFacts, NowIs
<1>4. block \in Block
  <2>1. Now'[n] = block /\ n \in 1..n
    BY <1>1, <1>2, <1>3
  <2> QED  BY <1>3, <2>1
<1>5. ASSUME NEW i \in 1..n
      PROVE  Now'[i] = [Now EXCEPT ![n] = block][i]
  <2>1. CASE i = n
    BY <1>1, <1>2, <1>3, <2>1 DEF n
  <2>2. CASE i # n
    <3>1. i + 1 \in 1..n /\ i \in DOMAIN Now
      BY <1>1, <2>2 DEF n
    <3> QED  BY <1>1, <1>2, <1>3, <2>2, <3>1
  <2> QED  BY <2>1, <2>2
<1> HIDE DEF block
<1>6. [Now EXCEPT ![n] = block] \in Seq(Block) /\ Len([Now EXCEPT ![n] = block]) = n
  BY <1>1, <1>4 DEF n
<1>7. Now' = [Now EXCEPT ![n] = block]
  BY <1>3, <1>5, <1>6
<1> QED  BY <1>7 DEF n, block

-----------------------------------------------------------------------------
(* Each statement is the statement LexicalScopes defines *)

(* What is resolved is what has a meaning, and means the same variables. *)
LEMMA SameMeaning ==
  ASSUME LInv, InFunction, NEW rv
  PROVE  /\ Lexical!Meaningful(rv) <=> Resolves(rv)
         /\ Resolves(rv) => Lexical!Code(rv) = GetCode(rv)
<1>1. Lexical!Locals = Top.locals /\ Lexical!Globals = Top.globals
  BY InnermostBinds
<1>2. Lexical!Meaningful(rv) <=> Resolves(rv)
  BY <1>1 DEF Lexical!Meaningful, Resolves
<1>3. Top.locals \cap Top.globals = {}
  <2>1. Len(scopes) + 1 \in 1..Len(contexts) /\ Top = contexts[Len(scopes) + 1]
    BY Depth DEF LInv
  <2> QED  BY <2>1 DEF LInv, IInv, Disjoint
<1>4. ASSUME Resolves(rv)
      PROVE  rv.vars \cap Top.globals = rv.vars \ Top.locals
  BY <1>3, <1>4 DEF Resolves
<1> QED  BY <1>1, <1>2, <1>4 DEF Lexical!Code, GetCode

LEMMA StopIsReject ==
  ASSUME NEW stmt, Stop(stmt, "failure")
  PROVE  Lexical!Reject(stmt)
<1>1. last' = [stmt |-> stmt, code |-> NoCode] /\ status' = "failure" /\ contexts' = contexts
  BY DEF Stop
<1>2. Now' = Now
  BY <1>1, NowIs
<1> QED  BY <1>1, <1>2 DEF Lexical!Reject, Lexical!NoCode, NoCode, Now

LEMMA DidIsDoes ==
  ASSUME NEW stmt, NEW code, Did(stmt, code)
  PROVE  Lexical!Does(stmt, code)
BY DEF Did, Lexical!Does

(* The innermost context written back as it is. *)
LEMMA NothingBound ==
  ASSUME LInv, InFunction, Changed(Top)
  PROVE  Now' = Now
<1>1. contexts' = contexts
  BY ChangedTop DEF LInv
<1> QED  BY <1>1, NowIs

(* The innermost context with one name more, which is not one of the blocks *)
(* around it.                                                               *)
LEMMA OneBound ==
  ASSUME LInv, InFunction, NEW x \in Vars, NEW context,
         Changed(context), context \in Context, context.kind = Top.kind,
         \/ /\ x \notin Top.locals
            /\ context.locals = Top.locals \cup {x} /\ context.globals = Top.globals
         \/ /\ x \notin Top.globals
            /\ context.globals = Top.globals \cup {x} /\ context.locals = Top.locals
  PROVE  /\ context.globals = Top.globals => Lexical!Binds("locals", x)
         /\ context.locals = Top.locals => Lexical!Binds("globals", x)
<1> DEFINE n == Len(Now)
           b == IF n = 1 THEN EmptyContext ELSE contexts[n]
<1>1. /\ Now \in Seq(Block) /\ n \in Nat \ {0} /\ n = Len(scopes) /\ Len(contexts) = n + 1
      /\ Now[n] = BlockOf(b, Top) /\ Top \in Context
  <2>1. n \in 1..n
    BY NowFacts
  <2> QED  BY <2>1, NowFacts, Depth DEF LInv
<1>2. Now' = [Now EXCEPT ![n] = BlockOf(b, context)]
  BY BlocksChanged
<1>3. b.locals \subseteq Top.locals /\ b.globals \subseteq Top.globals
  <2>1. CASE n = 1
    BY <2>1 DEF EmptyContext
  <2>2. CASE n # 1
    <3>1. /\ n - 1 \in 1..Len(scopes) /\ (n - 1) + 1 = n /\ n \in 1..Len(scopes)
          /\ n \in 1..Len(contexts) /\ n + 1 \in 1..Len(contexts) /\ n <= n + 1
          /\ \A k \in 1..(n - 1) : k \in 1..n
      BY <1>1, <2>2
    <3>2. Top = contexts[n + 1] /\ contexts[n] \in Context
      BY <1>1, <3>1, Depth DEF LInv, IInv, Stacks
    <3>3. contexts[n].globals \subseteq Top.globals
      BY <3>1, <3>2 DEF LInv, GlobalsGrow
    <3>4. ASSUME NEW y \in contexts[n].locals
          PROVE  y \in Top.locals
      <4>1. y \in Vars
        BY <3>2 DEF Context
      <4>2. PICK k \in 1..(n - 1) : y \in scopes[k].vars
        BY <3>1, <4>1 DEF LInv, IInv, SameLocals
      <4> QED  BY <3>1, <3>2, <4>1, <4>2 DEF LInv, IInv, SameLocals
    <3> QED  BY <2>2, <3>3, <3>4
  <2> QED  BY <2>1, <2>2
<1> HIDE DEF n, b
<1>4. Now[n].locals = Top.locals \ b.locals /\ Now[n].globals = Top.globals \ b.globals
  BY <1>1 DEF BlockOf
<1>5. n \in DOMAIN Now /\ Now[n] \in Block /\ n = Len(Now)
  BY <1>1 DEF n
<1>6. ASSUME x \notin Top.locals, context.locals = Top.locals \cup {x},
             context.globals = Top.globals
      PROVE  BlockOf(b, context) = [Now[n] EXCEPT !.locals = @ \cup {x}]
  <2>1. context.locals \ b.locals = Now[n].locals \cup {x}
    BY <1>3, <1>4, <1>6
  <2>2. Now[n] = [locals |-> Top.locals \ b.locals, globals |-> Top.globals \ b.globals,
                  loop |-> Top.kind = "loop"]
    BY <1>1 DEF BlockOf
  <2>3. BlockOf(b, context) = [locals |-> Now[n].locals \cup {x}, globals |-> Top.globals \ b.globals,
                               loop |-> Top.kind = "loop"]
    BY <1>6, <1>4, <2>1 DEF BlockOf
  <2> QED  BY <2>2, <2>3
<1>7. ASSUME x \notin Top.globals, context.globals = Top.globals \cup {x},
             context.locals = Top.locals
      PROVE  BlockOf(b, context) = [Now[n] EXCEPT !.globals = @ \cup {x}]
  <2>1. context.globals \ b.globals = Now[n].globals \cup {x}
    BY <1>3, <1>4, <1>7
  <2>2. Now[n] = [locals |-> Top.locals \ b.locals, globals |-> Top.globals \ b.globals,
                  loop |-> Top.kind = "loop"]
    BY <1>1 DEF BlockOf
  <2>3. BlockOf(b, context) = [locals |-> Top.locals \ b.locals, globals |-> Now[n].globals \cup {x},
                               loop |-> Top.kind = "loop"]
    BY <1>7, <1>4, <2>1 DEF BlockOf
  <2> DEFINE g == Now[n].globals \cup {x}
  <2> HIDE DEF g
  <2>4. [Now[n] EXCEPT !.globals = g]
          = [locals |-> Top.locals \ b.locals, globals |-> g, loop |-> Top.kind = "loop"]
    BY <2>2
  <2> QED  BY <2>3, <2>4 DEF g
<1>8. ASSUME context.globals = Top.globals
      PROVE  Now' = [Now EXCEPT ![Len(Now)]["locals"] = @ \cup {x}]
  BY <1>2, <1>5, <1>6, <1>8
<1>9. ASSUME context.locals = Top.locals
      PROVE  Now' = [Now EXCEPT ![Len(Now)]["globals"] = @ \cup {x}]
  BY <1>2, <1>5, <1>7, <1>9
<1> QED  BY <1>8, <1>9 DEF Lexical!Binds, Now

LEMMA AssignLexical ==
  ASSUME LInv, NEW x \in Vars, NEW rv, Assign(x, rv)
  PROVE  Lexical!Assign(x, rv)
<1> DEFINE stmt == <<"assign", x, rv>>
           code == GetCode(rv)
<1>1. InFunction
  BY DEF Assign
<1>2. /\ Lexical!Locals = Top.locals /\ Lexical!Globals = Top.globals
      /\ Lexical!Meaningful(rv) <=> Resolves(rv)
      /\ Resolves(rv) => Lexical!Code(rv) = code
  BY <1>1, InnermostBinds, SameMeaning
<1>3. Top \in Context /\ Top.locals \cap Top.globals = {}
  <2>1. Len(scopes) + 1 \in 1..Len(contexts) /\ Top = contexts[Len(scopes) + 1] /\ Top \in Context
    BY <1>1, Depth DEF LInv
  <2> QED  BY <2>1 DEF LInv, IInv, Disjoint
<1>4. CASE ~Resolves(rv)
  <2>1. Stop(stmt, "failure")
    BY <1>4 DEF Assign
  <2>2. Lexical!Reject(stmt)
    BY <2>1, StopIsReject
  <2> QED  BY <1>2, <1>4, <2>2 DEF Lexical!Assign
<1>5. CASE Resolves(rv) /\ x \in Top.globals \cup Top.locals
  <2>1. /\ Did(stmt, [op |-> "assign", var |-> x, local |-> x \in Top.locals, code |-> code])
        /\ Changed(Top)
    <3>1. CASE x \in Top.globals
      <4>1. x \notin Top.locals
        BY <1>3, <3>1
      <4>2. Did(stmt, [op |-> "assign", var |-> x, local |-> FALSE, code |-> code]) /\ Changed(Top)
        BY <1>5, <3>1, <4>1 DEF Assign
      <4>3. (x \in Top.locals) = FALSE
        BY <4>1
      <4> QED  BY <4>2, <4>3
    <3>2. CASE x \notin Top.globals
      <4>1. (x \in Top.locals) = TRUE
        BY <1>5, <3>2
      <4>2. Did(stmt, [op |-> "assign", var |-> x, local |-> TRUE, code |-> code]) /\ Changed(Top)
        BY <1>5, <3>2 DEF Assign
      <4> QED  BY <4>1, <4>2
    <3> QED  BY <3>1, <3>2
  <2>2. Lexical!Does(stmt, [op |-> "assign", var |-> x, local |-> x \in Top.locals, code |-> code])
    BY <2>1, DidIsDoes
  <2>3. Now' = Now
    BY <1>1, <2>1, NothingBound
  <2> QED  BY <1>2, <1>5, <2>2, <2>3 DEF Lexical!Assign, Now
<1>6. CASE Resolves(rv) /\ x \notin Top.globals \cup Top.locals
  <2> DEFINE context == [Top EXCEPT !.locals = @ \cup {x}]
  <2>1. Did(stmt, [op |-> "declare", var |-> x, code |-> code]) /\ Changed(context)
    BY <1>6 DEF Assign
  <2>2. /\ context \in Context /\ context.kind = Top.kind
        /\ context.locals = Top.locals \cup {x} /\ context.globals = Top.globals
    BY <1>3 DEF Context
  <2> HIDE DEF context
  <2>3. Lexical!Binds("locals", x)
    BY <1>1, <1>6, <2>1, <2>2, OneBound
  <2>4. Lexical!Does(stmt, [op |-> "declare", var |-> x, code |-> code])
    BY <2>1, DidIsDoes
  <2> QED  BY <1>2, <1>6, <2>3, <2>4 DEF Lexical!Assign
<1> QED  BY <1>4, <1>5, <1>6

LEMMA GlobalLexical ==
  ASSUME LInv, NEW x \in Vars, Global(x)
  PROVE  Lexical!Global(x)
<1> DEFINE stmt == <<"global", x>>
<1>1. InFunction
  BY DEF Global
<1>2. Lexical!Locals = Top.locals /\ Lexical!Globals = Top.globals
  BY <1>1, InnermostBinds
<1>3. CASE x \in Top.locals
  <2>1. Lexical!Reject(stmt)
    BY <1>3, StopIsReject DEF Global
  <2> QED  BY <1>2, <1>3, <2>1 DEF Lexical!Global
<1>4. CASE x \notin Top.locals
  <2> DEFINE context == [Top EXCEPT !.globals = @ \cup {x}]
  <2>1. Did(stmt, NoCode) /\ Changed(context)
    BY <1>4 DEF Global
  <2>2. Lexical!Does(stmt, Lexical!NoCode)
    BY <2>1, DidIsDoes DEF Lexical!NoCode, NoCode
  <2>3. Top \in Context
    BY <1>1, Depth DEF LInv
  <2>4. CASE x \in Top.globals
    <3>1. Top.globals \cup {x} = Top.globals
      BY <2>4
    <3>2. context = Top
      BY <2>3, <3>1 DEF Context
    <3>3. Now' = Now
      BY <1>1, <2>1, <3>2, NothingBound
    <3> QED  BY <1>2, <1>4, <2>2, <2>4, <3>3 DEF Lexical!Global, Now
  <2>5. CASE x \notin Top.globals
    <3>1. /\ context \in Context /\ context.kind = Top.kind
          /\ context.globals = Top.globals \cup {x} /\ context.locals = Top.locals
      BY <2>3 DEF Context
    <3> HIDE DEF context
    <3>2. Lexical!Binds("globals", x)
      BY <1>1, <2>1, <2>5, <3>1, OneBound
    <3> QED  BY <1>2, <1>4, <2>2, <2>5, <3>2 DEF Lexical!Global
  <2> QED  BY <2>4, <2>5
<1> QED  BY <1>3, <1>4

LEMMA ExpressionLexical ==
  ASSUME LInv, NEW rv, Expression(rv)
  PROVE  Lexical!Expression(rv)
<1>1. InFunction
  BY DEF Expression
<1>2. CASE ~Resolves(rv)
  BY <1>1, <1>2, SameMeaning, StopIsReject DEF Expression, Lexical!Expression
<1>3. CASE Resolves(rv)
  <2>1. Did(<<"expression", rv>>, [op |-> "expression", code |-> GetCode(rv)]) /\ Changed(Top)
    BY <1>3 DEF Expression
  <2>2. Now' = Now
    BY <1>1, <2>1, NothingBound
  <2>3. Lexical!Does(<<"expression", rv>>, [op |-> "expression", code |-> GetCode(rv)])
    BY <2>1, DidIsDoes
  <2> QED  BY <1>1, <1>3, <2>2, <2>3, SameMeaning DEF Lexical!Expression, Now
<1> QED  BY <1>2, <1>3

LEMMA BreakLexical ==
  ASSUME LInv, Break
  PROVE  Lexical!Break
<1>1. InFunction
  BY DEF Break
<1>2. CASE ~Top.in_loop
  BY <1>1, <1>2, InnermostBinds, StopIsReject DEF Break, Lexical!Break
<1>3. CASE Top.in_loop
  <2>1. Did(<<"break">>, [op |-> "break"]) /\ Changed(Top)
    BY <1>3 DEF Break
  <2>2. Now' = Now
    BY <1>1, <2>1, NothingBound
  <2>3. Lexical!Does(<<"break">>, [op |-> "break"])
    BY <2>1, DidIsDoes
  <2> QED  BY <1>1, <1>3, <2>2, <2>3, InnermostBinds DEF Lexical!Break, Now
<1> QED  BY <1>2, <1>3

LEMMA OpenLexical ==
  ASSUME LInv, IInv', NEW by \in {"while", "if", "elif", "else"}, NEW rv, Open(by, rv)
  PROVE  Lexical!Open(by = "while", rv)
<1> DEFINE loop == by = "while"
           stmt == <<"open", loop, rv>>
           n == Len(Now)
           context == Inside(by)
           new == [locals |-> {}, globals |-> {}, loop |-> loop]
<1>1. InFunction
  BY DEF Open
<1>2. CASE ~Resolves(rv)
  <2>1. Lexical!Reject(stmt)
    BY <1>2, StopIsReject DEF Open
  <2> QED  BY <1>1, <1>2, <2>1, SameMeaning DEF Lexical!Open
<1>3. CASE Resolves(rv)
  <2>1. /\ Did(stmt, [op |-> "open", code |-> GetCode(rv)])
        /\ contexts' = Append(contexts, context)
    BY <1>3 DEF Open
  <2>2. Lexical!Does(stmt, [op |-> "open", code |-> GetCode(rv)])
    BY <2>1, DidIsDoes
  <2>3. /\ Now \in Seq(Block) /\ n \in Nat \ {0} /\ Len(contexts) = n + 1
        /\ contexts \in Seq(Context) /\ Top = contexts[n + 1] /\ Top \in Context
        /\ \A i \in 1..n :
             Now[i] = BlockOf(IF i = 1 THEN EmptyContext ELSE contexts[i], contexts[i + 1])
    BY <1>1, NowFacts, Depth DEF LInv, IInv, Stacks
  <2>4. BlockOf(Top, context) = new
    <3>1. /\ context.locals = Top.locals /\ context.globals = Top.globals
          /\ (context.kind = "loop") = loop
      BY <2>3 DEF Inside, Kind, Context
    <3>2. context.locals \ Top.locals = {} /\ context.globals \ Top.globals = {}
      BY <3>1
    <3> HIDE DEF context
    <3> QED  BY <3>1, <3>2 DEF BlockOf
  <2> HIDE DEF n, context
  <2>5. /\ contexts' \in Seq(Context) /\ Len(contexts') = n + 2
        /\ contexts'[n + 2] = context
        /\ \A i \in 1..(n + 1) : contexts'[i] = contexts[i]
    <3>1. contexts' \in Seq(Context)
      BY DEF IInv, Stacks
    <3> QED  BY <2>1, <2>3, <3>1
  <2>6. /\ Now' \in Seq(Block) /\ Len(Now') = n + 1
        /\ \A i \in 1..(n + 1) :
             Now'[i] = BlockOf(IF i = 1 THEN EmptyContext ELSE contexts'[i], contexts'[i + 1])
    <3>1. Len(contexts') > 0 /\ Len(contexts') - 1 = n + 1
      BY <2>3, <2>5
    <3> QED  BY <2>5, <3>1, BlocksFacts, NowIs
  <2>7. Now'[n + 1] = new
    <3>1. n + 1 \in 1..(n + 1) /\ n + 1 # 1 /\ (n + 1) + 1 = n + 2
      BY <2>3
    <3> QED  BY <2>3, <2>4, <2>5, <2>6, <3>1
  <2>8. ASSUME NEW i \in 1..n
        PROVE  Now'[i] = Now[i]
    <3>1. i \in 1..(n + 1) /\ i + 1 \in 1..(n + 1)
      BY <2>3
    <3> QED  BY <2>3, <2>5, <2>6, <3>1
  <2>9. Now' = Append(Now, new)
    <3>1. new \in Block
      BY DEF Block
    <3> HIDE DEF new
    <3>2. Append(Now, new) \in Seq(Block) /\ Len(Append(Now, new)) = n + 1
      BY <2>3, <3>1 DEF n
    <3>3. \A i \in 1..(n + 1) : Append(Now, new)[i] = Now'[i]
      BY <2>3, <2>7, <2>8 DEF n
    <3> QED  BY <2>6, <3>2, <3>3
  <2> QED  BY <1>1, <1>3, <2>2, <2>9, SameMeaning DEF Lexical!Open, Now
<1> QED  BY <1>2, <1>3

(* The end of a block, of the outermost one of a function too. *)
LEMMA ClosingLexical ==
  ASSUME LInv, IInv', InFunction, Did(<<"close">>, [op |-> "close"]),
         Len(contexts') = Len(contexts) - 1,
         \A i \in 2..(Len(contexts) - 1) : contexts'[i] = contexts[i]
  PROVE  Lexical!Close
<1> DEFINE n == Len(Now)
<1>1. /\ Now \in Seq(Block) /\ n \in Nat \ {0} /\ Len(contexts) = n + 1
      /\ \A i \in 1..n :
           Now[i] = BlockOf(IF i = 1 THEN EmptyContext ELSE contexts[i], contexts[i + 1])
  BY NowFacts
<1> HIDE DEF n
<1>2. contexts' \in Seq(Context) /\ Len(contexts') = n
  <2>1. contexts' \in Seq(Context)
    BY DEF IInv, Stacks
  <2> QED  BY <1>1, <2>1
<1>3. /\ Now' \in Seq(Block) /\ Len(Now') = n - 1
      /\ \A i \in 1..(n - 1) :
           Now'[i] = BlockOf(IF i = 1 THEN EmptyContext ELSE contexts'[i], contexts'[i + 1])
  <2>1. Len(contexts') > 0 /\ Len(contexts') - 1 = n - 1
    BY <1>1, <1>2
  <2> QED  BY <1>2, <2>1, BlocksFacts, NowIs
<1>4. ASSUME NEW i \in 1..(n - 1)
      PROVE  Now'[i] = Now[i]
  <2>1. i \in 1..n /\ i + 1 \in 2..(Len(contexts) - 1) /\ (i # 1 => i \in 2..(Len(contexts) - 1))
    BY <1>1
  <2> QED  BY <1>1, <1>3, <2>1
<1>5. Now' = SubSeq(Now, 1, n - 1)
  <2>1. SubSeq(Now, 1, n - 1) \in Seq(Block) /\ Len(SubSeq(Now, 1, n - 1)) = n - 1
        /\ \A i \in 1..(n - 1) : SubSeq(Now, 1, n - 1)[i] = Now[i]
    BY <1>1 DEF n
  <2> QED  BY <1>3, <1>4, <2>1
<1> QED  BY <1>5, DidIsDoes DEF Lexical!Close, Now, n

(* A function begins with one block, which binds its parameters. *)
LEMMA StartFunctionLexical ==
  ASSUME LInv, IInv', StartFunction
  PROVE  Lexical!EnterFunction
<1> DEFINE params == functions[fn_index].params
           names  == {params[i] : i \in DOMAIN params}
           context == [contexts[1] EXCEPT !.locals = @ \cup names]
<1>1. /\ Len(contexts) = 1 /\ fn_index \in DOMAIN functions /\ contexts' = <<context, context>>
      /\ last' = last /\ status' = status
  BY DEF StartFunction
<1>2. /\ contexts[1] \in Context /\ contexts[1].locals = {} /\ contexts[1].globals = {}
      /\ contexts[1].kind = "plain" /\ contexts \in Seq(Context)
  BY <1>1 DEF LInv, IInv, Stacks, Base
<1>3. Now = <<>>
  BY <1>1, <1>2, NoBlocks, NowIs
<1>4. /\ context.locals = names /\ context.globals = {} /\ context.kind = "plain"
  BY <1>2 DEF Context
<1> HIDE DEF context
<1>5. /\ contexts' \in Seq(Context) /\ Len(contexts') = 2 /\ contexts'[2] = context
  BY <1>1 DEF IInv, Stacks
<1>6. /\ Now' \in Seq(Block) /\ Len(Now') = 1
      /\ Now'[1] = BlockOf(EmptyContext, context)
  <2>1. Len(contexts') > 0 /\ Len(contexts') - 1 = 1 /\ 1 \in 1..1 /\ 1 + 1 = 2
    BY <1>5
  <2> QED  BY <1>5, <2>1, BlocksFacts, NowIs
<1>7. BlockOf(EmptyContext, context) = [locals |-> names, globals |-> {}, loop |-> FALSE]
  <2>1. context.locals \ {} = names /\ context.globals \ {} = {}
    BY <1>4
  <2> QED  BY <1>4, <2>1 DEF BlockOf, EmptyContext
<1>8. Now' = <<[locals |-> names, globals |-> {}, loop |-> FALSE]>>
  BY <1>6, <1>7
<1>9. names \in {{fn.params[i] : i \in DOMAIN fn.params} :
                   fn \in UNION {{p[i] : i \in DOMAIN p} : p \in Programs}}
  <2>1. functions \in Programs
    BY DEF LInv, IInv, CallsKnown
  <2> QED  BY <1>1, <2>1
<1> HIDE DEF names
<1> QED  BY <1>1, <1>3, <1>8, <1>9 DEF Lexical!EnterFunction, Now

(* Outside the functions nothing is said of blocks. *)
LEMMA OutsideLexical ==
  ASSUME LInv, Len(contexts) = 1, contexts' = contexts, last' = last
  PROVE  Lexical!Outside
<1>1. contexts \in Seq(Context)
  BY DEF LInv, IInv, Stacks
<1>2. Now = <<>> /\ Now' = Now
  BY <1>1, NoBlocks, NowIs
<1> QED  BY <1>2 DEF Lexical!Outside, Now

-----------------------------------------------------------------------------
(* The evaluators implement LexicalScopes *)

LEMMA InitLexical == Init => LInv /\ Lexical!Init
<1> SUFFICES ASSUME Init PROVE LInv /\ Lexical!Init
  OBVIOUS
<1>1. contexts = <<EmptyContext>> /\ last = [stmt |-> <<>>, code |-> NoCode]
      /\ status = "running" /\ scopes = <<>>
  BY DEF Init, CppInit
<1>2. EmptyContext \in Context /\ EmptyContext.kind = "plain"
  BY DEF EmptyContext, Context
<1>3. contexts \in Seq(Context) /\ Len(contexts) = 1 /\ contexts[1] = EmptyContext
  BY <1>1, <1>2
<1>4. IInv
  BY InitHolds
<1>5. GlobalsGrow /\ LoopBlocks
  BY <1>1, <1>3 DEF GlobalsGrow, LoopBlocks
<1>6. Now = <<>>
  BY <1>3, NoBlocks, NowIs
<1> QED  BY <1>1, <1>2, <1>3, <1>4, <1>5, <1>6 DEF LInv, Lexical!Init, Now, Lexical!NoCode, NoCode

(* Every statement: of the invariant and of the step at once. *)
LEMMA StatementLexical ==
  ASSUME LInv, IInv', Statement
  PROVE  LInv' /\ Lexical!Statement /\ status = "running" /\ UNCHANGED functions
<1> DEFINE Right(lexical) == /\ LInv' /\ lexical /\ InFunction /\ UNCHANGED functions
<1>1. ASSUME NEW rv \in RValues, NEW x \in Vars, Assign(x, rv)
      PROVE  Right(Lexical!Assign(x, rv))
  <2>1. InFunction
    BY <1>1 DEF Assign
  <2>2. UNCHANGED functions
    BY <1>1 DEF Assign, Stop, Did
  <2>3. \/ contexts' = contexts
        \/ Changed(Top)
        \/ Changed([Top EXCEPT !.locals = @ \cup {x}])
    BY <1>1 DEF Assign, Stop
  <2>4. Top \in Context
    BY <2>1, Depth DEF LInv
  <2> DEFINE context == [Top EXCEPT !.locals = @ \cup {x}]
  <2>5. /\ context \in Context /\ context.in_loop = Top.in_loop /\ context.kind = Top.kind
        /\ context.globals = Top.globals
    BY <2>4 DEF Context
  <2>6. Changed(Top) => contexts' = contexts
    BY <2>1, ChangedTop DEF LInv
  <2> HIDE DEF context
  <2>7. Changed(context) => LInv'
    BY <2>1, <2>5, BindingKeeps
  <2>8. LInv'
    BY <2>3, <2>6, <2>7, SameKeep DEF context
  <2> QED  BY <1>1, <2>1, <2>2, <2>8, AssignLexical
<1>2. ASSUME NEW rv \in RValues, Expression(rv)
      PROVE  Right(Lexical!Expression(rv))
  <2>1. InFunction /\ UNCHANGED functions
    BY <1>2 DEF Expression, Stop, Did
  <2>2. contexts' = contexts
    BY <1>2, <2>1, ChangedTop DEF LInv, Expression, Stop
  <2> QED  BY <1>2, <2>1, <2>2, SameKeep, ExpressionLexical
<1>3. ASSUME NEW rv \in RValues, NEW by \in {"while", "if", "elif", "else"}, Open(by, rv)
      PROVE  Right(Lexical!Open(by = "while", rv))
  <2>1. InFunction /\ UNCHANGED functions
    BY <1>3 DEF Open, Stop, Did
  <2>2. contexts' = contexts \/ contexts' = Append(contexts, Inside(by))
    BY <1>3 DEF Open, Stop
  <2>3. LInv'
    BY <2>1, <2>2, SameKeep, OpeningKeeps
  <2> QED  BY <1>3, <2>1, <2>3, OpenLexical
<1>4. ASSUME NEW x \in Vars, Global(x)
      PROVE  Right(Lexical!Global(x))
  <2>1. InFunction /\ UNCHANGED functions
    BY <1>4 DEF Global, Stop, Did
  <2> DEFINE context == [Top EXCEPT !.globals = @ \cup {x}]
  <2>2. contexts' = contexts \/ Changed(context)
    BY <1>4 DEF Global, Stop
  <2>3. Top \in Context
    BY <2>1, Depth DEF LInv
  <2>4. /\ context \in Context /\ context.in_loop = Top.in_loop /\ context.kind = Top.kind
        /\ Top.globals \subseteq context.globals
    BY <2>3 DEF Context
  <2> HIDE DEF context
  <2>5. LInv'
    BY <2>1, <2>2, <2>4, SameKeep, BindingKeeps
  <2> QED  BY <1>4, <2>1, <2>5, GlobalLexical
<1>5. ASSUME Break
      PROVE  Right(Lexical!Break)
  <2>1. InFunction /\ UNCHANGED functions
    BY <1>5 DEF Break, Stop, Did
  <2>2. contexts' = contexts
    BY <1>5, <2>1, ChangedTop DEF LInv, Break, Stop
  <2> QED  BY <1>5, <2>1, <2>2, SameKeep, BreakLexical
<1>6. ASSUME Close
      PROVE  Right(Lexical!Close)
  <2>1. /\ InFunction /\ UNCHANGED functions /\ Did(<<"close">>, [op |-> "close"])
        /\ contexts' = SubSeq(contexts, 1, Len(contexts) - 1) /\ Len(contexts) > 1
    BY <1>6 DEF Close, Did, Around, InFunction
  <2>2. /\ Len(contexts') = Len(contexts) - 1
        /\ \A i \in 2..(Len(contexts) - 1) : contexts'[i] = contexts[i]
    BY <2>1 DEF LInv, IInv, Stacks
  <2> QED  BY <2>1, <2>2, ClosingKeeps, ClosingLexical
<1>7. InFunction => Now # <<>> /\ status = "running"
  BY NowFacts DEF InFunction
<1>8. \A by : (by = "while") \in BOOLEAN
  OBVIOUS
<1> QED  BY <1>1, <1>2, <1>3, <1>4, <1>5, <1>6, <1>7, <1>8 DEF Statement, Lexical!Statement, Now

(* Each step of the compiler is a step of LexicalScopes. *)
LEMMA NextLexical == LInv /\ [Next]_vars => LInv' /\ [Lexical!Next]_(Lexical!vars)
<1> SUFFICES ASSUME LInv, [Next]_vars PROVE LInv' /\ [Lexical!Next]_(Lexical!vars)
  OBVIOUS
<1>1. IInv'
  BY NextKeeps DEF LInv
<1>2. ASSUME UNCHANGED functions
      PROVE  (Dictionary \cup Builtins)' = Dictionary \cup Builtins
  BY <1>2 DEF Dictionary
<1>3. CASE Start \/ Finish
  <2>1. /\ status = "running" /\ UNCHANGED <<functions, contexts, last>>
    BY <1>3 DEF Start, Finish
  <2>2. Len(contexts) = 1
    <3>1. CASE Finish
      BY <3>1 DEF Finish
    <3>2. CASE Start
      <4>1. fn_index = 0
        BY <3>2 DEF Start
      <4>2. 0 \notin DOMAIN functions
        BY ProgramsAssumption DEF LInv, IInv, CallsKnown
      <4>3. Len(contexts) \in Nat /\ Len(contexts) >= 1 /\ ~(Len(contexts) > 1)
        BY <4>1, <4>2, DepthAssumption DEF LInv, IInv, CallsKnown, Stacks
      <4> QED  BY <4>3
    <3> QED  BY <1>3, <3>1, <3>2
  <2>3. LInv'
    BY <1>1, <2>1, SameKeep
  <2>4. Lexical!Outside
    BY <2>1, <2>2, OutsideLexical
  <2> QED  BY <1>2, <2>1, <2>3, <2>4 DEF Lexical!Next
<1>4. CASE StartFunction
  <2>1. LInv'
    BY <1>1, <1>4, FunctionKeeps
  <2>2. Lexical!EnterFunction /\ status = "running" /\ UNCHANGED functions
    BY <1>1, <1>4, StartFunctionLexical DEF StartFunction
  <2> QED  BY <1>2, <2>1, <2>2 DEF Lexical!Next
<1>5. CASE Statement /\ UNCHANGED <<fn_index, main_args>>
  BY <1>1, <1>2, <1>5, StatementLexical DEF Lexical!Next
<1>6. CASE EndFunction
  <2>1. /\ InFunction /\ UNCHANGED functions /\ Did(<<"close">>, [op |-> "close"])
        /\ contexts' = <<[contexts[1] EXCEPT !.locals = {}]>> /\ Len(contexts) = 2
    BY <1>6 DEF EndFunction, Did
  <2>2. /\ Len(contexts') = Len(contexts) - 1
        /\ \A i \in 2..(Len(contexts) - 1) : contexts'[i] = contexts[i]
    BY <2>1
  <2>3. Lexical!Close
    BY <1>1, <2>1, <2>2, ClosingLexical
  <2>4. Now # <<>> /\ status = "running"
    BY <2>1, NowFacts DEF InFunction
  <2>5. LInv'
    BY <1>1, <1>6, FunctionKeeps
  <2>6. Lexical!Statement
    BY <2>3, <2>4 DEF Lexical!Statement, Now
  <2> QED  BY <1>2, <2>1, <2>4, <2>5, <2>6 DEF Lexical!Next
<1>7. CASE UNCHANGED vars
  <2>1. UNCHANGED <<functions, contexts, last, status>>
    BY <1>7 DEF vars, evaluator
  <2>2. Now' = Now
    BY <2>1, NowIs
  <2>3. LInv'
    BY <1>1, <2>1, SameKeep
  <2> QED  BY <1>2, <2>1, <2>2, <2>3 DEF Lexical!vars, Now
<1> QED  BY <1>3, <1>4, <1>5, <1>6, <1>7 DEF Next

(* The contexts that evaluators copy from block to block are lexical        *)
(* scoping: every statement is accepted, rejected and translated as         *)
(* LexicalScopes says, whatever the programs and the depth of blocks.       *)
THEOREM ContextsAreScopes == Spec => ScopesAreLexical
<1>1. Init => LInv /\ Lexical!Init
  BY InitLexical
<1>2. LInv /\ [Next]_vars => LInv' /\ [Lexical!Next]_(Lexical!vars)
  BY NextLexical
<1> QED  BY <1>1, <1>2, PTL DEF Spec, ScopesAreLexical, Lexical!Spec
=============================================================================
