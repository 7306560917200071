------------------------------- MODULE Evaluator -------------------------------
(***************************************************************************)
(* The evaluators of cc_src/evaluator.cc, which check the statements of a  *)
(* function and turn them into C++.  TryCreate goes through the statements *)
(* in the order of the text, GetCode emits their C++ in the same order, so *)
(* here one action evaluates a statement and emits it; an expression is    *)
(* what it uses: the variables and the calls that occur anywhere in it.    *)
(*                                                                         *)
(* A block is compiled in a copy of the context around it, so the contexts *)
(* of the blocks around a statement form a stack.                          *)
(***************************************************************************)
EXTENDS CppProgram

CONSTANTS
  Vars,      \* variable names
  RValues,   \* expressions: [vars : SUBSET Vars, calls : sets of <<name, number of arguments>>]
  Builtins,  \* the calls of builtins that BuiltinResolver accepts
  MaxDepth   \* bound: blocks inside each other

VARIABLES
  functions,            \* the functions of the modules, in order: [name, params]
  contexts,             \* the CompilationContext of GenerateCode, then that of each open block
  all_global_variables, \* shared by all contexts
  chain,                \* the statement just ended is the block of an IF or ELIF
  last,                 \* history: the statement evaluated last and its C++
  status                \* "running", "success", "failure" or "aborted" (an assert)

evaluator == <<functions, contexts, all_global_variables, chain, last, status>>

-----------------------------------------------------------------------------
EmptyContext == [locals |-> {}, globals |-> {}, in_loop |-> FALSE, kind |-> "plain"]

Top == contexts[Len(contexts)]

InFunction == status = "running" /\ Len(contexts) > 1

(* GetFunctionsDict, and the number of arguments of each function. *)
Dictionary == {<<functions[i].name, Len(functions[i].params)>> : i \in DOMAIN functions}

(* RValueEvaluator and FunctionCallEvaluator: the first undefined variable, *)
(* undefined function or wrong number of arguments is an error.             *)
Resolves(rv) ==
  /\ rv.vars \subseteq Top.locals \cup Top.globals
  /\ rv.calls \subseteq Dictionary \cup Builtins

(* A name that is both would be taken for the local variable. *)
GetCode(rv) == [locals |-> rv.vars \cap Top.locals, globals |-> rv.vars \ Top.locals,
                calls |-> rv.calls]

NoCode == [op |-> "none"]

Did(stmt, code) ==
  /\ last' = [stmt |-> stmt, code |-> code]
  /\ UNCHANGED <<functions, status>>

(* Compilation ends with an error. *)
Stop(stmt, result) ==
  /\ last' = [stmt |-> stmt, code |-> NoCode]
  /\ status' = result
  /\ UNCHANGED <<functions, contexts, all_global_variables, chain, cpp>>

Changed(context) ==
  /\ contexts' = [contexts EXCEPT ![Len(contexts)] = context]
  /\ chain' = FALSE

-----------------------------------------------------------------------------
(* VariableAssignmentEvaluator: the expression is resolved before the       *)
(* variable becomes defined.                                                *)
Assign(x, rv) ==
  LET stmt == <<"assign", x, rv>>
      code == GetCode(rv)
  IN  /\ InFunction
      /\ IF ~Resolves(rv) THEN Stop(stmt, "failure")
         ELSE IF x \in Top.globals
           THEN IF x \in Top.locals THEN Stop(stmt, "aborted")
                ELSE /\ CppAssignGlobal(x, code)
                     /\ Did(stmt, [op |-> "assign", var |-> x, local |-> FALSE, code |-> code])
                     /\ Changed(Top) /\ UNCHANGED all_global_variables
         ELSE IF x \in Top.locals
           THEN /\ CppAssignLocal(x, code)
                /\ Did(stmt, [op |-> "assign", var |-> x, local |-> TRUE, code |-> code])
                /\ Changed(Top) /\ UNCHANGED all_global_variables
         ELSE /\ CppDeclare(x, code)
              /\ Did(stmt, [op |-> "declare", var |-> x, code |-> code])
              /\ Changed([Top EXCEPT !.locals = @ \cup {x}])
              /\ UNCHANGED all_global_variables

(* Faulty: a local variable may be declared global. *)
BugGlobal(x) ==
  /\ InFunction
  /\ Changed([Top EXCEPT !.globals = @ \cup {x}])
  /\ all_global_variables' = all_global_variables \cup {x}
  /\ Did(<<"global", x>>, NoCode)
  /\ UNCHANGED cpp

(* GlobalDeclarationEvaluator: no code. *)
Global(x) ==
  /\ InFunction
  /\ IF x \in Top.locals THEN Stop(<<"global", x>>, "failure")
     ELSE /\ Changed([Top EXCEPT !.globals = @ \cup {x}])
          /\ all_global_variables' = all_global_variables \cup {x}
          /\ Did(<<"global", x>>, NoCode)
          /\ UNCHANGED cpp

(* A call for its effect, or RETURN. *)
Expression(rv) ==
  /\ InFunction
  /\ IF ~Resolves(rv) THEN Stop(<<"expression", rv>>, "failure")
     ELSE /\ CppExpression(GetCode(rv))
          /\ Did(<<"expression", rv>>, [op |-> "expression", code |-> GetCode(rv)])
          /\ Changed(Top) /\ UNCHANGED all_global_variables

Break ==
  /\ InFunction
  /\ IF ~Top.in_loop THEN Stop(<<"break">>, "failure")
     ELSE /\ CppBreak
          /\ Did(<<"break">>, [op |-> "break"])
          /\ Changed(Top) /\ UNCHANGED all_global_variables

(* A loop's block, one that ELIF or ELSE may follow, or any other. *)
Kind(by) == CASE by = "while" -> "loop"
              [] by \in {"if", "elif"} -> "branch"
              [] by = "else" -> "plain"

(* Faulty: a block starts without the local variables around it. *)
BugInside(by) == [Top EXCEPT !.locals = {}, !.in_loop = @ \/ by = "while", !.kind = Kind(by)]

(* The context of a block about to be compiled. *)
Inside(by) == [Top EXCEPT !.in_loop = @ \/ by = "while", !.kind = Kind(by)]

(* WHILE, IF, and behind an IF or ELIF block ELIF and ELSE: the condition   *)
(* is resolved in the context around the block, the block gets a copy.      *)
Open(by, rv) ==
  /\ InFunction /\ Len(contexts) <= MaxDepth
  /\ by \in {"elif", "else"} => chain
  /\ by = "else" => rv = [vars |-> {}, calls |-> {}]
  /\ LET loop == by = "while"
         stmt == <<"open", loop, rv>>
     IN  IF ~Resolves(rv) THEN Stop(stmt, "failure")
         ELSE /\ CppOpen(loop, GetCode(rv))
              /\ Did(stmt, [op |-> "open", code |-> GetCode(rv)])
              /\ contexts' = Append(contexts, Inside(by))
              /\ chain' = FALSE
              /\ UNCHANGED all_global_variables

(* Faulty: the context is shared with the block, not copied. *)
BugAround == [contexts EXCEPT ![Len(contexts) - 1].globals = Top.globals]

(* The contexts around the innermost block, as they were when it began. *)
Around == contexts

(* The end of a block inside the function: its context is gone. *)
Close ==
  /\ InFunction /\ Len(contexts) > 2
  /\ CppClose
  /\ Did(<<"close">>, [op |-> "close"])
  /\ contexts' = SubSeq(Around, 1, Len(contexts) - 1)
  /\ chain' = (Top.kind = "branch")
  /\ UNCHANGED all_global_variables

Statement ==
  \/ \E rv \in RValues :
       \/ \E x \in Vars : Assign(x, rv)
       \/ Expression(rv)
       \/ \E by \in {"while", "if", "elif", "else"} : Open(by, rv)
  \/ \E x \in Vars : Global(x)
  \/ Break
  \/ Close
=============================================================================
