------------------------------ MODULE CppProgram ------------------------------
(***************************************************************************)
(* The generated program as a C++ compiler reads it: the scopes it has     *)
(* open, what has been declared, and the rules the program has broken so   *)
(* far.  A local variable x is x_local_poiboivar in that program, a global *)
(* one x_global_poiboivar, so the two never clash.                         *)
(***************************************************************************)
EXTENDS Naturals, Sequences, FiniteSets

VARIABLES
  scopes,      \* open scopes of the function being read, the innermost last
  declared,    \* the functions declared: pairs of a name and a number of arguments
  used,        \* the global variables used so far
  cpp_errors   \* the rules broken so far

cpp == <<scopes, declared, used, cpp_errors>>

CppInit == scopes = <<>> /\ declared = {} /\ used = {} /\ cpp_errors = {}

Broken(rule, holds) == IF holds THEN {} ELSE {rule}

InScope == UNION {scopes[i].vars : i \in DOMAIN scopes}

(* What an expression needs; code is [locals, globals, calls].  Its string  *)
(* literals are left out: RValueEvaluator::GetCode puts the text between    *)
(* the quotes into the C++ as it stands, so one over several lines, or with *)
(* an escape C++ does not have, breaks a rule no error here stands for.     *)
ExpressionErrors(code) ==
  Broken("undeclared variable", code.locals \subseteq InScope)
    \cup Broken("undeclared function", code.calls \subseteq declared)

CppExpression(code) ==
  /\ cpp_errors' = cpp_errors \cup ExpressionErrors(code)
  /\ used' = used \cup code.globals
  /\ UNCHANGED <<scopes, declared>>

(* PBString x = ...: x is in scope in its own initializer, without a value. *)
CppDeclare(x, code) ==
  LET n == Len(scopes)
  IN  /\ cpp_errors' = cpp_errors \cup ExpressionErrors(code)
           \cup Broken("variable redefined", x \notin scopes[n].vars)
           \cup Broken("variable used in its initializer", x \notin code.locals)
      /\ scopes' = [scopes EXCEPT ![n].vars = @ \cup {x}]
      /\ used' = used \cup code.globals
      /\ UNCHANGED declared

CppAssignLocal(x, code) == CppExpression([code EXCEPT !.locals = @ \cup {x}])

CppAssignGlobal(x, code) == CppExpression([code EXCEPT !.globals = @ \cup {x}])

CppOpen(loop, code) ==
  /\ cpp_errors' = cpp_errors \cup ExpressionErrors(code)
  /\ scopes' = Append(scopes, [vars |-> {}, loop |-> loop])
  /\ used' = used \cup code.globals
  /\ UNCHANGED declared

CppClose == scopes' = SubSeq(scopes, 1, Len(scopes) - 1)
            /\ UNCHANGED <<declared, used, cpp_errors>>

CppBreak ==
  /\ cpp_errors' = cpp_errors \cup
       Broken("break outside a loop", \E i \in DOMAIN scopes : scopes[i].loop)
  /\ UNCHANGED <<scopes, declared, used>>

(* Parameters share the scope of the function's outermost block. *)
CppFunction(params) ==
  /\ scopes' = <<[vars |-> {params[i] : i \in DOMAIN params}, loop |-> FALSE]>>
  /\ cpp_errors' = cpp_errors \cup
       Broken("parameter redefined", \A i, j \in DOMAIN params : params[i] = params[j] => i = j)
  /\ UNCHANGED <<declared, used>>

CppDeclareFunctions(functions) ==
  /\ declared' = declared \cup functions
  /\ UNCHANGED <<scopes, used, cpp_errors>>

(* The definitions of the global variables, and main. *)
CppEnd(globals, call) ==
  /\ cpp_errors' = cpp_errors \cup Broken("undeclared global variable", used \subseteq globals)
                             \cup Broken("undeclared function", call \in declared)
  /\ UNCHANGED <<scopes, declared, used>>
=============================================================================
