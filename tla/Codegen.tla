-------------------------------- MODULE Codegen --------------------------------
(***************************************************************************)
(* GenerateCode (cc_src/codegen.cc): the functions of all modules are      *)
(* compiled one after the other with one CompilationContext, into a single *)
(* C++ program.                                                            *)
(***************************************************************************)
EXTENDS Evaluator

CONSTANTS
  Programs,  \* the lists of functions to compile: sequences of [name, params]
  Main       \* the name of the main function

(* A function's parameters are variable names; a block can be opened. *)
ASSUME ProgramsAssumption ==
  \A p \in Programs :
    /\ Len(p) \in Nat /\ DOMAIN p = 1..Len(p)
    /\ \A i \in DOMAIN p : p[i].params \in Seq(Vars)

ASSUME DepthAssumption == MaxDepth \in Nat \ {0}

VARIABLES
  fn_index,  \* the function being compiled, 0 before the first
  main_args  \* num_main_args

vars == <<evaluator, cpp, fn_index, main_args>>

-----------------------------------------------------------------------------
Init ==
  /\ functions \in Programs
  /\ contexts = <<EmptyContext>>
  /\ all_global_variables = {}
  /\ chain = FALSE
  /\ last = [stmt |-> <<>>, code |-> NoCode]
  /\ status = "running"
  /\ fn_index = 0 /\ main_args = 0
  /\ CppInit

Names == {functions[i].name : i \in DOMAIN functions}

DefinedTwice == Cardinality(Names) # Len(functions)

MainArgs == LET i == CHOOSE i \in DOMAIN functions : functions[i].name = Main
            IN  Len(functions[i].params)

(* Faulty: Main may have any number of parameters. *)
BugRefused == DefinedTwice \/ Main \notin Names

(* GetFunctionsDict fails, or there is no Main, or it has two parameters. *)
Refused == DefinedTwice \/ Main \notin Names \/ MainArgs > 1

(* The checks before any code: no function at all is a program without      *)
(* code.  The code starts with the runtime and a declaration of every       *)
(* function.                                                                *)
Start ==
  /\ status = "running" /\ fn_index = 0
  /\ IF functions = <<>>
       THEN status' = "success" /\ UNCHANGED <<fn_index, main_args, cpp>>
     ELSE IF Refused
       THEN status' = "failure" /\ UNCHANGED <<fn_index, main_args, cpp>>
     ELSE /\ fn_index' = 1
          /\ main_args' = MainArgs
          /\ CppDeclareFunctions(Dictionary \cup Builtins)
          /\ UNCHANGED status
  /\ UNCHANGED <<functions, contexts, all_global_variables, chain, last>>

(* GetFunctionDefinition, up to the block of the function: the parameters   *)
(* enter the context that goes from function to function, the block gets a  *)
(* copy.                                                                    *)
StartFunction ==
  /\ status = "running" /\ Len(contexts) = 1 /\ fn_index \in DOMAIN functions
  /\ LET params  == functions[fn_index].params
         context == [contexts[1] EXCEPT !.locals = @ \cup {params[i] : i \in DOMAIN params}]
     IN  contexts' = <<context, context>> /\ CppFunction(params)
  /\ chain' = FALSE
  /\ UNCHANGED <<functions, all_global_variables, last, status, fn_index, main_args>>

(* Faulty: the local variables of a function are left to the next. *)
BugEndFunction ==
  /\ InFunction /\ Len(contexts) = 2
  /\ contexts' = SubSeq(contexts, 1, 1)
  /\ CppClose
  /\ Did(<<"close">>, [op |-> "close"])
  /\ fn_index' = fn_index + 1
  /\ UNCHANGED <<all_global_variables, chain, main_args>>

(* ... and after the block: it returns the empty string, and the local      *)
(* variables are forgotten.                                                 *)
EndFunction ==
  /\ InFunction /\ Len(contexts) = 2
  /\ contexts' = <<[contexts[1] EXCEPT !.locals = {}]>>
  /\ CppClose
  /\ Did(<<"close">>, [op |-> "close"])
  /\ fn_index' = fn_index + 1
  /\ UNCHANGED <<all_global_variables, chain, main_args>>

(* The definitions of all global variables, and a main that calls Main. *)
Finish ==
  /\ status = "running" /\ Len(contexts) = 1 /\ fn_index = Len(functions) + 1
  /\ fn_index > 1
  /\ CppEnd(all_global_variables, <<Main, IF main_args = 0 THEN 0 ELSE 1>>)
  /\ status' = "success"
  /\ UNCHANGED <<functions, contexts, all_global_variables, chain, last, fn_index, main_args>>

Next ==
  \/ Start
  \/ StartFunction
  \/ Statement /\ UNCHANGED <<fn_index, main_args>>
  \/ EndFunction
  \/ Finish

Spec == Init /\ [][Next]_vars

-----------------------------------------------------------------------------
(* Properties *)

Context == [locals : SUBSET Vars, globals : SUBSET Vars, in_loop : BOOLEAN,
            kind : {"plain", "loop", "branch"}]

TypeOK ==
  /\ functions \in Programs
  /\ contexts \in Seq(Context) /\ Len(contexts) \in 1..(MaxDepth + 1)
  /\ all_global_variables \subseteq Vars
  /\ chain \in BOOLEAN
  /\ status \in {"running", "success", "failure", "aborted"}
  /\ fn_index \in 0..(Len(functions) + 1)
  /\ main_args \in 0..1

(* What the compiler accepts follows the rules of C++ on scopes,            *)
(* declarations, calls and loops, up to one that nothing checks: a function *)
(* may name two of its parameters alike.  Variables are declared before     *)
(* they are used and once in their scope, never used in their own           *)
(* initializer, globals defined for all functions, calls match a            *)
(* declaration, BREAK is in a loop: whatever the blocks, and whatever was   *)
(* compiled before in the same CompilationContext.  Of literals this says   *)
(* nothing (CppExpression).                                                 *)
CppFollowsRules == cpp_errors \subseteq {"parameter redefined"}

(* No variable hides another: an assignment in a block to a variable from   *)
(* around it never declares a second one, which C++ would accept.           *)
NoShadowing ==
  \A i, j \in DOMAIN scopes : i # j => scopes[i].vars \cap scopes[j].vars = {}

(* No name is both a local and a global variable, so the order in which     *)
(* RValueEvaluator and VariableAssignmentEvaluator ask does not matter and  *)
(* the assertion of the latter (evaluator.cc:80) holds.                     *)
OneMeaning ==
  /\ status # "aborted"
  /\ \A i \in DOMAIN contexts : contexts[i].locals \cap contexts[i].globals = {}

(* Contexts copied from block to block are lexical scoping: what a context  *)
(* has more than the one around it, its block has bound.  Every statement   *)
(* is accepted, rejected and translated as LexicalScopes says.              *)
OfBlock(i, names(_)) ==
  names(contexts[i + 1]) \ (IF i = 1 THEN {} ELSE names(contexts[i]))

Lexical == INSTANCE LexicalScopes WITH
  Lists <- {{fn.params[i] : i \in DOMAIN fn.params} :
              fn \in UNION {{p[i] : i \in DOMAIN p} : p \in Programs}},
  callable <- Dictionary \cup Builtins,
  blocks <- [i \in 1..(Len(contexts) - 1) |->
               [locals  |-> OfBlock(i, LAMBDA c : c.locals),
                globals |-> OfBlock(i, LAMBDA c : c.globals),
                loop    |-> contexts[i + 1].kind = "loop"]]

ScopesAreLexical == Lexical!Spec

(* README:6: "Compile-able to C++". *)
CompilesToCpp == cpp_errors = {}
=============================================================================
