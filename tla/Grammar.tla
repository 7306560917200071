-------------------------------- MODULE Grammar --------------------------------
(***************************************************************************)
(* The PoiBoi grammar (cc_src/grammar.cc): what each piece may expand to,  *)
(* down to tokens, and the derivations this allows, the reference the      *)
(* parser is compared with.                                                *)
(***************************************************************************)
EXTENDS Sequences

(* GrammarLabel: tokens, then pieces that expand. *)
Tokens ==
  {"OPEN_CODE_BLOCK", "CLOSE_CODE_BLOCK", "END_STATEMENT", "OPEN_FUNCTION_CALL",
   "CLOSE_FUNCTION_CALL", "ARGUMENT_LIST_SEPARATOR", "OPEN_CONDITIONAL_BLOCK",
   "CLOSE_CONDITIONAL_BLOCK", "ASSIGNER", "KEYWORD_GLOBAL", "KEYWORD_WHILE",
   "KEYWORD_IF", "KEYWORD_ELSE", "KEYWORD_ELIF", "KEYWORD_RETURN", "KEYWORD_BREAK",
   "QUOTED_STRING", "VARIABLE", "BUILTIN", "FUNCTION_NAME", "END_OF_FILE"}

Expandable ==
  {"MODULE", "FUNCTION_DEFINITION", "VARIABLES_LIST", "VARIABLES_LIST_EXPANSION",
   "CODE_BLOCK", "STATEMENT_LIST", "STATEMENT", "VARIABLE_ASSIGNMENT",
   "GLOBAL_DECLARATION", "FUNCTION_CALL", "CONDITIONAL_EVALUATOR", "ELSE_STATEMENT",
   "RVALUE", "RVALUE_LIST", "RVALUE_LIST_EXPANSION"}

Labels == Tokens \cup Expandable

IsToken(label) == label \in Tokens

(* Faulty: a module may end without END_OF_FILE. *)
BugModuleDescendents == {<<>>, <<"FUNCTION_DEFINITION", "MODULE">>}

ModuleDescendents == {<<"END_OF_FILE">>, <<"FUNCTION_DEFINITION", "MODULE">>}

(* GetDescendents: the expansions of a piece; <<>> is the empty one. *)
GetDescendents(label) ==
  CASE label = "MODULE" -> ModuleDescendents
    [] label = "FUNCTION_DEFINITION" ->
         {<<"FUNCTION_NAME", "OPEN_FUNCTION_CALL", "VARIABLES_LIST", "CLOSE_FUNCTION_CALL",
            "CODE_BLOCK">>}
    [] label = "VARIABLES_LIST" ->
         {<<"VARIABLE", "VARIABLES_LIST_EXPANSION">>, <<>>}
    [] label = "VARIABLES_LIST_EXPANSION" ->
         {<<"ARGUMENT_LIST_SEPARATOR", "VARIABLE", "VARIABLES_LIST_EXPANSION">>, <<>>}
    [] label = "CODE_BLOCK" ->
         {<<"OPEN_CODE_BLOCK", "STATEMENT_LIST", "CLOSE_CODE_BLOCK">>}
    [] label = "STATEMENT_LIST" ->
         {<<"STATEMENT", "STATEMENT_LIST">>, <<>>}
    [] label = "STATEMENT" ->
         {<<"VARIABLE_ASSIGNMENT", "END_STATEMENT">>,
          <<"GLOBAL_DECLARATION", "END_STATEMENT">>,
          <<"FUNCTION_CALL", "END_STATEMENT">>,
          <<"KEYWORD_WHILE", "CONDITIONAL_EVALUATOR", "CODE_BLOCK">>,
          <<"KEYWORD_IF", "CONDITIONAL_EVALUATOR", "CODE_BLOCK", "ELSE_STATEMENT">>,
          <<"KEYWORD_RETURN", "RVALUE", "END_STATEMENT">>,
          <<"KEYWORD_BREAK", "END_STATEMENT">>}
    [] label = "VARIABLE_ASSIGNMENT" -> {<<"VARIABLE", "ASSIGNER", "RVALUE">>}
    [] label = "GLOBAL_DECLARATION" -> {<<"KEYWORD_GLOBAL", "VARIABLE">>}
    [] label = "FUNCTION_CALL" ->
         {<<"FUNCTION_NAME", "OPEN_FUNCTION_CALL", "RVALUE_LIST", "CLOSE_FUNCTION_CALL">>,
          <<"BUILTIN", "OPEN_FUNCTION_CALL", "RVALUE_LIST", "CLOSE_FUNCTION_CALL">>}
    [] label = "CONDITIONAL_EVALUATOR" ->
         {<<"OPEN_CONDITIONAL_BLOCK", "RVALUE", "CLOSE_CONDITIONAL_BLOCK">>}
    [] label = "ELSE_STATEMENT" ->
         {<<"KEYWORD_ELSE", "CODE_BLOCK">>,
          <<"KEYWORD_ELIF", "CONDITIONAL_EVALUATOR", "CODE_BLOCK", "ELSE_STATEMENT">>,
          <<>>}
    [] label = "RVALUE" -> {<<"QUOTED_STRING">>, <<"VARIABLE">>, <<"FUNCTION_CALL">>}
    [] label = "RVALUE_LIST" -> {<<"RVALUE", "RVALUE_LIST_EXPANSION">>, <<>>}
    [] label = "RVALUE_LIST_EXPANSION" ->
         {<<"ARGUMENT_LIST_SEPARATOR", "RVALUE", "RVALUE_LIST_EXPANSION">>, <<>>}

-----------------------------------------------------------------------------
(* Leftmost derivations *)

(* What a list of pieces can become when its first piece is expanded, by    *)
(* any of its expansions, until a token leads or nothing is left.           *)
Derived[program \in Seq(Labels)] ==
  IF program = <<>> \/ IsToken(Head(program)) THEN {program}
  ELSE UNION {Derived[d \o Tail(program)] : d \in GetDescendents(Head(program))}

(* The programs of a set that can go on with a token. *)
LedBy(programs, token) ==
  {p \in UNION {Derived[program] : program \in programs} : p # <<>> /\ Head(p) = token}
=============================================================================
