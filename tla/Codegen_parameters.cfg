\* The same programs; one of them names two parameters of a function alike.
CONSTANTS
  Vars <- MCVars
  RValues <- MCRValues
  Builtins <- MCBuiltins
  Programs <- MCPrograms
  Main = "Main"
  MaxDepth = 2
SPECIFICATION Spec
INVARIANTS CompilesToCpp
CHECK_DEADLOCK FALSE
