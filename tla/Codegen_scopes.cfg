\* Two functions, two variable names, up to three blocks inside each other.
CONSTANTS
  Vars <- MCVars
  RValues <- MCRValues
  Builtins <- MCBuiltins
  Programs <- MCPrograms
  Main = "Main"
  MaxDepth = 3
SPECIFICATION Spec
INVARIANTS TypeOK CppFollowsRules NoShadowing OneMeaning
PROPERTIES ScopesAreLexical
CHECK_DEADLOCK FALSE
