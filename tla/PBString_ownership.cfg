\* Three objects sharing three blocks; the program stops when malloc fails.
CONSTANTS
  Slots = {s1, s2, s3}
  Blocks = {b1, b2, b3}
  None = None
  Char = {0, 1, 2}
  Literals <- MCLiterals
  TrueLit <- MCTrueLit
  FalseLit <- MCFalseLit
  SizeText <- MCBaseTwo
  SmallMax = 1
  MaxLen = 3
  StaticSizeLimit = 3
  SizeBuffer = 4
SPECIFICATION Spec
SYMMETRY Symmetry
INVARIANTS TypeOK RefsExact HandlesInBounds JoinShape EqualUnlessSkewed
CHECK_DEADLOCK FALSE
