\* Three objects and one block; the program stops when malloc fails.
CONSTANTS
  Slots = {s1, s2, s3}
  Blocks = {b1}
  None = None
  Char = {0, 1, 2}
  Literals <- MCLiterals
  TrueLit <- MCTrueLit
  FalseLit <- MCFalseLit
  SizeText <- MCBaseTwo
  SmallMax = 1
  MaxLen = 3
  StaticSizeLimit = 3
  SizeBuffer = 4
SPECIFICATION Spec
SYMMETRY Symmetry
CHECK_DEADLOCK FALSE
PROPERTIES StringsAreValues
