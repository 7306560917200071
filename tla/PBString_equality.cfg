\* Three small objects, enough for two joins split at different places.
CONSTANTS
  Slots = {s1, s2, s3}
  Blocks = {b1}
  None = None
  Char = {0, 1, 2}
  Literals <- MCDoubled
  TrueLit <- MCTrueLit
  FalseLit <- MCFalseLit
  SizeText <- MCBaseTwo
  SmallMax = 1
  MaxLen = 4
  StaticSizeLimit = 5
  SizeBuffer = 4
SPECIFICATION Spec
SYMMETRY Symmetry
CHECK_DEADLOCK FALSE
INVARIANTS EqualComparesContents
