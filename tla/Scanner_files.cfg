\* Every file of up to six characters of words, or of strings and comments.
CONSTANTS
  Lower <- MCLower
  Upper <- MCUpper
  Symbols <- MCSymbols
  Keywords <- MCKeywords
  Junk <- MCJunk
  Alphabets <- MCAlphabets
  MaxLen = 6
SPECIFICATION Spec
INVARIANTS NothingLost WholeWords LinesExact
PROPERTIES EveryTokenMovesOn
CHECK_DEADLOCK FALSE
