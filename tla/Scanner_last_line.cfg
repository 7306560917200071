\* A file whose last line has no line break.
CONSTANTS
  Lower <- MCLower
  Upper <- MCUpper
  Symbols <- MCSymbols
  Keywords <- MCKeywords
  Junk <- MCJunk
  Alphabets <- MCAlphabets
  MaxLen = 4
SPECIFICATION Spec
INVARIANT OutputsAllTokens
CHECK_DEADLOCK FALSE
