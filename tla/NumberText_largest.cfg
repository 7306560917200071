\* Sizes and texts with as many digits as the largest size.
CONSTANTS
  Width = 2
  Sizes <- EdgeSizes
  Texts <- LongTexts
  Other = Other
  Length = 65535
SPECIFICATION Spec
INVARIANT ReadsUpToMaxChars
CHECK_DEADLOCK FALSE
