\* size_t of two bytes: sizes of the table, and beyond it printed ones.
CONSTANTS
  Width = 2
  Sizes <- EdgeSizes
  Texts <- LongTexts
  Other = Other
  Length = 65535
SPECIFICATION Spec
INVARIANTS WritesDecimal ReadsExactly RoundTrip
CHECK_DEADLOCK FALSE
