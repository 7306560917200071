\* Calls on every pair of operands and on results; searches of every two texts.
CONSTANTS
  Minus = Minus
  Sep = Sep
  Other = Other
  Yes = Yes
  No = No
  NotANumber = NotANumber
  Operands <- SomeOperands
  Loaded <- LongTexts
  MaxExact = 20
  MaxDigits = 5
  Letters <- TwoLetters
  MaxLen = 3
SPECIFICATION Spec
INVARIANTS Exact Ordered Classified FindsFirst
PROPERTIES NoneSkipped MovesRight
CHECK_DEADLOCK FALSE
