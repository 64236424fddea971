CONSTANTS
  Expr <- CycleExpr
  Programs <- CyclePrograms
  Unparsable <- MCUnparsable
  NoWrite = NoWrite
  Bounds <- MCBounds
  StackLimit = 8
  Thresholds <- MCThresholds

SPECIFICATION LiveSpec

PROPERTY CheckReturns

\* A RangeError out of findRegexParts ends the rule's Program:exit.
CHECK_DEADLOCK FALSE
