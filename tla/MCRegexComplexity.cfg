CONSTANTS
  Expr <- MCExpr
  Programs <- MCPrograms
  Unparsable <- MCUnparsable
  NoWrite = NoWrite
  Bounds <- MCBounds
  StackLimit = 8
  Thresholds <- MCThresholds

SPECIFICATION LiveSpec

INVARIANT TypeOK
INVARIANT NestingMatchesScope
INVARIANT ComplexityMatchesSpec
INVARIANT ReportIffAboveThreshold
INVARIANT PartsCoverRegex
INVARIANT EachTargetScoredOnce
PROPERTY CheckReturns

\* checkRegexComplexity returns once every group of parts is reported on.
CHECK_DEADLOCK FALSE
