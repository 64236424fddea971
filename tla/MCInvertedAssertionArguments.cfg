CONSTANTS
  Shapes <- MCShapes
  MaxDepth = 3
  MaxCalls = 4
SPECIFICATION Spec
INVARIANTS
  TypeOK
  ReportsInvertedAssertionsInTests
\* The traversal ends once MaxCalls calls were entered and all were left.
CHECK_DEADLOCK FALSE
