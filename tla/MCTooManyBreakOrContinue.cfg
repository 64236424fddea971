CONSTANTS
  Labels <- MCLabels
  NoLabel = NoLabel
  MaxDepth = 5
  MaxJumps = 3
  MaxStmts = 2
SPECIFICATION Spec
INVARIANTS
  TypeOK
  LoopJumpsCounted
\* ESLint's traversal ends when the Program node is left.
CHECK_DEADLOCK FALSE
