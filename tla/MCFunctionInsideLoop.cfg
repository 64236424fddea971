CONSTANTS
  v1 = v1
  Vars <- MCVars
  LoopTypes <- MCLoopTypes
  NoLoop = NoLoop
  Parents <- MCParents
  DeclKinds <- MCDeclKinds
  WritePlaces <- MCWritePlaces
SPECIFICATION Spec
INVARIANTS
  ReportsOnlyLoopVariables
\* The callback runs once per function node; nothing follows it.
CHECK_DEADLOCK FALSE
