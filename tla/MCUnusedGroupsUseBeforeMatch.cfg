CONSTANTS
  r1 = r1
  r2 = r2
  r3 = r3
  a = a
  b = b
  c = c
  m1 = m1
  m2 = m2
  Regexes = {r1, r2, r3}
  Unparsable = {r3}
  Shape <- MCShape
  Matchers = {m1, m2}
  Names = {a, b, c}
  NoName = NoName
  None = None
  ReplaceRefs <- MCReplaceRefs
  MaxEvents = 5
SPECIFICATION Spec
INVARIANTS
  UsedGroupsNotReportedUnused
\* ESLint's traversal ends with Program:exit.
CHECK_DEADLOCK FALSE
