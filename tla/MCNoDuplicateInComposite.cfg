CONSTANTS
  TypeTexts <- MCTypeTexts
  MaxTypes = 4
SPECIFICATION Spec
INVARIANTS
  SuggestionRemovesDuplicates
  ReportsLocateEveryOccurrence
\* The callback runs once per composite type node; nothing follows it.
CHECK_DEADLOCK FALSE
