SPECIFICATION MCSpec
CONSTANTS
  Nil = Nil
  SnippetDefault = "d"
  EnableSnippets = TRUE
  Inputs <- MCInputs
  Requests <- MCRequests
  MaxChanges = 1
INVARIANTS
  RoutedAsWritten
  NamesDefinedOnce
  FailsClosed
  OnlyEgressRefsAreMissed
CHECK_DEADLOCK FALSE
