SPECIFICATION Spec
CONSTANTS
  NumThreads = 3
  NumRuns = 2
  MaxSaid = 2
  MaxToken = 4
  MaxRestarts = 1
CHECK_DEADLOCK FALSE
INVARIANTS
  NothingShownIsOutdated
PROPERTIES
  StaleRunsOnlyClose
  MessagesClose
