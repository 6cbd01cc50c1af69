SPECIFICATION Spec
CONSTANTS
  NumWorkflows = 2
  NumListed = 1
  HistoryCap = 2
  MaxEdits = 2
  MaxMoves = 2
  MaxSaves = 2
INVARIANTS
  TypeOK
  EditsAreOnTheWay
PROPERTY EditsReachTheDisk
