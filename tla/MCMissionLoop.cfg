SPECIFICATION CrewSpec
CONSTANTS
  NumCycles = 3
  MaxUnderWay = 2
  Weights = {0, 2}
  Modes = {"OFF", "SUGGEST", "AUTONOMOUS"}
  MinRuns = 2
  MinRealRuns = 1
  MinWeight = 3
  PraiseRuns = 1
  EvidenceCap = 3
  MaxRatings = 2
  MaxRestarts = 1
INVARIANTS
  LedgerIsStraight
  EvidenceSpentOnce
PROPERTY PraiseHolds
CHECK_DEADLOCK FALSE
