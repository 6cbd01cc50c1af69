SPECIFICATION Spec
CONSTANTS
  Task = {1, 2}
  Deps <- MCDeps
  Gated = {1}
  Added = {2}
  Loop = {1, 2}
  MaxRetries = 3
  MaxVersion = 2
  MayReorganize = TRUE
  MaxTurns = 2
  MaxRollbacks = 1
  MaxBack = 2
CHECK_DEADLOCK FALSE
INVARIANTS
  ApprovedBeforeRun
  CompletedStands
  OneRepairPerTask
  AskedIsSettled
PROPERTY RunsEnd
