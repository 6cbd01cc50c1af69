SPECIFICATION Spec
CONSTANTS
  NumRuns = 2
  write = write
  search = search
  Dispatch = dispatch
  Tools <- MCTools
  BuiltinRisky <- MCRisky
  Plans <- MCPlans
  MaxPlan = 2
  Reanswered <- MCReanswered
  MaxToken = 2
  MaxRestarts = 1
INVARIANTS
  TypeOK
  ConsentBeforeEffect
  FinalMeansVouched
PROPERTIES
  StaleRunNeverActs
  KeepsPromise
  RunsEnd
