SPECIFICATION CallsSpec
CONSTANTS
  NumCalls = 2
  write = write
  clock = clock
  Unknown = unknown
  Tools <- MCTools
  BuiltinRisky <- MCRisky
INVARIANTS
  CancelledAtGateNeverActs
PROPERTIES
  CallsKeepPromise
  CallsEnd
