SPECIFICATION Spec
CONSTANTS
  NumChanges = 3
  Cap = 2
  MaxRestarts = 1
  write = write
  clock = clock
  concise = concise
  Tools <- MCTools
  Prefs <- MCPrefs
  BuiltinRisky <- MCRisky
INVARIANTS
  FloorStays
  EveryEditExplained
CHECK_DEADLOCK FALSE
