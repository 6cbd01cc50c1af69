SPECIFICATION DrawSpec
CONSTANTS
  NumNodes = 3
  Outputs <- MCOutputs
  Inputs <- MCInputs
  Required <- MCRequired
  Multiple <- MCMultiple
  Controlling <- MCControlling
  Compat <- MCCompat
  Link <- MCLink
  Imported <- MCImported
  MaxEdits = 1
  MaxCalls = 2
INVARIANTS
  RunnableIsOrdered
  LintAgrees
  ConnectIsExact
  StaysShaped
PROPERTY QueuedCanBeOrdered
