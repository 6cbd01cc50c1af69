SPECIFICATION Spec
CONSTANTS
  NumNodes = 4
  Polls = 2
  Graphs <- MCGraphs
INVARIANTS
  PassedMeansApproved
  RecordTellsTruth
  AtMostOneAfterCancel
PROPERTY RunEnds
