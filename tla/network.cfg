SPECIFICATION FairSpec
CONSTANTS
  j1 = j1
  j2 = j2
  j3 = j3
  j4 = j4
  j5 = j5
  Jobs <- MCJobs
  Inputs <- MCInputs
  NumChildren = 2
  BufferSize = 1
  OverspillCap = 1
  MaxLogs = 1
  MayCut = TRUE
INVARIANTS
  TypeOK
  WorkInFlight
  BacklogFits
  CleanClientEnd
  PrintedOrReturned
PROPERTIES
  ImplementsRemote
  ClientEnds
