SPECIFICATION FairSpec
CONSTANTS
  j1 = j1
  j2 = j2
  j3 = j3
  j4 = j4
  blank = blank
  x1 = x1
  x2 = x2
  Jobs <- MCJobs
  Blank = blank
  Inputs <- AnyInput
  NumChildren = 2
  BufferSize = 1
  Conns <- MCConns
  RemoteCap <- MCCap
  LossAfterInput = TRUE
INVARIANTS
  TypeOK
  TokenFindsSlot
  TokensAccounted
  NeverOverCommitted
  NothingForgotten
  PrintedNoMoreThanRead
PROPERTIES
  Completes
  Implements
CHECK_DEADLOCK FALSE
