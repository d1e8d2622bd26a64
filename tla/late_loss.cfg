SPECIFICATION Spec
CONSTANTS
  j1 = j1
  j2 = j2
  j3 = j3
  j4 = j4
  blank = blank
  x1 = x1
  x2 = x2
  Jobs <- MCJobs
  Blank = blank
  Inputs <- DistinctInput
  NumChildren = 2
  BufferSize = 1
  Conns <- MCConns
  RemoteCap <- MCCap
  LossAfterInput = TRUE
INVARIANT
  DoneMeansPrinted
