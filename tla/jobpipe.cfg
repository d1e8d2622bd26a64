SPECIFICATION FairSpec
CONSTANTS
  a = a
  b = b
  Letters <- MCLetters
  Newline = newline
  Garbage = garbage
  Inputs <- MCInputs
  BufferSize = 3
  PipeSize = 5
  OutSize = 1
  MaxCrashes = 2
INVARIANTS
  TypeOK
  NeverMerged
  Recoverable
PROPERTY
  Drained
CHECK_DEADLOCK FALSE
