SPECIFICATION Spec
CONSTANTS
  a = a
  b = b
  Letters <- MCLetters
  Newline = newline
  Garbage = garbage
  Inputs <- MCTornInputs
  BufferSize = 2
  PipeSize = 4
  OutSize = 1
  MaxCrashes = 1
INVARIANT
  OnlyJobs
CHECK_DEADLOCK FALSE
