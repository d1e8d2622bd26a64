SPECIFICATION FairSpec
CONSTANTS
  j1 = j1
  j2 = j2
  Jobs <- MCJobs
  Junk = junk
  Noise = noise
  Inputs <- MCInputs
  BufferSize = 2
  MaxCrashes = 2
  LoopsWhenIdle = TRUE
  Signals = TRUE
  ExecFails = TRUE
PROPERTIES
  ImplementsQueue
  Ends
INVARIANTS
  TypeOK
  Recoverable
  ResendReadsLive
  ReportedWasExecuted
  NeverStranded
  NoWriteAfterClose
CHECK_DEADLOCK FALSE
