SPECIFICATION Spec
CONSTANTS
  j1 = j1
  j2 = j2
  Jobs <- MCJobs
  Junk = junk
  Noise = noise
  Inputs <- MCInputs
  BufferSize = 2
  MaxCrashes = 1
  LoopsWhenIdle = FALSE
  Signals = TRUE
  ExecFails = FALSE
INVARIANT
  RestartedAfterCrash
CHECK_DEADLOCK FALSE
