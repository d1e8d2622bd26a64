SPECIFICATION FairSpec
CONSTANTS
  NumChildren = 2
  MaxJobs = 2
  MaxKills = 1
  ForkFails = TRUE
INVARIANTS
  TypeOK
  NoHangup
PROPERTIES
  Closes
  NoOrphans
  DeathNoticed
CHECK_DEADLOCK FALSE
