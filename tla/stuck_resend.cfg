SPECIFICATION FairSpec
CONSTANTS
  Bodies <- MCBodies
  MaxCrashes = 1
  Chunk = 5
PROPERTY
  ResendsHandled
