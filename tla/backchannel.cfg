SPECIFICATION FairSpec
CONSTANTS
  Bodies <- MCBodies
  MaxCrashes = 3
  Chunk = 5
INVARIANTS
  TypeOK
  DecodedInOrder
  ReadAheadBounded
PROPERTY
  PipeDrained
