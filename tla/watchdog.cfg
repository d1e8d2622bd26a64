SPECIFICATION FairSpec
CONSTANTS
  BeatAfter = 3
  KillAfter = 6
  MaxStall = 7
INVARIANTS
  TypeOK
  NoFalseAlarm
  Noticed
PROPERTY
  NeverShort
