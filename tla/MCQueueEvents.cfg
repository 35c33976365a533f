SPECIFICATION EventsSpec
CONSTANTS
  c1 = c1
  r1 = r1
  Cards = {c1}
  Stage <- MCStage
  Reports = {r1}
  Levels = {1, 3}
  LadderTop = 4
  MaxFailures = 1
  MaxTrouble = 1
INVARIANTS
  EventsTypeOK
  DoneIsRecorded
PROPERTIES
  PingsClimb
  OwnerIsPinged
