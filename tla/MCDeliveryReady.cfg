SPECIFICATION Spec
CONSTANTS
  MaxPR = 1
  MaxHead = 0
  MaxTrouble = 0
  EventWindow = 3
  Policies <- MCOwner
  Answers <- MCSmooth
PROPERTIES
  CompletionIsReused
CHECK_DEADLOCK FALSE
