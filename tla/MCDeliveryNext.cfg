SPECIFICATION Spec
CONSTANTS
  MaxPR = 2
  MaxHead = 1
  MaxTrouble = 2
  EventWindow = 3
  Policies <- MCAuto
  Answers <- MCFew
INVARIANTS
  TypeOK
  MergedOnce
  VerdictCoversMerge
PROPERTIES
  NoDependentWork
  DeliveryGoesOn
  WaitingIsReused
CHECK_DEADLOCK FALSE
