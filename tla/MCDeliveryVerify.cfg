SPECIFICATION FairSpec
CONSTANTS
  MaxPR = 1
  MaxHead = 1
  MaxTrouble = 2
  EventWindow = 3
  Policies <- MCBoth
  Answers <- MCAnswers
PROPERTIES
  MergeIsVerified
CHECK_DEADLOCK FALSE
