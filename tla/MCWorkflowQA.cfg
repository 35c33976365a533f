SPECIFICATION WorkflowSpec
CONSTANTS
  Backends = {"direct", "workboard"}
  Plans <- MergePlans
  Profiles = {"library", "web"}
  MaxRetries = 1
  MaxCards = 8
  MaxHead = 2
  MaxTrouble <- NoTrouble
PROPERTY MergeHasEvidence
CHECK_DEADLOCK FALSE
