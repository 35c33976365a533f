SPECIFICATION WorkflowSpec
CONSTANTS
  Backends = {"direct", "workboard"}
  Plans <- EveryPlan
  Profiles = {"library"}
  MaxRetries = 1
  MaxCards = 6
  MaxHead = 2
  MaxTrouble <- MoreForIssues
INVARIANT WorkflowTypeOK
INVARIANT StageOrder
INVARIANT OneCardPerStage
INVARIANT RetryChainsBounded
PROPERTY EvidenceKept
PROPERTY OwnerDecides
PROPERTY WorktreeOutlivesWork
CHECK_DEADLOCK FALSE
