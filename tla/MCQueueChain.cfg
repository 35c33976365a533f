SPECIFICATION FairSpec
CONSTANTS
  c1 = c1
  c2 = c2
  a1 = a1
  a2 = a2
  a3 = a3
  k1 = k1
  None = None
  Card <- ChainCards
  Parents <- ChainParents
  RepairOf <- NoRepairs
  Attempt <- ThreeAttempts
  Controller <- OneController
  LeaseTicks = 1
  MaxRetries <- OneRetry
INVARIANTS
  TypeOK
  NoStrandedClaim
  WorkerKeepsItsCard
  CompletionSurvives
  CancellationSticks
  FailuresCounted
  DependencyOrder
PROPERTIES
  LateResultRefused
  OrphanRecovered
