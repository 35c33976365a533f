SPECIFICATION Spec
CONSTANTS
  c1 = c1
  c2 = c2
  a1 = a1
  a2 = a2
  a3 = a3
  k1 = k1
  None = None
  Card <- ChainCards
  Parents <- RepairParents
  RepairOf <- OneRepair
  Attempt <- ThreeAttempts
  Controller <- OneController
  LeaseTicks = 2
  MaxRetries <- RepairRetry
INVARIANTS
  NoStrandedClaim
  FailuresCounted
PROPERTIES
  LateResultRefused
SYMMETRY AttemptSymmetry
