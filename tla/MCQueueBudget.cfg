SPECIFICATION Spec
CONSTANTS
  c1 = c1
  c2 = c2
  a1 = a1
  a2 = a2
  a3 = a3
  k1 = k1
  None = None
  Card <- OneCard
  Parents <- OneParents
  RepairOf <- NoRepairs
  Attempt <- ThreeAttempts
  Controller <- OneController
  LeaseTicks = 1
  MaxRetries <- OneRetry
INVARIANTS
  BudgetBounded
