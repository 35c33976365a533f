SPECIFICATION FairSpec
CONSTANTS
  c1 = c1
  c2 = c2
  e1 = e1
  e2 = e2
  NoOwner = NoOwner
  Cli <- MCCli
  Engine <- MCEngine
  TTL = 3
  MaxWait = 2
  Margin <- MCMargin
INVARIANTS
  TypeOK
  TermExclusive
  NoOverlap
PROPERTIES
  TakeoverJustified
  DeadRowGoes
  ImplementsSingleTerm
