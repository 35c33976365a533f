SPECIFICATION CourseDeskSpec
CONSTANTS
  None = None
  Requirements = {"users"}
  Required = {"users"}
  OwnerDecided = {"users"}
  Answers = {"a"}
  Drafted = {"unknown"}
  Routes = {"x"}
  Packages <- TwoPackages
  Checkpoints = {"demo"}
  Dependencies <- QueryNeedsIndex
  Blocks <- DemoBlocksQuery
  Handlers = {h1}
  Greenfield = {FALSE}
  MaxEdits = 3
  MaxReviews = 1
INVARIANT DependentsGoOn
CHECK_DEADLOCK FALSE
