SPECIFICATION CourseDeskSpec
CONSTANTS
  None = None
  Requirements = {"users"}
  Required = {"users"}
  OwnerDecided = {"users"}
  Answers = {a, b}
  Drafted = {"answered"}
  Routes = {"x", "y"}
  Packages <- OnePackage
  Checkpoints = {"demo"}
  Dependencies <- Alone
  Blocks <- DemoBlocksQuery
  Handlers = {h1, h2}
  Greenfield = {TRUE, FALSE}
  MaxEdits = 3
  MaxReviews = 2
INVARIANT CourseTypeOK
INVARIANT WorkWasJudged
INVARIANT VerifiedAsAnswered
INVARIANT EngagedHasRemote
CHECK_DEADLOCK FALSE
SYMMETRY Alike
