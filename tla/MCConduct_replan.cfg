CONSTANTS
  Plans <- ReplanPlans
  Trees <- MCTrees
  HasSupervisor = FALSE
  HasReviewer = FALSE
  HasArbiter = FALSE
  HasBudget = FALSE
  MaxReplans = 1
  FreshIds = TRUE
SPECIFICATION Spec
INVARIANTS
  SuccessIsVerified
  ReportMatchesEntries
  DepsCompleteFirst
PROPERTIES
  ShipsOnlyChecked
  Terminates
CHECK_DEADLOCK FALSE
