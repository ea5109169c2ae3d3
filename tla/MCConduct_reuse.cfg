CONSTANTS
  Plans <- ReusedPlans
  Trees <- MCTrees
  HasSupervisor = FALSE
  HasReviewer = FALSE
  HasArbiter = FALSE
  HasBudget = FALSE
  MaxReplans = 1
  FreshIds = FALSE
SPECIFICATION Spec
INVARIANTS
  DepsCompleteFirst
CHECK_DEADLOCK FALSE
