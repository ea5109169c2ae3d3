CONSTANTS
  Plans <- BudgetPlans
  Trees <- MCTrees
  HasSupervisor = FALSE
  HasReviewer = FALSE
  HasArbiter = FALSE
  HasBudget = TRUE
  MaxReplans = 0
  FreshIds = TRUE
SPECIFICATION Spec
PROPERTIES
  FailedFirstWins
CHECK_DEADLOCK FALSE
