CONSTANTS
  Plans <- GatePlans
  Trees <- MCTrees
  HasSupervisor = TRUE
  HasReviewer = TRUE
  HasArbiter = TRUE
  HasBudget = TRUE
  MaxReplans = 0
  FreshIds = TRUE
SPECIFICATION Spec
INVARIANTS
  CompletedIsGrounded
  SkipIsExplained
  NobodyForgotten
  RootCauseKept
  OverrunBounded
CHECK_DEADLOCK FALSE
