CONSTANTS
  Tasks <- MCTasks
  Protected = {"fix-sum"}
  VerifyOf <- MCVerifyOf
  Approaches <- MCApproaches
  TrialCount = 1
  MaxChanges = 1
SPECIFICATION EvalSpec
INVARIANT UngroundedRunsNothing
CHECK_DEADLOCK FALSE
