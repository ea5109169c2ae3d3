CONSTANTS
  Members = {"a", "b", "c"}
  LabelOf <- MCLabelOf
  LadderOf <- MCLadderOf
  HasCheck = TRUE
SPECIFICATION CouncilSpec
INVARIANT SurvivorsReview
