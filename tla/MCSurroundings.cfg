CONSTANTS
  Parts = {"layering", "operator", "worktree", "commands", "council", "mcp", "eval", "screen", "usage", "transcripts"}
  Ids <- MCIds
  Earlier <- MCEarlier
  MaxPlan = 3
  Runs = {r1}
  MaxSubtasks = 3
  MaxNotes = 2
  MaxToggles = 4
  Procs = {p, q}
  Names = {a, b}
  Entries = {f}
  Faults = 2
  Stores = {s, t}
  Repos = {r}
  Trees <- MCTrees
  Configs <- MCConfigs
  Kinds <- MCKinds
  Attached = {s}
  MaxEdits = 2
  Members = {"a", "b", "c"}
  LabelOf <- MCLabelOf
  LadderOf <- MCLadderOf
  HasCheck = TRUE
  Calls = {c1, c2}
  Dirs = {"d"}
  ToolLadder <- MCToolLadder
  GivenLabels = {}
  MaxEffects = 1
  Tasks <- MCTasks
  Protected = {"fix-sum"}
  VerifyOf <- MCVerifyOf
  Approaches <- MCApproaches
  TrialCount = 1
  MaxChanges = 2
  MaxStarts = 3
  MaxFrames = 2
  Workers <- MCWorkers
  Window = 1
  LastHour = 2
  MaxTokens = 1
  Saves = {"s1", "s2", "s3"}
  ProcessOf <- MCProcessOf
  KindOf <- MCKindOf
  Relevant = {"s1", "s3"}
  HitLimit = 1
  LastNano = 1
SPECIFICATION SurroundingsSpec
INVARIANTS
  EdgesPointBack
  EarliestWave
  RejectedIffInvalid
  NotesInOrder
  PauseTakesHold
  RegisteredIsWhole
  RecordOutlivesWorktree
  TrustFailsClosed
  PassedIsShown
  ScoreIsEarned
  ScreenIsThisRun
  ReviewersAnswered
  PickedIsLeast
  SavedIsRecalled
PROPERTIES
  Returns
  ParkedByOperator
  PipelineEnds
CHECK_DEADLOCK FALSE
