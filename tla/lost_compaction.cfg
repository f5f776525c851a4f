SPECIFICATION Spec

CONSTANTS
  main = main
  sub = sub
  screen = screen
  Main = main
  Handles <- MCHandles
  HandleOf <- MCHandleOf
  Loops = {main}
  Screens = {}
  MaxNode = 9
  MaxBranch = 3
  Compaction = TRUE
  KeepLastN = 1
  Streaming = {main}
  MaxTurns = 2
  MaxContinuations = 1
  LastAttempt = 1
  Aggressive = FALSE
  Parallel = FALSE
  PersistThinking = FALSE
  Commands = {}
  Hooks = {}
  MaxCalls = 1
  MaxRuns = 2
  MaxSteering = 0
  MaxGiven = 0
  MaxCrash = 0

INVARIANT AnswerFollowsContext

CHECK_DEADLOCK FALSE
