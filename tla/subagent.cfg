SPECIFICATION Spec

CONSTANTS
  main = main
  sub = sub
  screen = screen
  Main = main
  Handles <- MCHandles
  HandleOf <- MCHandleOf
  Loops = {main, sub}
  Screens = {}
  MaxNode = 6
  MaxBranch = 3
  Compaction = FALSE
  KeepLastN = 1
  Streaming = {main}
  MaxTurns = 2
  MaxContinuations = 1
  LastAttempt = 1
  Aggressive = FALSE
  Parallel = TRUE
  PersistThinking = FALSE
  Commands = {}
  Hooks = {"spawn"}
  MaxCalls = 1
  MaxRuns = 1
  MaxSteering = 0
  MaxGiven = 0
  MaxCrash = 0

INVARIANT SubAgentIsolation
INVARIANT AnswerFollowsContext

CHECK_DEADLOCK FALSE
