SPECIFICATION FairSpec

CONSTANTS
  main = main
  sub = sub
  screen = screen
  Main = main
  Handles <- MCHandles
  HandleOf <- MCHandleOf
  Loops = {main}
  Screens = {}
  MaxNode = 13
  MaxBranch = 3
  Compaction = FALSE
  KeepLastN = 1
  Streaming = {main}
  MaxTurns = 2
  MaxContinuations = 1
  LastAttempt = 1
  Aggressive = TRUE
  Parallel = FALSE
  PersistThinking = TRUE
  Commands = {}
  Hooks = {"input", "llm", "stop", "tool"}
  MaxCalls = 2
  MaxRuns = 1
  MaxSteering = 2
  MaxGiven = 0
  MaxCrash = 0

INVARIANT ToolResultsFollowCall
PROPERTY RunEnds

CHECK_DEADLOCK FALSE
