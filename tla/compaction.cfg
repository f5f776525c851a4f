SPECIFICATION Spec

CONSTANTS
  main = main
  sub = sub
  screen = screen
  Main = main
  Handles <- MCHandles
  HandleOf <- MCHandleOf
  Loops = {main, screen}
  Screens = {screen}
  MaxNode = 9
  MaxBranch = 3
  Compaction = TRUE
  KeepLastN = 1
  Streaming = {main}
  MaxTurns = 2
  MaxContinuations = 0
  LastAttempt = 0
  Aggressive = FALSE
  Parallel = FALSE
  PersistThinking = FALSE
  Commands = {"compact", "fork", "new", "clear"}
  Hooks = {}
  MaxCalls = 2
  MaxRuns = 2
  MaxSteering = 0
  MaxGiven = 2
  MaxCrash = 0

INVARIANT ParentsExist
INVARIANT OwnMessageSent
INVARIANT ToolResultsFollowCall

CHECK_DEADLOCK FALSE
