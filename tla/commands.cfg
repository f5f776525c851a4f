SPECIFICATION Spec

CONSTANTS
  main = main
  sub = sub
  screen = screen
  Main = main
  Handles <- MCHandles
  HandleOf <- MCHandleOf
  Loops = {main, sub}
  Screens = {}
  MaxNode = 5
  MaxBranch = 3
  Compaction = FALSE
  KeepLastN = 1
  Streaming = {main}
  MaxTurns = 2
  MaxContinuations = 0
  LastAttempt = 0
  Aggressive = FALSE
  Parallel = FALSE
  PersistThinking = FALSE
  Commands = {"new", "clear", "fork", "switch"}
  Hooks = {}
  MaxCalls = 1
  MaxRuns = 2
  MaxSteering = 0
  MaxGiven = 2
  MaxCrash = 1

INVARIANT BranchesApart
INVARIANT HeadKept
 
 

CHECK_DEADLOCK FALSE
