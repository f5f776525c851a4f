SPECIFICATION FairSpec
CONSTANTS
  Setups <- MCSetups
  Unsafe = {"write"}
  Missing = {"gone"}
  Slots = 1
  MaxAttempts = 2
  Buffer = 2
INVARIANTS NoToolLeftRunning ToolsMatchAnswer CompleteCallsRun
PROPERTIES TurnEnds
CHECK_DEADLOCK FALSE
