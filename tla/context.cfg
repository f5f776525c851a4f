SPECIFICATION Spec
CONSTANTS
  Runs = {"r1", "r2"}
  CallTypes <- MCCallTypes
  Setups <- PassSetups
INVARIANTS PromptIsChain RequestPaired AskSent OperationsRemembered
CHECK_DEADLOCK FALSE
