SPECIFICATION FairSpec
CONSTANTS
  flow1 = flow1
  lone = lone
  Flows = {flow1, lone}
  Plans <- MCPlans
  Size <- MCSize
INVARIANTS ErrorStopsFlow ReturnedClean WaitAnswers
PROPERTIES ResultsForgotten FlowsReturn
CHECK_DEADLOCK FALSE
