SPECIFICATION FairSpec
CONSTANTS
 Groups <- MCGroups
 Fields <- MCFields
 Pickers = {1, 3}
 Options <- MCOptions
 Saved <- MCSaved
 Visible = 2
 Letters = {"a"}
 MaxFilter = 2
 Files <- MCFiles
 Listed = {"small"}
 ChannelCap = 1
 SteeringCap = 1
 Events <- MCEvents
 MaxTyped = 1
INVARIANTS OwnWindow EnterPicks
PROPERTIES AnswerKept RunHandled
CHECK_DEADLOCK FALSE
