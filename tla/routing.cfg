SPECIFICATION FairSpec
CONSTANTS
  Callers = {c1, c2}
  NoCaller = NoCaller
  MaxIssued = 2
  chatgpt = chatgpt
  nim = nim
  spare = spare
  gone = gone
  Providers = {chatgpt, nim, spare}
  ByToken = {chatgpt}
  Active = nim
  Setups <- MCSetups
  Scores = {0, 2}
  MaxScores = 2
  UpdateEvery = 1
  MaxScored = 3
  MaxRequests = 3
INVARIANTS FailedAfterAll RefreshedOnce CredentialsKept
PROPERTIES WeightsFollowScores RequestsEnd
CHECK_DEADLOCK FALSE
