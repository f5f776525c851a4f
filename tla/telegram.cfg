SPECIFICATION Spec

CONSTANTS
  Chats = {c1, c2}
  States = {s1, s2, s3}
  None = None
  MaxMessages = 3

INVARIANT QueueReachable
INVARIANT NoIdleEntry
PROPERTY QueueSpec
PROPERTY EveryMessageAnswered

CHECK_DEADLOCK FALSE
