SPECIFICATION FairSpec
CONSTANTS
  Pcb = {p1, p2, p3}
  State = {s1, s2}
  Null = Null
  MaxRetries = 2
  MaxSegments = 2
INVARIANTS BlocksOwned NoDanglingArg OwnRequestsOnly
PROPERTIES OldestGivenUp SilentReclaimed
CHECK_DEADLOCK FALSE
