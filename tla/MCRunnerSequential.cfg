CONSTANTS
  N = 2
  MaxInFlight = {2}
SPECIFICATION FairSpec
INVARIANT OneAgentWhenSequential
CHECK_DEADLOCK FALSE
