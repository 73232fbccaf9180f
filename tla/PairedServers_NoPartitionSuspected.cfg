SPECIFICATION Spec
CONSTANTS
  Writer = {w1}
  Prompt = TRUE
  OneAtATime = TRUE
  MaxAttempts = 2
  MaxDeaths = 1
INVARIANT NoPartitionSuspected
CHECK_DEADLOCK FALSE
