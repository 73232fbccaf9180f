SPECIFICATION CSpec
CONSTANTS
  Writer = {w1}
  Reader = {}
  Scenarios = {"blocks", "benchmark"}
  Rounds = 3
  Prompt = TRUE
  OneAtATime = TRUE
  MaxAttempts = 3
  MaxDeaths = 1
INVARIANTS AckedWriteServed ReadsOwnWrite
CHECK_DEADLOCK FALSE
