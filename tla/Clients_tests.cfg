SPECIFICATION CSpec
CONSTANTS
  Writer = {w1}
  Reader = {}
  Scenarios = {"seq0", "seq1", "seq2", "seq3", "seq4", "seq5", "old_seq1", "demo"}
  Rounds = 1
  Prompt = TRUE
  OneAtATime = TRUE
  MaxAttempts = 3
  MaxDeaths = 0
INVARIANTS
  CTypeOK
  OnlyNamedCrashes
PROPERTY CrashesHidden
CHECK_DEADLOCK FALSE
