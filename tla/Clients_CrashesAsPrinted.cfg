SPECIFICATION CSpec
CONSTANTS
  Writer = {w1}
  Reader = {}
  Scenarios = {"seq0", "seq1", "seq2", "seq3", "seq4", "seq5"}
  Rounds = 1
  Prompt = TRUE
  OneAtATime = TRUE
  MaxAttempts = 3
  MaxDeaths = 0
PROPERTY CrashesAsPrinted
CHECK_DEADLOCK FALSE
