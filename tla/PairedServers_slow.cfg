SPECIFICATION FairSpec
CONSTANTS
  Writer = {w1}
  Prompt = FALSE
  OneAtATime = FALSE
  MaxAttempts = 3
  MaxDeaths = 1
INVARIANTS
  TypeOK
  
  Watched
PROPERTY BackupTakesOver
CHECK_DEADLOCK FALSE
