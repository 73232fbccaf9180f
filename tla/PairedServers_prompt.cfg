SPECIFICATION RestartSpec
CONSTANTS
  Writer = {w1}
  Prompt = TRUE
  OneAtATime = TRUE
  MaxAttempts = 4
  MaxDeaths = 2
INVARIANTS
  PartitionOnlyByMisjudgment
  RecoveryFindsHelper
  LocksNeverCross
PROPERTY ServiceResumes
CHECK_DEADLOCK FALSE
