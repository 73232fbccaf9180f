CONSTANTS
  MaxStarts = 3
  MaxDraws = 2
  MaxAttempts = 3
  MaxWrites = 3
SPECIFICATION Spec
PROPERTY EveryEntryReceived
CHECK_DEADLOCK FALSE
