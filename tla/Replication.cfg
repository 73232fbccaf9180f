CONSTANTS
  Client = {c1, c2}
  Crashes = {"primary", "backup"}
  Prompt = TRUE
  MaxCalls = 4
SPECIFICATION FairSpec
INVARIANTS TypeOK NoStaleBlock MissedWritesMarked
PROPERTIES CallsReturn Atomic
