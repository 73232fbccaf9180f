CONSTANTS
  Client = {c1, c2}
  Crashes = {}
  Prompt = TRUE
  MaxCalls = 2
SPECIFICATION Spec
INVARIANT ReplicasAgree
