SPECIFICATION Spec
CONSTANTS
  Address = {a1, a2}
  Writer = {w1, w2}
  Lost = Lost
  Elsewhere = Elsewhere
  MaxAttempts = 2
  MaxStarts = 2
  MaxWrites = 2
SYMMETRY Symmetry
INVARIANTS
  TypeOK
  SyncInOtherModeIsStale
  CountsAgree
PROPERTIES
  OnlyCompleteRecoveries
  DirtyKeptUntilDelivered
  HandoverWaitsForWriters
CHECK_DEADLOCK FALSE
