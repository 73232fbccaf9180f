SPECIFICATION Spec
CONSTANTS
  Address = {a1, a2}
  Writer = {w1}
  Lost = Lost
  Elsewhere = Elsewhere
  MaxAttempts = 2
  MaxStarts = 1
  MaxWrites = 1
SYMMETRY Symmetry
INVARIANT FilesIdenticalAgain
CHECK_DEADLOCK FALSE
