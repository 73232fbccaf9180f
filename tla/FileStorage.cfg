SPECIFICATION Spec
CONSTANTS
  Thread = {t1, t2}
  Byte = {1, 2}
  Garbage = Garbage
  Nobody = Nobody
  BlockSize = 2
  FileBytes = 4
  MaxOffset = 2
  MaxWrites = 2
  MaxRestarts = 1
INVARIANT TypeOK
PROPERTY ReadReturnsLastWrite
CHECK_DEADLOCK FALSE
