SPECIFICATION Spec
CONSTANTS
  c1 = c1
  c2 = c2
  c3 = c3
  Client = {c1, c2}
  Strategy <- AllCommutative
  Rejected = {}
  BadInput = {c1}
  Faulty = {}
  Malformed = {}
  Unlucky = {}
  Snapshots = TRUE
  MaxBatch = 1
  MaxAttempts = 2
  MaxLosses = 0
INVARIANT InvalidInputNotRetried
CHECK_DEADLOCK FALSE
