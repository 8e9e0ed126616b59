SPECIFICATION Spec
CONSTANTS
  c1 = c1
  c2 = c2
  c3 = c3
  Client = {c1, c2, c3}
  Strategy <- Mixed
  Rejected = {c3}
  BadInput = {}
  Faulty = {c3}
  Malformed = {c1}
  Unlucky = {c1}
  Snapshots = TRUE
  MaxBatch = 1
  MaxAttempts = 3
  MaxLosses = 1
INVARIANTS
  TypeOK
  OptimisticLock
  VerdictMatchesLog
  AtMostOnce
PROPERTIES
  LogIsSerial
  EveryClientCommits
  EveryClientIsAnswered
CHECK_DEADLOCK FALSE
