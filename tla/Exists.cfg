SPECIFICATION Spec
CONSTANTS
  known = known
  unknown = unknown
  broken = broken
  Event = {known, unknown, broken}
  Applied = {known, broken}
  Ignored = Ignored
  NoState = NoState
  Unpackable = {broken}
  MaxHistory = 2
  MaxBatch = 2
  MaxCalls = 2
  Snapshots = FALSE
INVARIANT ExistsWithPriorEvents
