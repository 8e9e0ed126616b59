SPECIFICATION Spec
CONSTANTS
  p1 = p1
  p2 = p2
  p3 = p3
  Process = {p1, p2, p3}
  Nobody = Nobody
  Deployment <- Sound
  MaxStarts = 2
INVARIANTS
  TypeOK
  ServingIsReachable
  StartNeverPanics
  OnlyCrashesLeaveSockets
PROPERTIES
  StartIsCompleted
CHECK_DEADLOCK FALSE
