SPECIFICATION Spec
CONSTANTS
  p1 = p1
  p2 = p2
  p3 = p3
  Process = {p1, p2, p3}
  Nobody = Nobody
  Deployment <- RunServerOnSocket
  MaxStarts = 2
PROPERTY OnlyStaleSocketsRemoved
CHECK_DEADLOCK FALSE
