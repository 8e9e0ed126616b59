SPECIFICATION Spec
CONSTANTS
  t1 = t1
  t2 = t2
  r1 = r1
  r2 = r2
  d1 = d1
  d2 = d2
  Trigger = {t1, t2}
  Root = {r1, r2}
  Domain = {d1, d2}
  Home <- OneRootEach
  Output = {d1, d2}
  Compensated = {d1}
  MaxPages = 2
  MaxCommands = 1
  MaxNotices = 2
INVARIANTS
  TypeOK
  WholeOrNothing
  EventsFollowPages
  StampsLock
  RejectionSeesItsCause
  CompensatedOnce
PROPERTIES
  RejectedAreCompensated
CHECK_DEADLOCK FALSE
