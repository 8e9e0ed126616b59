SPECIFICATION Spec
CONSTANTS
  createdV1 = createdV1
  created = created
  shipped = shipped
  Created = Created
  Shipped = Shipped
  Absent = Absent
  Type = {createdV1, created, shipped}
  Simple <- SimpleNames
  Old = {createdV1}
  Upcaster <- UpcastV1
  Projected = {created}
  Explicit = {created}
  Exact = {created}
  Suffix = {Created, Shipped}
  Withholding = {shipped}
  MaxEvents = 3
  MaxAttempts = 2
  MaxFailures = 2
INVARIANTS
  TypeOK
  ProjectionFaithful
  RepetitionsBounded
  CopyIsPrefix
PROPERTIES
  ReportsAdvance
  ReadersAgree
CHECK_DEADLOCK FALSE
