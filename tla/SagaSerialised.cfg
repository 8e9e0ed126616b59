SPECIFICATION ProgramSpec
CONSTANTS
  c1 = c1
  c2 = c2
  handled = handled
  other = other
  simpleHandled = simpleHandled
  simpleOther = simpleOther
  d1 = d1
  d2 = d2
  Call = {c1, c2}
  Page = {handled, other}
  Handled = {handled}
  Serialised = TRUE
  MaxPages = 2
  MaxFacts = 4
  Type = {handled, other}
  ShortName <- MCShortName
  Domain = {d1, d2}
  NoDomain = NoDomain
  MaxCalls = 4
INVARIANTS
  ReplyCarriesOwnFacts
  ResponseCoversSource
  RegistrationsCount
CHECK_DEADLOCK FALSE
