SPECIFICATION Spec
CONSTANTS
  c1 = c1
  c2 = c2
  c3 = c3
  handled = handled
  other = other
  Call = {c1, c2}
  Page = {handled, other}
  Handled = {handled}
  Serialised = FALSE
  MaxPages = 2
  MaxFacts = 1
INVARIANT ReplyCarriesOwnFacts
CHECK_DEADLOCK FALSE
