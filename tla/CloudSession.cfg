\* Two visits of a space, six events, two handlers, one fault.
SPECIFICATION FairSpec
CONSTANTS
  v1 = v1
  v2 = v2
  None = None
  Sessions <- TwoVisits
  Feed <- UnpaidThenPaid
  PaidExits = {6}
  Registered = {v2}
  Handlers = {1, 2}
  MaxFaults = 1
INVARIANTS
  ExitedStaysClosed
  SpaceShowsNewest
PROPERTIES
  EventuallyClosed
CHECK_DEADLOCK FALSE
