\* Three requests of any kind, two at a time, one of which may stop half-way.
SPECIFICATION Spec
CONSTANTS
  r1 = r1
  r2 = r2
  r3 = r3
  NoRequest = NoRequest
  Requests <- ThreeRequests
  Kinds = {"link", "member", "desk", "confirm", "toss", "edge", "refund", "canceled"}
  Fee = 2
  FeeLater = 4
  EdgePaid = 3
  StartsExited = {TRUE, FALSE}
  MaxActive = 2
  MaxStops = 1
SYMMETRY Symmetry
INVARIANTS
  PaidWithinMoney
  
  
CHECK_DEADLOCK FALSE
