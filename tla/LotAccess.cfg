\* Two requests, two calls at once, one fault.
SPECIFICATION AccessSpec
CONSTANTS
  c1 = c1
  c2 = c2
  MaxRequests = 2
  Slots <- TwoCalls
  MaxAccessFaults = 1
SYMMETRY SlotsAreAlike
\* A bounded number of requests is made and reviewed.
CHECK_DEADLOCK FALSE
INVARIANTS
  AckedRequestKnown
  AccessFollowsVerdict
  VerdictsAgree
  AnswerOwed
