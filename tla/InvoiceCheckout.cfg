\* Two requests that may overlap, two payments; two lost answers or restarts, after
\* which requests come one at a time.
SPECIFICATION Spec
CONSTANTS
  r1 = r1
  r2 = r2
  Requests <- TwoRequests
  MaxOrders = 2
  MaxFee = 2
  Discount = 1
  MaxFaults = 2
CONSTRAINT FaultsComeAlone
SYMMETRY RequestSymmetry
INVARIANTS
  DiscountCostsCoupon
  CouponBuysDiscount
  OneCharge
  PaidMatchesTaken
  MoneyIsBooked
  ClosedHasExit
\* A closed, paid session has nothing left to do.
CHECK_DEADLOCK FALSE
