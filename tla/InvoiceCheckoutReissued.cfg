\* One request at a time, no fault.
SPECIFICATION Spec
CONSTANTS
  r1 = r1
  r2 = r2
  Requests <- OneRequest
  MaxOrders = 1
  MaxFee = 2
  Discount = 1
  MaxFaults = 0
PROPERTIES
  PaidInvoiceUnchanged
CHECK_DEADLOCK FALSE
