\* Three events, one written without a row and one the cloud always refuses, two
\* overlapping handlers, one fault.
SPECIFICATION FairSpec
CONSTANTS
  r1 = r1
  r2 = r2
  None = None
  Events = {1, 2, 3}
  Rowless = {2}
  Poison = {1}
  Requests <- TwoRequests
  BootstrapLimit = 3
  PushLimit = 2
  MaxFaults = 1
  RetryCap = 1
INVARIANTS
  RepeatsCostSlips
PROPERTIES
  DeliversEvents
  EventuallyAcked
