\* No fault at all, but two older events fill every bootstrap.
SPECIFICATION FairSpec
CONSTANTS
  r1 = r1
  r2 = r2
  None = None
  Events = {1, 2, 3}
  Rowless = {3}
  Poison = {}
  Requests <- TwoRequests
  BootstrapLimit = 2
  PushLimit = 2
  MaxFaults = 0
  RetryCap = 1
PROPERTIES
  SyncRequiredReachesCloud
