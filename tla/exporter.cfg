SPECIFICATION FairSpec
CONSTANTS
  None = None
  Leases = {l1}
  Minute = 1
  Recheck = 1
  MaxTime = 2
  MaxCalls = 2
  MaxFaults = 1
INVARIANTS
  OnlineWatched
PROPERTIES
  WritersApart
  OfflineNoticed
  RegisteredConverges
  LeaseRefConverges
CHECK_DEADLOCK FALSE
