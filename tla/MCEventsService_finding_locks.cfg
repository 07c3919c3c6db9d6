SPECIFICATION EventsSpec
CONSTANTS
  a1 = a1
  l1 = l1
  Nobody = Nobody
  Missing = Missing
  NoJob = NoJob
  Address = {a1}
  Requests = {}
  Locks = {l1}
  MaxRetries = 1
  MaxAmount = 0
  MaxCrashes = 1
INVARIANT LocksStored
CHECK_DEADLOCK FALSE
