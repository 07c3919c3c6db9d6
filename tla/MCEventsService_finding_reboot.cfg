SPECIFICATION EventsSpec
CONSTANTS
  a1 = a1
  l1 = l1
  Locks = {}
  Nobody = Nobody
  Missing = Missing
  NoJob = NoJob
  Address = {a1}
  Requests = {1, 2}
  MaxRetries = 1
  MaxAmount = 1
  MaxCrashes = 1
INVARIANT ContinuityBetweenReboots
CHECK_DEADLOCK FALSE
