\* Liveness with one crash.
SPECIFICATION FairSpec
CONSTANTS
  r1 = r1
  r2 = r2
  r3 = r3
  p1 = p1
  p2 = p2
  Stamps = {s1}
  Relays = {r1}
  Processes = {p1}
  Flows = {1, 2, 3, 4}
  MaxRetries = 1
  BatchSize = 1
  MaxCrashes = 1
  NoJob = NoJob
  NoFlow = NoFlow
PROPERTY EveryRoundEndsOrIsLost
CHECK_DEADLOCK FALSE
