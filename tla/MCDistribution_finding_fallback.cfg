\* A round is finalised without all of its scores.
SPECIFICATION Spec
CONSTANTS
  r1 = r1
  r2 = r2
  r3 = r3
  p1 = p1
  p2 = p2
  Stamps = {s1}
  Relays = {r1, r2}
  Processes = {p1}
  Flows = {1, 2, 3}
  MaxRetries = 1
  BatchSize = 1
  MaxCrashes = 0
  NoJob = NoJob
  NoFlow = NoFlow
INVARIANT NotFinalisedUntilAllSucceed
CHECK_DEADLOCK FALSE
