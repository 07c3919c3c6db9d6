\* One round, three scores in batches of two, two retries, no crash.
SPECIFICATION Spec
CONSTANTS
  r1 = r1
  r2 = r2
  r3 = r3
  p1 = p1
  p2 = p2
  Stamps = {s1}
  Relays = {r1, r2, r3}
  Processes = {p1, p2}
  Flows = {1, 2, 3, 4}
  MaxRetries = 2
  BatchSize = 2
  MaxCrashes = 0
  NoJob = NoJob
  NoFlow = NoFlow
INVARIANTS
  TypeOK
  ScoresConserved
  ProcessedScoresLanded
  FinalisedWhenCompleteOrExhausted
  SummaryUploadedOnce
  RetryBudget
PROPERTIES
  NoScoresAfterDistribute
  ImplementsLedger
SYMMETRY ClusterSymmetry
CHECK_DEADLOCK FALSE
