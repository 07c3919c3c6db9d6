SPECIFICATION Spec
CONSTANTS
  Runs = {1, 2, 3}
  Lines = 2
  MaxCrashes = 2
  NoLock = NoLock
INVARIANTS
  FinishedIsWhole
  PartIsMarked
  UpsKeepAll
CHECK_DEADLOCK FALSE
