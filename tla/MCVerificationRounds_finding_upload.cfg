SPECIFICATION Spec
CONSTANTS
  plain = plain
  proven = proven
  partial = partial
  fake = fake
  Relays = {plain, proven}
  Info <- MCInfo
  Dummy = {}
  Movable = {}
  Rounds = {1}
  BatchSize = 1
  MaxUploadRetries = 2
  MaxCrashes = 0
  MaxRemovals = 0
  NoState = NoState
  NoJob = NoJob
INVARIANTS
  GivesUpOnlyWhenMissing
CHECK_DEADLOCK FALSE
