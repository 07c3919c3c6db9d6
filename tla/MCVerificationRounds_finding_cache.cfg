SPECIFICATION Spec
CONSTANTS
  plain = plain
  proven = proven
  partial = partial
  fake = fake
  Relays = {plain, fake}
  Info <- MCInfo
  Dummy = {fake}
  Movable = {}
  Rounds = {1, 2}
  BatchSize = 1
  MaxUploadRetries = 0
  MaxCrashes = 0
  MaxRemovals = 0
  NoState = NoState
  NoJob = NoJob
INVARIANTS
  KnownAreFilteredOut
CHECK_DEADLOCK FALSE
