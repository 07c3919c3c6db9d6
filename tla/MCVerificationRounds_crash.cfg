SPECIFICATION FairSpec
CONSTANTS
  plain = plain
  proven = proven
  partial = partial
  fake = fake
  Relays = {partial, fake}
  Info <- MCInfo
  Dummy = {fake}
  Movable = {}
  Rounds = {1}
  BatchSize = 1
  MaxUploadRetries = 2
  MaxCrashes = 1
  MaxRemovals = 0
  NoState = NoState
  NoJob = NoJob
INVARIANTS
  UploadsBounded
PROPERTY EveryRoundIsSettled
CHECK_DEADLOCK FALSE
