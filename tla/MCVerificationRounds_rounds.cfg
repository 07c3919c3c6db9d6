SPECIFICATION Spec
CONSTANTS
  plain = plain
  proven = proven
  partial = partial
  fake = fake
  Relays = {proven}
  Info <- MCInfo
  Dummy = {}
  Movable = {proven}
  Rounds = {1, 2}
  BatchSize = 1
  MaxUploadRetries = 0
  MaxCrashes = 0
  MaxRemovals = 1
  NoState = NoState
  NoJob = NoJob
INVARIANTS
  RegistrationsBounded
  ScoredWereVerified
  BonusFollowsRegistration
  HardwareRecorded
  DistributesCurrent
CONSTRAINT FirstAttempts
CHECK_DEADLOCK FALSE
