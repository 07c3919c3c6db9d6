SPECIFICATION FairSpec
CONSTANTS
  r1 = r1
  r2 = r2
  r3 = r3
  Relays = {r1, r3}
  Contact <- MCContact
  Undefined = Undefined
  NoRun = NoRun
  NaN = NaN
  LastDay = 2
  MaxRounds = 2
  MaxTroubles = 1
  MinimumCount = 1
  BatchSize = 1
PROPERTY LatestPushed
CHECK_DEADLOCK FALSE
