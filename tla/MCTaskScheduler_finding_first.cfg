SPECIFICATION Spec
CONSTANTS
  FirstBoots = {TRUE}
  b1 = b1
  b2 = b2
  Slots = {b1, b2}
  MaxReboots = 1
  MaxFailures = 0
  MaxSent = 1
  NoDoc = NoDoc
  NoCall = NoCall
  NoJob = NoJob
INVARIANT RhythmKeptByQuietReboots
