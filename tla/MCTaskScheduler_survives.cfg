SPECIFICATION FairSpec
CONSTANTS
  FirstBoots = {FALSE}
  b1 = b1
  b2 = b2
  Slots = {b1, b2}
  MaxReboots = 1
  MaxFailures = 1
  MaxSent = 1
  NoDoc = NoDoc
  NoCall = NoCall
  NoJob = NoJob
PROPERTY ValidationsGoOn
CHECK_DEADLOCK FALSE
