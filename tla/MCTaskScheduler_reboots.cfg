SPECIFICATION Spec
CONSTANTS
  FirstBoots = {TRUE, FALSE}
  b1 = b1
  b2 = b2
  Slots = {b1, b2}
  MaxReboots = 2
  MaxFailures = 1
  MaxSent = 1
  NoDoc = NoDoc
  NoCall = NoCall
  NoJob = NoJob
SYMMETRY SlotSymmetry
CONSTRAINT Troubles
INVARIANTS
  OneOfEach
  DuplicatesBounded
  ValidationSurvivesOneCrash
CHECK_DEADLOCK FALSE
