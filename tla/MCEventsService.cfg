SPECIFICATION EventsFairSpec
CONSTANTS
  a1 = a1
  l1 = l1
  Nobody = Nobody
  Missing = Missing
  NoJob = NoJob
  Address = {a1}
  Requests = {1, 2}
  Locks = {l1}
  MaxRetries = 2
  MaxAmount = 1
  MaxCrashes = 1
INVARIANTS
  TransactionsBounded
  OneChain
  CreditsBounded
PROPERTIES
  AllocationsGrow
  RequestsEnd
CHECK_DEADLOCK FALSE
