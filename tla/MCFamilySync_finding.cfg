SPECIFICATION Spec
CONSTANTS
  r1 = r1
  r2 = r2
  m1 = m1
  m2 = m2
  m3 = m3
  NoRelay = NoRelay
  Relays = {r1, r2}
  Members = {m1, m2, m3}
  Threshold = 2
  MaxChanges = 0
  MaxFailures = 0
INVARIANT OkIsSet
