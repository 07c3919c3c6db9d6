\* Logs of an entry to start from and two more.
SPECIFICATION Spec
CONSTANTS
  n1 = n1
  n2 = n2
  n3 = n3
  n4 = n4
  Nobody = Nobody
  Node = {n1, n2, n3}
  MaxTerm = 2
  MaxLog = 3
CONSTRAINT FewRPCs
SYMMETRY Symmetry
INVARIANTS
  TypeOK
  LogMatching
  ElectionSafety
