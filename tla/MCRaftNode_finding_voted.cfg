SPECIFICATION Spec
CONSTANTS
  n1 = n1
  n2 = n2
  n3 = n3
  n4 = n4
  Nobody = Nobody
  Node = {n1, n2, n3}
  MaxTerm = 2
  MaxLog = 1
SYMMETRY Symmetry
INVARIANT VotedInThisTerm
