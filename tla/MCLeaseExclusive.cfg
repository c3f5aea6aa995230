SPECIFICATION Spec
CONSTANTS
  Workers = {w1, w2, w3}
  MaxLeases = 1
SYMMETRY Symmetry
INVARIANT Exclusive
CHECK_DEADLOCK FALSE
