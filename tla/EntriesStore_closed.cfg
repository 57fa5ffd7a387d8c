SPECIFICATION Spec
CONSTANTS
  w1 = w1
  w2 = w2
  w3 = w3
  r1 = r1
  r2 = r2
  Workers = {w1, w2, w3}
  Rows = {r1, r2}
  Master = Master
  Nobody = Nobody
  CheckpointAt = 1
SYMMETRY Interchangeable
INVARIANT ExclusiveIsOnlyConnection
CHECK_DEADLOCK FALSE
