SPECIFICATION Spec
CONSTANTS
  p1 = p1
  p2 = p2
  w1 = w1
  w2 = w2
  h1 = h1
  h2 = h2
  k1 = k1
  k2 = k2
  NoOp = NoOp
  Nobody = Nobody
  Operator = Operator
  Automatic = Automatic
  Provisions = {p1, p2}
  Workers = {w1, w2}
  Steady = {w2}
  Destroyers = {k1, k2}
  Handles = {h1, h2}
  MaxAttempts = 3
  Budget = 2
  MaxRevisions = 2
  MaxStalls = 1
INVARIANTS TypeOK DispatchedAtMostOnce AttemptsAreSerial ReleasedMeansGone
PROPERTY ImplementsCustody
CONSTRAINT OneQuestion
SYMMETRY Symmetric
CHECK_DEADLOCK FALSE
