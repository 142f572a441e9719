SPECIFICATION Spec
CONSTANTS
  t1 = t1
  t2 = t2
  Goroutines = {t1, t2}
  Order <- MCOrder
  MaxCalls = 2
  Nobody = Nobody
SYMMETRY Symmetry
INVARIANTS
  CallsAreTold
  StuckOnlyCrosswise
CHECK_DEADLOCK FALSE
