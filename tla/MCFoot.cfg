SPECIFICATION Spec
CONSTANTS
  b1 = b1
  b2 = b2
  b3 = b3
  d1 = d1
  u1 = u1
  Calls = {b1, b2, b3, d1, u1}
  Method <- MCMethod
  Missing = Missing
  Torn = Torn
SYMMETRY Symmetry
INVARIANTS
  ListsAreTrue
PROPERTIES
  DamageIsKept
CHECK_DEADLOCK FALSE
