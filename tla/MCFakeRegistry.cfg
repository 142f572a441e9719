SPECIFICATION Spec
CONSTANTS
  Sources = {s1, s2}
  Digests = {d}
  MaxFailures = 3
  MaxCalls = 1
  Nobody = Nobody
INVARIANTS
  FailuresAsAsked
  HandlerHasItsTurn
PROPERTIES
  RequestsAreAnswered
CHECK_DEADLOCK FALSE
