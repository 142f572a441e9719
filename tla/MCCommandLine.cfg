SPECIFICATION Spec
CONSTANTS
  LogLevels = {"", "debug", "lol"}
  Limits <- MCLimits
INVARIANTS
  FailuresAreTold
  FetcherIsClosed
  LimitsAgree
