SPECIFICATION FairSpec
CONSTANTS
  None = None
  Callers = {a, b}
  Lifetime = 3
  Skew = 1
  Interval = 1
  Timeout = 2
  Delay = 1
  MaxTime = 7
  LastStart = 1
  MaxCalls = 3
INVARIANTS
  OneTokenRequest
  WaitsExplained
PROPERTIES
  TokenOutlivesRequest
  RevokedNotSent
  CallsEnd
CHECK_DEADLOCK FALSE
