\* Two certs whose source does not answer, a healthy one, one that never reloads.
SPECIFICATION Spec
CONSTANTS
  N = 4
  StartTimeout = 12
  RequestTimeout = 3
  FetchMax = 1
  ReloadMax = 1
  Slow = {1, 2}
  Stuck = {4}
  Start <- MixedStart
INVARIANTS TypeOK HealthyServed
