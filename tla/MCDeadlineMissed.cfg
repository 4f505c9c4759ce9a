\* Four certs whose source does not answer, before a healthy one.
SPECIFICATION Spec
CONSTANTS
  N = 5
  StartTimeout = 12
  RequestTimeout = 3
  FetchMax = 1
  ReloadMax = 1
  Slow = {1, 2, 3, 4}
  Stuck = {}
  Start <- SlowStart
INVARIANT OthersRan
