\* Two requests at a time, limits of one, two keys of which tokens use one.
CONSTANTS
  c1 = c1  c2 = c2  k1 = k1  k2 = k2
  Callers = {c1, c2}
  Limit = 1
  Period = 2
  FailureLimit = 1
  Window = 1
  CacheFails = TRUE
  None = None
  Kids = {k1, k2}
  Signing = {k1}
  Served = {{k1}, {k2}}
  Lifespan = 1
  Interval = 1
SPECIFICATION FairSpec
INVARIANT KeysTypeOK
INVARIANT RefusedForCause
INVARIANT AttemptsBounded
PROPERTY RetryGetsIn
