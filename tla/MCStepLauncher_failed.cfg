SPECIFICATION Spec
CONSTANTS
  a = a
  b = b
  c = c
  Step <- MCStep
  Graphs <- Parallel
  Operated = {}
  Cacheable = {}
  PageSize = 3
  MaxMishaps = 1
INVARIANT FailedRunIsReported
