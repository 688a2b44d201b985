SPECIFICATION Spec
CONSTANTS
  a = a
  b = b
  c = c
  Step <- MCStep
  Graphs <- Chain
  Operated = {}
  Cacheable = {}
  PageSize = 1
  MaxMishaps = 0
INVARIANT ResolutionFailsOnMissing
