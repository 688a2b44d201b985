SPECIFICATION FairSpec
CONSTANTS
  a = a
  b = b
  c = c
  Step <- MCStep
  Graphs <- Shapes
  Operated = {a}
  Cacheable = {b}
  PageSize = 3
  MaxMishaps = 2
INVARIANTS
  TypeOK
  InputsExist
  CompletedMeansDone
  OutcomeAtRest
PROPERTIES
  EndIsFinal
  OutcomeDecided
