SPECIFICATION KFairSpec
CONSTANTS
  Node <- MCNode
  Thread <- MCThread
  Main = 0
  None = None
  Graphs <- MCGraphs
  Faulty <- MCNode
  PodName <- MCPodName
  Sanitized <- Distinct
  FailingStep = {1}
  MaxFaults = 2
INVARIANTS
  KTypeOK
  PodsInOrder
  StepRunsOnce
  PodsEndFirst
  MissingStepsFailed
PROPERTIES
  RunEnds
  AllStepsComplete
