SPECIFICATION Spec
CONSTANTS
  NNodes = 3
  NThreads = 7
  Node <- MCNode
  Thread <- MCThread
  Main = 0
  None = None
  Graphs <- DistinctGraphs
  Faulty = {1}
INVARIANTS
  TypeOK
  UpstreamRanFirst
  NoLostWakeup
  RunReturnsLast
  JoinsDoNotDeadlock
