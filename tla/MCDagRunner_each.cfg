SPECIFICATION FairSpec
CONSTANTS
  NNodes = 4
  NThreads = 9
  Node <- MCNode
  Thread <- MCThread
  Main = 0
  None = None
  Graphs <- SharedChild
  Faulty = {}
PROPERTY EveryNodeIsRun
