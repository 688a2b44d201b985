SPECIFICATION FairSpec
CONSTANTS
  Node <- MCNode
  Unknown <- MCUnknown
  Graphs <- MCGraphs
INVARIANTS
  TypeOK
  NoUnknownError
  LayersFollowParents
  ErrorMeansCycle
  WorkIsBounded
PROPERTY SortEnds
