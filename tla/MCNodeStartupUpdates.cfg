\* Two nodes, one of which may join through the other.
CONSTANTS
  Nodes = {n1, n2}
  NoNode = NoNode
  InitialZone = InitialZone
SPECIFICATION FairSpec
PROPERTIES
  UpdatesReachNodes
\* Every node may be closed, and every request lost.
CHECK_DEADLOCK FALSE
