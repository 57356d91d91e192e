\* Three nodes in every topology: chains, circles and several first nodes.
CONSTANTS
  Nodes = {n1, n2, n3}
  NoNode = NoNode
  InitialZone = InitialZone
SPECIFICATION FairSpec
INVARIANTS
  TypeOK
  PeerKnowledgeInherited
  KnownNodesHaveGroups
  OwnRowsNeverReturn
  ZonesAgree
PROPERTIES
  JoinCompletes
\* Every node may be closed, and every request lost.
CHECK_DEADLOCK FALSE
