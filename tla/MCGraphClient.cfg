SPECIFICATION ClientSpec
CONSTANTS
  Draft <- SmallDrafts
  Delta <- SmallDeltas
  EdgeName = {1, 2}
  MaxEdges = 2
  MaxGroups = 3
  EdgeKey <- CollidingEdge
  NameKey <- CollidingName
  PairKey <- CollidingPair
  MaxDocId = 2
INVARIANTS
  NothingDangles
  MergeMeaning
PROPERTIES
  ImplementsGraph
