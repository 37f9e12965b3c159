SPECIFICATION InfoSpec
CONSTANTS
  User = {"alice", "daoinf"}
  Self = "daoinf"
  Label = {"content_group_label", "variable_details", "note"}
  Value <- Spoken
  MaxEntries = 1
  MaxLabels = 2
  MaxName = 4
  HAS_DAOS = 4
  DAOS = 3
  EdgeKey <- DistinctEdge
  NameKey <- DistinctPair
  PairKey <- DistinctPair
  MaxDocId = 5
INVARIANTS
  InfoTypeOK
  GraphIsTree
PROPERTIES
  ImplementsProfiles
