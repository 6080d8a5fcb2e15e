SPECIFICATION Spec
CONSTANTS
  a = a
  root = root
  folder_type = folder_type
  NodeIds = {root, folder_type, a}
  Types = {"Organizes", "HasComponent", "HasTypeDefinition"}
  Aggregating = {"HasComponent"}
  Hierarchical = {"Organizes", "HasComponent"}
  Added = {"Organizes", "HasComponent"}
  TypeNodes = {folder_type}
  HasTypeDefinition = "HasTypeDefinition"
  Organizes = "Organizes"
  browse_name <- SharedNames
  Views <- RootViews
  Requested = {0, 1}
  default_max_references = 2
  max_browse_continuation_points = 2
  MaxModified = 2
INVARIANTS BrowsedBothWays PointsMissNothing PointsInOrder PointsGoOn
PROPERTY DeletedIsGone
CHECK_DEADLOCK FALSE
