SPECIFICATION Spec
CHECK_DEADLOCK FALSE
CONSTANTS
  Targets = {"t1"}
  Ports <- OnePort
  Commands <- ReadTwo
  SectorsPerPacket <- One
  Capacities <- One
  OfflineTicks = 2
  MaxTag = 8
  TagsWrap = FALSE
  Searches = TRUE
  UserSearches = FALSE
  CableEvents = FALSE
PROPERTIES
  IdentEndsNothing
