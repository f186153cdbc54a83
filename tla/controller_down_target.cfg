SPECIFICATION FairSpec
CHECK_DEADLOCK FALSE
CONSTANTS
  Targets = {"t1"}
  Ports <- OnePort
  Commands <- NoCommands
  SectorsPerPacket <- One
  Capacities <- One
  OfflineTicks = 2
  MaxTag = 5
  TagsWrap = TRUE
  Searches = TRUE
  UserSearches = FALSE
  CableEvents = TRUE
PROPERTIES
  SilentRemoved
