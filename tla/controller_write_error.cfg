SPECIFICATION Spec
CHECK_DEADLOCK FALSE
CONSTANTS
  Targets = {"t1"}
  Ports <- OnePort
  Commands <- WriteThree
  SectorsPerPacket <- One
  Capacities <- One
  OfflineTicks = 2
  MaxTag = 6
  TagsWrap = FALSE
  Searches = FALSE
  UserSearches = FALSE
  CableEvents = FALSE
INVARIANTS
  WriteErrorReported
