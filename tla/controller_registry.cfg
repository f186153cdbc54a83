SPECIFICATION Spec
CHECK_DEADLOCK FALSE
CONSTANTS
  Targets = {"t1", "t2"}
  Ports <- OnePort
  Commands <- Faked
  SectorsPerPacket <- One
  Capacities <- One
  OfflineTicks = 1
  MaxTag = 7
  TagsWrap = FALSE
  Searches = TRUE
  UserSearches = TRUE
  CableEvents = TRUE
INVARIANTS
  NumbersUnique
  RemovedInTurn
PROPERTIES
  PurgedFirstCancelled
  FakedAnswered
