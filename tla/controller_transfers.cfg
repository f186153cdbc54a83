SPECIFICATION Spec
CHECK_DEADLOCK FALSE
CONSTANTS
  Targets = {"t1"}
  Ports <- TwoPorts
  Commands <- Transfers
  SectorsPerPacket <- OneOrTwo
  Capacities <- One
  OfflineTicks = 2
  MaxTag = 7
  TagsWrap = FALSE
  Searches = TRUE
  UserSearches = FALSE
  CableEvents = TRUE
INVARIANTS
  TypeOK
  DataInPlace
  
  AwaitedReplies
  PacketsInTransfer
