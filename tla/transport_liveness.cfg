SPECIFICATION FairSpec
CONSTANTS
  Interfaces = {e1, e2}
  Shelves <- OneShelf
  Destinations <- CommandsAndSearches
  DefaultWindow = 4
  BufferCounts = {1}
  UserWindows = {}
  MaxTag = 2
  CableEvents = FALSE
  UserSearches = FALSE
INVARIANTS
  NoSlotLost
PROPERTIES
  EverythingSettles
  NothingStuck
