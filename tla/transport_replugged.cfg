SPECIFICATION FairSpec
CONSTANTS
  Interfaces = {e1}
  Shelves <- OneShelf
  Destinations <- CommandsAndSearches
  DefaultWindow = 4
  BufferCounts = {2}
  UserWindows = {}
  MaxTag = 2
  CableEvents = TRUE
  UserSearches = FALSE
PROPERTY
  NothingStuck
