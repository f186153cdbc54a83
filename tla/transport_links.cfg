SPECIFICATION Spec
CONSTANTS
  Interfaces = {e1, e2}
  Shelves <- OneShelf
  Destinations <- CommandsAndSearches
  DefaultWindow = 4
  BufferCounts = {2}
  UserWindows = {}
  MaxTag = 2
  CableEvents = TRUE
  UserSearches = TRUE
SYMMETRY PortSymmetry
INVARIANTS
  QueuedUnlessOnWire
  TimersArmed
PROPERTIES
  AtMostOnce
