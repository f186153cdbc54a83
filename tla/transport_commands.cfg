SPECIFICATION Spec
CONSTANTS
  Interfaces = {e1, e2}
  Shelves <- OneShelf
  Destinations <- CommandsOnly
  DefaultWindow = 4
  BufferCounts = {2}
  UserWindows = {1}
  MaxTag = 4
  CableEvents = FALSE
  UserSearches = FALSE
SYMMETRY PortSymmetry
INVARIANTS
  TypeOK
  QueuedUnlessOnWire
  QueuesOnUsedPorts
  Accounting
  FractionBelowWindow
PROPERTIES
  FirstSendWithinWindow
  NotDroppedUnsent
