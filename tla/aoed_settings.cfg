SPECIFICATION FairSpec
CONSTANTS
  Ports <- TwoPorts
  AllPorts <- BothPorts
  Mtu <- UnequalMtu
  Clients = {a, b}
  None = None
  Sizes = {1, 2}
  DefaultSize = 1
  Options <- CommandLines
  MaxStarts = 2
  MaxFailures = 1
  CableEvents = 2
INVARIANTS
  TypeOK
  PortsAsApplied
  FilteredAsApplied
  PublishedAsUsed
  PacketsFit
  SettingsKept
PROPERTIES
  BootApplies
  InvocationsEnd
CHECK_DEADLOCK FALSE
