SPECIFICATION UdpSpec
CONSTANTS
  Sources = {s1}
  Hosts = {"h1", "h2"}
  Ports = {1, 2}
  Targets <- Destinations
  Slots = {g1, g2}
  SessionCapacity = 2
  StaleAfter = 1
  MaxDatagrams = 2
INVARIANTS
  ForwardsOwnPacket
CHECK_DEADLOCK FALSE
