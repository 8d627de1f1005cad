SPECIFICATION Spec
CONSTANTS
  Relays = {r1}
  NoRelay = NoRelay
  Capacity <- Capacities
  Handlers = {h1, h2}
  NoHandler = NoHandler
  Devices = {d1}
  MeshKeys = {k1, k2}
  NoKey = NoKey
  Beat = 2
  Fresh = 5
  MaxPairs = 2
  MaxRekeys = 1
  MaxRestarts = 1
  MaxRotations = 1
  Clients = {c1, c2}
  Emails = {e1, e2}
  NoEmail = NoEmail
  MaxIds = 4
  MaxDbFaults = 1
  MaxPanelFaults = 2
  MaxDeletes = 1
  Sources = {s1}
  Hosts = {"h1", "h2"}
  Ports = {1, 2}
  Targets <- Destinations
  Slots = {g1, g2}
  SessionCapacity = 1
  StaleAfter = 1
  MaxDatagrams = 2
  MaxFrames = 2
  MaxReplies = 2
  Addresses = {a1, a2}
  PeerKeys = {1, 2}
  MaxTroubles = 2
CHECK_DEADLOCK FALSE
INVARIANTS
  ServicesTypeOK
  AnswersStored
  StaysListed
  FreshTokensAdmitted
  QuotaOwn
  QuietMeansLinked
  SessionsSound
  FramesInStep
  HostSound
  CurrentPeersRouted
PROPERTIES
  StoredStays
  StruckOffUnlisted
  TcpConnectionsEnd
  ClientsEndLinked
  ExitNodeServes
