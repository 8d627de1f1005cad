SPECIFICATION FairSpec
CONSTANTS
  c1 = c1
  c2 = c2
  e1 = e1
  Nodes = {c1, c2, e1}
  NoNode = NoNode
  Pairs <- ClientPair
  Planners = {p1}
  StaleAfter = 1
  ScanEvery = 1
  RouteTTL = 1
  Retention = 2
  MaxLost = 1
PROPERTIES
  ExpiredAreRemoved
