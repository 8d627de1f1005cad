SPECIFICATION FairSpec
CONSTANTS
  Pubkeys = {p1, p2}
  Conns = {c1, c2}
  MaxSessions = 1
  MaxDatagrams = 2
  NoKey = NoKey
  NoConn = NoConn
  NoDatagram = NoDatagram
PROPERTIES
  ClosedStreamsLeave
  ForwardReturns
