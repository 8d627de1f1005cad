SPECIFICATION Spec
CONSTANTS
  Pubkeys = {p1, p2}
  Conns = {c1, c2, c3}
  MaxSessions = 2
  MaxDatagrams = 2
  NoKey = NoKey
  NoConn = NoConn
  NoDatagram = NoDatagram
SYMMETRY Symmetry
INVARIANTS
  TypeOK
  SessionTableSound
  LiveSessionsRoutable
  FramesWhole
PROPERTIES
  RemovalClosesOrEnds
  DeliversFrames
