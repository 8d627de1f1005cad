SPECIFICATION Spec
CONSTANTS
  Devices = {d1}
  Writers = {w1}
  Cleaner = Cleaner
  NumChans = 2
  MaxSettings = 2
  MaxPeers = 1
INVARIANTS
  NoStaleHold
