SPECIFICATION Spec
CONSTANTS
  Devices = {d1, d2}
  Writers = {w1}
  Cleaner = Cleaner
  NumChans = 3
  MaxSettings = 2
  MaxPeers = 1
SYMMETRY Symmetry
INVARIANTS
  NoSlotLeaks
  NoMissedWake
  WakeSeesCommitted
