SPECIFICATION FairSpec
CONSTANTS
  Devices = {d1}
  Writers = {w1}
  Cleaner = Cleaner
  NumChans = 2
  MaxSettings = 3
  MaxPeers = 2
PROPERTIES
  ChangesReachDevices
