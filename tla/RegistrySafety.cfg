SPECIFICATION Spec
CONSTANTS
  Accounts = {a1, a2}
  Devices = {d1}
  NoAccount = NoAccount
  NoDevice = NoDevice
  NodeIds = {n1, n2, n3}
  NoNode = NoNode
  IPs = {i1, i2}
  NoIP = NoIP
  Registrars = {r1, r2}
  Deleters = {x1}
  MaxDevices = 1
  LookupErrors = TRUE
SYMMETRY Symmetry
INVARIANTS
  TypeOK
  AllocationsTrue
  AddressesDistinct
  DevicesDistinct
  LimitOvershootBounded
PROPERTIES
  LinkedDeviceStays
