SPECIFICATION Spec
CONSTANTS
  Accounts = {a1}
  NoAccount = NoAccount
  Devices = {d1}
  NoDevice = NoDevice
  NodeIds = {n1, n2}
  NoNode = NoNode
  IPs = {i1, i2}
  NoIP = NoIP
  Registrars = {r1, r2}
  Deleters = {x1}
  MaxDevices = 1
  LookupErrors = FALSE
INVARIANTS
  AntifraudPromises
