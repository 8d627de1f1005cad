SPECIFICATION Spec
CONSTANTS
  Nodes = {n1, n2, n3, n4}
  Src = n1
  Dst = n2
  Costs = {0, 1, 9}
  NoNode = NoNode
CHECK_DEADLOCK FALSE
INVARIANTS
  TypeOK
  RelayIsMiddle
PROPERTIES
  FindsCheapest
