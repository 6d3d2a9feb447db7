CONSTANTS
  Clients = {a, b, c, d, e, f}
  minConnections = 4
  PEER_POOL_SIZE = 5
SPECIFICATION Spec
SYMMETRY Symmetry
CHECK_DEADLOCK FALSE
INVARIANT TypeOK
 
INVARIANT TwoWay
 
INVARIANT MessageLength
 
