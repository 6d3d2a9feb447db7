CONSTANTS
  a = a
  b = b
  c = c
  Clients = {a, b, c}
  MayLeave = {a, b, c}
  MayStall = {}
  Fds = {3, 4, 5}
  Cap = 1
  NoFd = NoFd
  Nobody = Nobody
SPECIFICATION Spec
SYMMETRY Symmetry
CHECK_DEADLOCK FALSE
INVARIANT TypeOK
INVARIANT ListedFdsDiffer
 
INVARIANT RoundInforms
PROPERTY ImplementsRegistry
