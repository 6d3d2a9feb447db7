CONSTANTS
  a = a
  b = b
  c = c
  Clients = {a, b, c}
  MayLeave = {a}
  MayStall = {}
  Fds = {3, 4, 5}
  Cap = 1
  NoFd = NoFd
  Nobody = Nobody
SPECIFICATION Spec
CHECK_DEADLOCK FALSE
INVARIANT ServerSurvives
