CONSTANTS
  a = a
  b = b
  c = c
  m1 = m1
  m2 = m2
  m3 = m3
  m4 = m4
  m5 = m5
  m6 = m6
  Nodes = {a, b, c}
  Msgs = {m1, m2}
  peer_list <- FanPeers
  Author <- TwoOfA
  Cap = 2
  NoMsg = NoMsg
  Nobody = Nobody
SPECIFICATION Spec
CHECK_DEADLOCK FALSE
INVARIANT RelayedOncePerNode
