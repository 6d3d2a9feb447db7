CONSTANTS
  a = a
  b = b
  c = c
  m1 = m1
  m2 = m2
  m3 = m3
  m4 = m4
  m5 = m5
  m6 = m6
  Nodes = {a, b}
  Msgs = {m1, m2, m3, m4, m5, m6}
  peer_list <- PairPeers
  Author <- ThreeEach
  Cap = 1
  NoMsg = NoMsg
  Nobody = Nobody
SPECIFICATION FairSpec
CHECK_DEADLOCK FALSE
PROPERTY InputReturns
