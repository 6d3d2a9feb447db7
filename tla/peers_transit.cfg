CONSTANTS
  peer1 = peer1
  peer2 = peer2
  Peers = {peer1, peer2}
  MayExit = {}
  Lists <- BothPeers
  MaxUpdates = 2
  Senders = {s1, s2}
  Msgs = {m1}
  NoMsg = NoMsg
  Nobody = Nobody
SPECIFICATION Spec
CHECK_DEADLOCK FALSE
INVARIANT InTransitUnaffected
