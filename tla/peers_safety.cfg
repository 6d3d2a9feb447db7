CONSTANTS
  peer1 = peer1
  peer2 = peer2
  Peers = {peer1, peer2}
  MayExit = {peer1}
  Lists <- SomeLists
  MaxUpdates = 2
  Senders = {s1, s2}
  Msgs = {m1, m2}
  NoMsg = NoMsg
  Nobody = Nobody
SPECIFICATION FairSpec
CHECK_DEADLOCK FALSE
INVARIANT TypeOK
INVARIANT ConnectedGetMessage
INVARIANT OneCopyPerListing
INVARIANT ListIsLast
 
 
