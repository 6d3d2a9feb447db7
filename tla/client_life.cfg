CONSTANTS
  MESSAGE_LENGTH = 1350
  BlockSize = 16
  KeySize = 512
  IvSize = 16
  LongestText = 462
  OpenSSL <- MCOpenSSL
  Conns = {h1, h2}
  h1 = h1
  h2 = h2
  Me = "me"
  Lengths = {0, 14, 15, 31, 462, 463, 478, 479, 499, 1100}
  Worlds <- MCWorlds
  Feeds <- MCFeeds
  BUFFER_SIZE = 1500
  Cuts = {20, 150, 700, 1350}
  NoMsg = NoMsg
  Garbage = Garbage
SPECIFICATION FairSpec
CHECK_DEADLOCK FALSE
INVARIANT TypeOK
 
INVARIANT EncodedFits
INVARIANT AloneDecodes
INVARIANT CrashNeedsCutOrMix
INVARIANT KeysAreOwn
INVARIANT AloneParses
INVARIANT LoopNeedsResetOrMix
 
PROPERTY BecomesReachable
