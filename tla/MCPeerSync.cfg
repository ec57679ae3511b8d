CONSTANTS
  p = p
  q = q
  Peers <- MCPeers
  Parent <- Branches
  InitHead = 1
  PeerHeads <- AtFirst
  Lib = 1
  Limit = 2
  MinPrefetch = 1
  MaxPerPeer = 1
  MaxHandled = 1
  MaxReceived = 1
  MaxDrops = 1
  MaxExtends = 2
SYMMETRY BothAlike
SPECIFICATION Spec
INVARIANTS RequestsLive HonestBlocksKept RestsInSync
CHECK_DEADLOCK FALSE
