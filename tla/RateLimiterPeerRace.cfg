\* Two first WebSocket requests of one peer, a peer burst of 1.
CONSTANTS
  Reqs = {r1, r2, r3}
  Peers <- MCPeers
  Headers <- MCHeaders
  Methods <- MCMethods
  Transports = {"ws"}
  GlobalRate = 2
  GlobalBurst = 3
  IpRate = 1
  IpBurst = 1
  MethodLimits <- MCMethodLimits
  MaxTime = 0

SPECIFICATION Spec
INVARIANT PeerWindowBound
CHECK_DEADLOCK FALSE
