\* HTTP requests, which meet both Middleware and Allow.
CONSTANTS
  Reqs = {r1, r2, r3}
  Peers <- MCPeers
  Headers <- MCHeaders
  Methods <- MCMethods
  Transports = {"http"}
  GlobalRate = 2
  GlobalBurst = 3
  IpRate = 1
  IpBurst = 2
  MethodLimits <- MCMethodLimits
  MaxTime = 0

SPECIFICATION Spec
INVARIANT OneTokenPerScope
CHECK_DEADLOCK FALSE
