\* The global scope under concurrent HTTP and WebSocket requests: three
\* requests against a global burst of two, so that the bound bites at time 0,
\* and one second of refill.  One client names itself "method:eth_call", so
\* peer checks also meet the method limiter in the shared map.
CONSTANTS
  Reqs = {r1, r2, r3}
  Peers <- MCPeersWithMethodKey
  Headers <- MCHeadersWithMethodKey
  Methods <- MCMethods
  Transports = {"http", "ws"}
  GlobalRate = 1
  GlobalBurst = 2
  IpRate = 1
  IpBurst = 2
  MethodLimits <- MCMethodLimits
  MaxTime = 1

SPECIFICATION Spec
SYMMETRY MCReqSymmetry

INVARIANT TypeOK
 

\* Once every request has been answered and the last second has passed the
\* server waits for new requests: that end state is not a deadlock.
CHECK_DEADLOCK FALSE
