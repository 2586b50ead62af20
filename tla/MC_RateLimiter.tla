--------------------------- MODULE MC_RateLimiter ---------------------------
(* Model-checking instance of RateLimiter: one rate-limited method and one *)
(* without a limit, and peer identifiers as the X-Forwarded-For strings    *)
(* clients send.  Requests are interchangeable model values.               *)
EXTENDS RateLimiter

MCMethods == {"eth_call", "eth_blockNumber"}

(* RateLimitConfig.Method: eth_call limited to 1 request per second.       *)
MCMethodLimits == ("eth_call" :> 1) @@ ("eth_blockNumber" :> 0)

(* An honest peer address.                                                 *)
MCPeers == {"10.0.0.1"}

(* The peer's requests: direct, and through proxies that set               *)
(* X-Forwarded-For or X-Real-IP to its address.                            *)
MCHeaders == {[xff |-> "", xri |-> "", remote |-> "10.0.0.1"],
              [xff |-> "10.0.0.1", xri |-> "", remote |-> "10.0.0.9"],
              [xff |-> "", xri |-> "10.0.0.1", remote |-> "10.0.0.9"]}

(* A client that sets X-Forwarded-For to "method:eth_call" besides the    *)
(* honest peer: its peer check loads, or replaces, the eth_call limiter.   *)
MCPeersWithMethodKey == MCPeers \cup {"method:eth_call"}
MCHeadersWithMethodKey ==
  MCHeaders \cup {[xff |-> "method:eth_call", xri |-> "", remote |-> "10.0.0.2"]}

(* Requests are interchangeable: no property names one.                   *)
MCReqSymmetry == Permutations(Reqs)
=============================================================================
