\* Two connections each subscribe once: with the constant subscription id the
\* second Subscribe replaces the first connection's registry entry.
CONSTANTS
  c1 = c1
  c2 = c2
  Conns = {c1, c2}
  SubTypes <- MCSubTypes
  SendChanCap = 1
  MaxConnections = 2
  NumBlocks = 0
  NumTxs = 0
  MaxRequests <- MCOneRequest
  MaxSubscribes = 2
  UnknownId = unknownId
  NoSub = NoSub

SPECIFICATION Spec
INVARIANT OwnSubscriptionsLive
CHECK_DEADLOCK FALSE
