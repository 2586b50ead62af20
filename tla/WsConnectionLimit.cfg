\* A server limited to one connection, dialled by two clients at once.
CONSTANTS
  c1 = c1
  c2 = c2
  Conns = {c1, c2}
  SubTypes <- MCSubTypes
  SendChanCap = 1
  MaxConnections = 1
  NumBlocks = 0
  NumTxs = 0
  MaxRequests <- MCNoRequest
  MaxSubscribes = 0
  UnknownId = unknownId
  NoSub = NoSub

SPECIFICATION Spec
INVARIANT ConnectionLimit
CHECK_DEADLOCK FALSE
