CONSTANTS
  Sessions = {"h1"}
  Transport <- MCTransport
  Registrations <- MCRegistrations
  Payloads <- MCBlockNumber
  Ids = {"id1", "id2"}
  LimiterOn = FALSE
  RpcErrCode <- MCRpcErrCode
  NullElement = NullElement
  Documented <- MCDocumented
  Panic = Panic
  WordBits = 4
  MaxHeight = 1
  Hashes = {"h0", "h1", "hz", "t1", "tp"}
  HashOf <- MCHashOf
  TxCount <- MCTxCount
  TxOf <- MCTxOf
  PoolTxs = {"tp"}
SPECIFICATION Spec
INVARIANT EveryRequestAnswered
CHECK_DEADLOCK FALSE
