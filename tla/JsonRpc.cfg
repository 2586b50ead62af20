CONSTANTS
  Sessions = {"h1", "w1"}
  Transport <- MCTransport
  Registrations <- MCRegistrations
  Payloads <- MCPayloads
  Ids = {"id1", "id2"}
  LimiterOn = TRUE
  RpcErrCode <- MCRpcErrCode
  NullElement = NullElement
  Documented <- MCDocumented
  Panic = Panic
  WordBits = 4
  MaxHeight = 1
  Hashes = {"h0", "h1", "hz", "t1", "tp"}
  HashOf <- MCHashOf
  TxCount <- MCTxCount
  TxOf <- MCTxOf
  PoolTxs = {"tp"}
SPECIFICATION Spec
INVARIANTS TypeOK ResponsesMatchRequests
CHECK_DEADLOCK FALSE
