\* One transaction whose gas has the sign bit set, sent by an empty account.
CONSTANTS
  Reqs = {r1}
  Removers = {}
  Senders = {"s1"}
  BadInputs = {bad}
  Txs <- MCWrapTxs
  ChainID = 1
  WordBits = 3
  GasFloor = 2
  Balances = {0}
  MaxNonce = 1
  MaxFaults = 0
SPECIFICATION Spec
INVARIANT PooledTxAdmissible
CHECK_DEADLOCK FALSE
