\* Two admissible transactions of one sender, nonces 1 and 0, no chain advance
\* needed: spec §8.7 says the second is rejected.
CONSTANTS
  Reqs = {r1, r2}
  Removers = {}
  Senders = {"s1"}
  BadInputs = {bad}
  Txs <- MCNonceTxs
  ChainID = 1
  WordBits = 3
  GasFloor = 2
  Balances = {3}
  MaxNonce = 1
  MaxFaults = 0
SPECIFICATION Spec
PROPERTY NonceMonotone
CHECK_DEADLOCK FALSE
