\* Admission, the pool writes and removals, under interleaving, one KV
\* failure and one chain advance: what an accepted request wrote stays
\* listed, the status count errs only by a removal, and both listings keep
\* their order.
CONSTANTS
  Reqs = {r1, r2}
  Removers = {m1}
  Senders = {"s1"}
  BadInputs = {bad}
  Txs <- MCTxs
  ChainID = 1
  WordBits = 3
  GasFloor = 2
  Balances = {3}
  MaxNonce = 1
  MaxFaults = 1
SPECIFICATION Spec
INVARIANT TypeOK
INVARIANT AcceptedTxListed
INVARIANT StatusOvercountOnlyByRemoval
INVARIANT ListingsOrdered
\* every call has returned and the chain stops advancing at MaxNonce: the
\* final states are terminal
CHECK_DEADLOCK FALSE
