------------------------------ MODULE MC_TxPool ------------------------------
(* Small instances of TxPool for TLC.  Gas words are 3 bits wide (signed  *)
(* reading wraps at 4) and the gas floor is 2, so the inputs below fall    *)
(* on both sides of the floor and, in MCWrapTxs, past the sign bit.        *)
EXTENDS TxPool

MkTx(n, g, p, v, c) ==
  [sender |-> "s1", nonce |-> n, gas |-> g, price |-> p, value |-> v, chain |-> c]

\* admitted (cost 2, price 1), admitted at nonce 1 (cost 0, price 0), below
\* the gas floor, unaffordable (cost 4), foreign chain (2, which is 2 also
\* in its low WordBits bits); the two admitted
\* ones list in opposite orders by price and by nonce
MCTxs == {MkTx(0, 2, 1, 0, 1), MkTx(1, 2, 0, 0, 1), MkTx(0, 1, 1, 0, 1),
          MkTx(1, 3, 1, 1, 1), MkTx(1, 2, 1, 0, 2)}

\* two admissible transactions of nonces 1 and 0
MCNonceTxs == {MkTx(1, 2, 1, 0, 1), MkTx(0, 2, 1, 0, 1)}

\* gas 5 is int64 -3: cost 1 * -3 <= balance 0, exact cost 5
MCWrapTxs == {MkTx(0, 5, 1, 0, 1)}


==============================================================================
