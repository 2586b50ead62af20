------------------------------ MODULE MC_Cache ------------------------------
(* Instances of the cache layer for TLC: config.CacheConfig sizes and TTLs *)
(* scaled down to one or two items and a few clock ticks.                  *)
EXTENDS Cache

MCBlockOnly == <<"block">>
MCBlockAndTx == <<"block", "tx">>
MCSize == [d \in {"block", "tx", "receipt", "balance", "code"} |-> 1]
MCTTL == [d \in {"block", "tx", "receipt", "balance", "code"} |-> 1]
====
