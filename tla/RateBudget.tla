----------------------------- MODULE RateBudget -----------------------------
(***************************************************************************)
(* What the rate limiter promises (spec §4.10 and §8.9): every scope key   *)
(* (the global scope, each peer, each configured method) owns one token    *)
(* bucket of rate RateOf[k] and burst BurstOf[k], and every check that     *)
(* lets a request through scope k takes one token of k's bucket.  Time     *)
(* advances in whole seconds; a second refills every bucket up to its      *)
(* burst.  A limiter may deny whenever it likes: only passes are bounded.  *)
(***************************************************************************)
EXTENDS Naturals

CONSTANTS
  Keys,     \* scope keys
  RateOf,   \* Keys -> tokens added per second
  BurstOf   \* Keys -> bucket capacity

VARIABLES
  tokens,   \* tokens left in each key's bucket
  passed,   \* checks of each key that let a request through
  clock     \* whole seconds elapsed

vars == <<tokens, passed, clock>>

Capped(k, n) == IF n > BurstOf[k] THEN BurstOf[k] ELSE n

Init ==
  /\ tokens = [k \in Keys |-> BurstOf[k]]
  /\ passed = [k \in Keys |-> 0]
  /\ clock = 0

(* A check of key k lets a request through and spends one token.          *)
Pass(k) ==
  /\ tokens[k] >= 1
  /\ tokens' = [tokens EXCEPT ![k] = @ - 1]
  /\ passed' = [passed EXCEPT ![k] = @ + 1]
  /\ UNCHANGED clock

(* One second passes.                                                      *)
Tick ==
  /\ clock' = clock + 1
  /\ tokens' = [k \in Keys |-> Capped(k, tokens[k] + RateOf[k])]
  /\ UNCHANGED passed

Next == Tick \/ \E k \in Keys : Pass(k)

Spec == Init /\ [][Next]_vars

(* Spec §8.9 over the window that starts at time 0: a scope lets at most   *)
(* b + r*t requests through in its first t seconds.                        *)
WindowBound ==
  \A k \in Keys : passed[k] <= BurstOf[k] + RateOf[k] * clock
=============================================================================
