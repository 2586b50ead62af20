------------------------- MODULE MC_WsSubscriptions -------------------------
(* Model-checking instance of WsSubscriptions: two connections, a send     *)
(* channel of one slot (256 in the code) so that drops happen.             *)
EXTENDS WsSubscriptions

CONSTANTS c1, c2

(* Both subscription types the notify loops serve.                        *)
MCSubTypes == {SubscriptionNewHeads, SubscriptionNewPendingTransactions}

(* Clients subscribe to newHeads only: listenNewPendingTransactions still  *)
(* receives its hash and holds sm.mu.RLock over an empty fan-out, so the   *)
(* registry writers still wait on both notify loops.                       *)
MCNewHeadsOnly == {SubscriptionNewHeads}

(* Client messages per connection: c1 reads two (a subscribe and an        *)
(* unsubscribe, or two subscribes whose ids collide), c2 one, so that a    *)
(* Subscribe of c2 can overwrite c1's registry entry.                      *)
MCMaxRequests == (c1 :> 2) @@ (c2 :> 1)

(* The same bound for every connection.                                    *)
MCOneRequest == [c \in {c1, c2} |-> 1]
MCNoRequest == [c \in {c1, c2} |-> 0]

=============================================================================
