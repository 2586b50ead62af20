--------------------------- MODULE WsSubscriptions ---------------------------
(***************************************************************************)
(* The WebSocket side of the gateway: the server's connection table, the   *)
(* reader (handleConnection) and writer (writePump) goroutines of every    *)
(* connection, and the SubscriptionManager whose two pub/sub listeners     *)
(* fan notifications out into the connections' bounded send channels.      *)
(*                                                                         *)
(* Source: unnamed/part_008 (server/subscription.go) and unnamed/part_009  *)
(* (server/websocket.go).  The registry methods run under sm.mu.Lock and   *)
(* are single actions; a notify loop holds sm.mu.RLock across all its      *)
(* sends, and each send is split into the closed-flag check and the        *)
(* channel operation, which WebSocketConnection.Send performs without a    *)
(* lock.  The logs fan-out (notifyLogs) is not part of this module.        *)
(***************************************************************************)
EXTENDS Naturals, Sequences, FiniteSets, Functions, TLC

CONSTANTS
  Conns,          \* WebSocket connections clients open (model values)
  SubTypes,       \* subscription types clients request
  SendChanCap,    \* capacity of WebSocketConnection.sendChan (256 in the code)
  MaxConnections, \* WSConfig.MaxConnections, 0 meaning unlimited
  NumBlocks,      \* block hashes the indexer publishes on blocks:new
  NumTxs,         \* transaction hashes published on pool:new
  MaxRequests,    \* bound: client messages each connection reads (a function)
  MaxSubscribes,  \* bound: Subscribe calls in a behaviour
  UnknownId,      \* a subscription id that no Subscribe returned
  NoSub           \* sentinel: no subscription

ASSUME SendChanCap \in Nat \ {0}
ASSUME MaxConnections \in Nat
ASSUME {NumBlocks, NumTxs, MaxSubscribes} \subseteq Nat
ASSUME MaxRequests \in [Conns -> Nat]

SubscriptionNewHeads == "newHeads"
SubscriptionNewPendingTransactions == "newPendingTransactions"

(* generateSubscriptionID formats the first 16 bytes of the 32-byte        *)
(* big-endian encoding of 1, which are all zero: every call returns the    *)
(* same id.                                                                *)
GenerateSubscriptionID == "0x00000000000000000000000000000000"

Ids == {GenerateSubscriptionID, UnknownId}
Channels == {"blocks:new", "pool:new"}

(* A *Subscription; serial stands for the pointer's identity.              *)
Subscription ==
  [id: {GenerateSubscriptionID}, type: SubTypes, conn: Conns, serial: 1..MaxSubscribes]

(* Messages put on a sendChan: replies to eth_subscribe / eth_unsubscribe, *)
(* any other response, and eth_subscription notifications.  serial is the  *)
(* subscription a notification or unsubscribe reply concerns (0: none);    *)
(* the result payloads are left out.                                       *)
Msg == [kind: {"subAck", "unsubAck", "resp", "notif"}, id: Ids \cup {"none"},
        serial: 0..MaxSubscribes]
NoMsg == [kind |-> "resp", id |-> "none", serial |-> 0]

VARIABLES
  subscriptions, \* SubscriptionManager.subscriptions: id -> subscription
  connections,   \* SubscriptionManager.connections: conn -> (id -> subscription)
  nextSerial,    \* identity of the next Subscription allocated
  serverConns,   \* WebSocketServer.connections
  rd,            \* pc of each connection's accept path and reader goroutine
  reqs,          \* client messages read so far, per connection
  reply,         \* the reply the reader goroutine is about to Send
  closed,        \* WebSocketConnection.closed; closeChan and sendChan close with it
  sendChan,      \* contents of WebSocketConnection.sendChan
  unsubAcked,    \* history: subscriptions whose eth_unsubscribe reply was sent
  wr,            \* pc of each connection's writePump goroutine
  lst,           \* the listenNewBlocks and listenNewPendingTransactions goroutines
  sendOnClosed   \* a send on a closed sendChan happened: a Go runtime panic

vars == <<subscriptions, connections, nextSerial, serverConns, rd, reqs, reply,
          closed, sendChan, unsubAcked, wr, lst, sendOnClosed>>

ReaderPCs == {"Dial", "Upgrade", "Read", "Reply", "Cleanup", "Unsub", "Close",
              "Done", "Refused"}
WriterPCs == {"Idle", "Run", "Exited"}
ListenerPCs == {"Recv", "Iter", "Enq"}

EmptyMap == [i \in {} |-> NoSub]

RemoveKey(f, k) == Restrict(f, DOMAIN f \ {k})

ConnSubs(c) == IF c \in DOMAIN connections THEN connections[c] ELSE EmptyMap

(* A notify loop holds sm.mu.RLock from taking its subscription snapshot   *)
(* until it has sent to every subscription; Lock waits for it.             *)
RLockHeld == \E ch \in Channels : lst[ch].pc \in {"Iter", "Enq"}

SubsOfType(t) == {subscriptions[i] : i \in {j \in DOMAIN subscriptions :
                                              subscriptions[j].type = t}}

-----------------------------------------------------------------------------
(* WebSocketConnection.Send after its closed check: the non-blocking send   *)
(* on sendChan, which drops the message when the channel is full.          *)
Enqueue(c, m) ==
  sendChan' = [sendChan EXCEPT ![c] =
                 IF Len(@) < SendChanCap THEN Append(@, m) ELSE @]

(* WebSocketConnection.Send called by the connection's own reader; an     *)
(* eth_unsubscribe reply that passes the closed check is recorded.         *)
Send(c, m) ==
  IF closed[c]
  THEN UNCHANGED <<sendChan, unsubAcked>>
  ELSE /\ Enqueue(c, m)
       /\ unsubAcked' = [unsubAcked EXCEPT ![c] =
                           IF m.kind = "unsubAck" THEN @ \cup {m.serial} ELSE @]

-----------------------------------------------------------------------------
(* handleWebSocket: the connection-limit check, made under connMutex.RLock *)
(* and released before the connection is registered.                      *)
CheckLimit(c) ==
  /\ rd[c] = "Dial"
  /\ rd' = [rd EXCEPT ![c] =
              IF MaxConnections > 0 /\ Cardinality(serverConns) >= MaxConnections
              THEN "Refused" ELSE "Upgrade"]
  /\ UNCHANGED <<subscriptions, connections, nextSerial, serverConns, reqs, reply,
                 closed, sendChan, unsubAcked, wr, lst, sendOnClosed>>

(* handleWebSocket: Upgrade (which may fail), registration in              *)
(* s.connections, and the start of writePump and handleConnection.         *)
Accept(c) ==
  /\ rd[c] = "Upgrade"
  /\ \/ /\ rd' = [rd EXCEPT ![c] = "Refused"]
        /\ UNCHANGED <<serverConns, wr>>
     \/ /\ serverConns' = serverConns \cup {c}
        /\ rd' = [rd EXCEPT ![c] = "Read"]
        /\ wr' = [wr EXCEPT ![c] = "Run"]
  /\ UNCHANGED <<subscriptions, connections, nextSerial, reqs, reply, closed,
                 sendChan, unsubAcked, lst, sendOnClosed>>

(* handleSubscribe with well-formed params: SubscriptionManager.Subscribe  *)
(* stores the new subscription under the generated id in both maps, then   *)
(* the reader replies with the id.                                         *)
Subscribe(c, t) ==
  /\ rd[c] = "Read"
  /\ reqs[c] < MaxRequests[c]
  /\ nextSerial <= MaxSubscribes
  /\ ~RLockHeld
  /\ LET sub == [id |-> GenerateSubscriptionID, type |-> t, conn |-> c,
                 serial |-> nextSerial]
     IN /\ subscriptions' = (sub.id :> sub) @@ subscriptions
        /\ connections' = (c :> ((sub.id :> sub) @@ ConnSubs(c))) @@ connections
        /\ reply' = [reply EXCEPT ![c] = [kind |-> "subAck", id |-> sub.id,
                                          serial |-> sub.serial]]
  /\ nextSerial' = nextSerial + 1
  /\ reqs' = [reqs EXCEPT ![c] = @ + 1]
  /\ rd' = [rd EXCEPT ![c] = "Reply"]
  /\ UNCHANGED <<serverConns, closed, sendChan, unsubAcked, wr, lst, sendOnClosed>>

(* Fault variant: Unsubscribe edits the registry without sm.mu.Lock.      *)
UnsubscribeUnlocked(c, id) ==
  /\ rd[c] = "Read"
  /\ reqs[c] < MaxRequests[c]
  /\ IF id \notin DOMAIN subscriptions
     THEN /\ reply' = [reply EXCEPT ![c] = NoMsg]
          /\ UNCHANGED <<subscriptions, connections>>
     ELSE LET sub  == subscriptions[id]
              rest == RemoveKey(ConnSubs(sub.conn), id)
          IN /\ subscriptions' = RemoveKey(subscriptions, id)
             /\ connections' =
                  IF sub.conn \notin DOMAIN connections THEN connections
                  ELSE IF DOMAIN rest = {} THEN RemoveKey(connections, sub.conn)
                  ELSE [connections EXCEPT ![sub.conn] = rest]
             /\ reply' = [reply EXCEPT ![c] = [kind |-> "unsubAck", id |-> id,
                                               serial |-> sub.serial]]
  /\ reqs' = [reqs EXCEPT ![c] = @ + 1]
  /\ rd' = [rd EXCEPT ![c] = "Reply"]
  /\ UNCHANGED <<nextSerial, serverConns, closed, sendChan, unsubAcked, wr, lst, sendOnClosed>>

(* Fault variant: Unsubscribe without deleting the connection's emptied   *)
(* map from sm.connections.                                                *)
UnsubscribeKeepsEmptyMap(c, id) ==
  /\ rd[c] = "Read"
  /\ reqs[c] < MaxRequests[c]
  /\ ~RLockHeld
  /\ IF id \notin DOMAIN subscriptions
     THEN /\ reply' = [reply EXCEPT ![c] = NoMsg]
          /\ UNCHANGED <<subscriptions, connections>>
     ELSE LET sub  == subscriptions[id]
          IN /\ subscriptions' = RemoveKey(subscriptions, id)
             /\ connections' =
                  IF sub.conn \notin DOMAIN connections THEN connections
                  ELSE [connections EXCEPT ![sub.conn] = RemoveKey(@, id)]
             /\ reply' = [reply EXCEPT ![c] = [kind |-> "unsubAck", id |-> id,
                                               serial |-> sub.serial]]
  /\ reqs' = [reqs EXCEPT ![c] = @ + 1]
  /\ rd' = [rd EXCEPT ![c] = "Reply"]
  /\ UNCHANGED <<nextSerial, serverConns, closed, sendChan, unsubAcked, wr, lst, sendOnClosed>>

(* handleUnsubscribe: SubscriptionManager.Unsubscribe(id) removes whatever *)
(* subscription the registry holds under id, whichever connection owns it, *)
(* and the connection's map entry when it becomes empty; an unknown id is  *)
(* an error reply.                                                         *)
Unsubscribe(c, id) ==
  /\ rd[c] = "Read"
  /\ reqs[c] < MaxRequests[c]
  /\ ~RLockHeld
  /\ IF id \notin DOMAIN subscriptions
     THEN /\ reply' = [reply EXCEPT ![c] = NoMsg]
          /\ UNCHANGED <<subscriptions, connections>>
     ELSE LET sub  == subscriptions[id]
              rest == RemoveKey(ConnSubs(sub.conn), id)
          IN /\ subscriptions' = RemoveKey(subscriptions, id)
             /\ connections' =
                  IF sub.conn \notin DOMAIN connections THEN connections
                  ELSE IF DOMAIN rest = {} THEN RemoveKey(connections, sub.conn)
                  ELSE [connections EXCEPT ![sub.conn] = rest]
             /\ reply' = [reply EXCEPT ![c] = [kind |-> "unsubAck", id |-> id,
                                               serial |-> sub.serial]]
  /\ reqs' = [reqs EXCEPT ![c] = @ + 1]
  /\ rd' = [rd EXCEPT ![c] = "Reply"]
  /\ UNCHANGED <<nextSerial, serverConns, closed, sendChan, unsubAcked, wr, lst, sendOnClosed>>

(* handleConnection: any other request, a batch, a parse error or          *)
(* malformed subscribe params: one response, no registry change.           *)
OtherRequest(c) ==
  /\ rd[c] = "Read"
  /\ reqs[c] < MaxRequests[c]
  /\ reqs' = [reqs EXCEPT ![c] = @ + 1]
  /\ reply' = [reply EXCEPT ![c] = NoMsg]
  /\ rd' = [rd EXCEPT ![c] = "Reply"]
  /\ UNCHANGED <<subscriptions, connections, nextSerial, serverConns, closed,
                 sendChan, unsubAcked, wr, lst, sendOnClosed>>

(* The reader sends the reply it prepared and reads the next message.      *)
Reply(c) ==
  /\ rd[c] = "Reply"
  /\ Send(c, reply[c])
  /\ rd' = [rd EXCEPT ![c] = "Read"]
  /\ reply' = [reply EXCEPT ![c] = NoMsg]
  /\ UNCHANGED <<subscriptions, connections, nextSerial, serverConns, reqs, closed,
                 wr, lst, sendOnClosed>>

(* ReadMessage fails: the client closed the connection or the socket broke. *)
ReadError(c) ==
  /\ rd[c] = "Read"
  /\ rd' = [rd EXCEPT ![c] = "Cleanup"]
  /\ UNCHANGED <<subscriptions, connections, nextSerial, serverConns, reqs, reply,
                 closed, sendChan, unsubAcked, wr, lst, sendOnClosed>>

(* Fault variant: the deadline is taken to fire only while pings flow.   *)
ReadDeadlineWhilePinged(c) ==
  /\ rd[c] = "Read"
  /\ wr[c] = "Run"
  /\ rd' = [rd EXCEPT ![c] = "Cleanup"]
  /\ UNCHANGED <<subscriptions, connections, nextSerial, serverConns, reqs, reply,
                 closed, sendChan, unsubAcked, wr, lst, sendOnClosed>>

(* The 60 s read deadline expires.  Only the pong handler extends it and   *)
(* pongs answer the pings writePump sends, so once writePump has exited    *)
(* the deadline is certain to pass.                                        *)
ReadDeadline(c) ==
  /\ rd[c] = "Read"
  /\ wr[c] = "Exited"
  /\ rd' = [rd EXCEPT ![c] = "Cleanup"]
  /\ UNCHANGED <<subscriptions, connections, nextSerial, serverConns, reqs, reply,
                 closed, sendChan, unsubAcked, wr, lst, sendOnClosed>>

(* Fault variant: only the connection's own map is dropped.              *)
UnsubscribeAllKeepsRegistry(c) ==
  IF c \notin DOMAIN connections
  THEN UNCHANGED <<subscriptions, connections>>
  ELSE /\ connections' = RemoveKey(connections, c)
       /\ UNCHANGED subscriptions

(* SubscriptionManager.UnsubscribeAll: deletes from the registry every id  *)
(* the connection's map holds, whichever subscription is stored under it.  *)
UnsubscribeAll(c) ==
  IF c \notin DOMAIN connections
  THEN UNCHANGED <<subscriptions, connections>>
  ELSE /\ subscriptions' = Restrict(subscriptions,
                                    DOMAIN subscriptions \ DOMAIN connections[c])
       /\ connections' = RemoveKey(connections, c)

(* Fault variant: the deferred calls in the other order, Close before     *)
(* UnsubscribeAll.                                                         *)
CleanupCloseFirst(c) ==
  /\ \/ /\ rd[c] = "Cleanup"
        /\ serverConns' = serverConns \ {c}
        /\ rd' = [rd EXCEPT ![c] = "Close"]
        /\ UNCHANGED <<subscriptions, connections, closed>>
     \/ /\ rd[c] = "Close"
        /\ closed' = [closed EXCEPT ![c] = TRUE]
        /\ rd' = [rd EXCEPT ![c] = "Unsub"]
        /\ UNCHANGED <<subscriptions, connections, serverConns>>
     \/ /\ rd[c] = "Unsub"
        /\ ~RLockHeld
        /\ UnsubscribeAll(c)
        /\ rd' = [rd EXCEPT ![c] = "Done"]
        /\ UNCHANGED <<serverConns, closed>>
  /\ UNCHANGED <<nextSerial, reqs, reply, sendChan, unsubAcked, wr, lst, sendOnClosed>>

(* Fault variant: the deferred cleanup without its UnsubscribeAll.        *)
CleanupNoUnsubscribe(c) ==
  /\ \/ /\ rd[c] = "Cleanup"
        /\ serverConns' = serverConns \ {c}
        /\ rd' = [rd EXCEPT ![c] = "Unsub"]
        /\ UNCHANGED closed
     \/ /\ rd[c] = "Unsub"
        /\ rd' = [rd EXCEPT ![c] = "Close"]
        /\ UNCHANGED <<serverConns, closed>>
     \/ /\ rd[c] = "Close"
        /\ closed' = [closed EXCEPT ![c] = TRUE]
        /\ rd' = [rd EXCEPT ![c] = "Done"]
        /\ UNCHANGED serverConns
  /\ UNCHANGED <<subscriptions, connections, nextSerial, reqs, reply, sendChan,
                 unsubAcked, wr, lst, sendOnClosed>>

(* The deferred cleanup of handleConnection, in the code's order: leave    *)
(* s.connections, UnsubscribeAll under sm.mu.Lock, then Close.             *)
Cleanup(c) ==
  /\ \/ /\ rd[c] = "Cleanup"
        /\ serverConns' = serverConns \ {c}
        /\ rd' = [rd EXCEPT ![c] = "Unsub"]
        /\ UNCHANGED <<subscriptions, connections, closed>>
     \/ /\ rd[c] = "Unsub"
        /\ ~RLockHeld
        /\ UnsubscribeAll(c)
        /\ rd' = [rd EXCEPT ![c] = "Close"]
        /\ UNCHANGED <<serverConns, closed>>
     \/ /\ rd[c] = "Close"
        /\ closed' = [closed EXCEPT ![c] = TRUE]
        /\ rd' = [rd EXCEPT ![c] = "Done"]
        /\ UNCHANGED <<subscriptions, connections, serverConns>>
  /\ UNCHANGED <<nextSerial, reqs, reply, sendChan, unsubAcked, wr, lst, sendOnClosed>>

-----------------------------------------------------------------------------
(* writePump: write the next queued message.  A buffered message is still  *)
(* received after sendChan is closed, so this does not test closed.        *)
WriteMessage(c) ==
  /\ wr[c] = "Run"
  /\ sendChan[c] # <<>>
  /\ sendChan' = [sendChan EXCEPT ![c] = Tail(@)]
  /\ UNCHANGED <<subscriptions, connections, nextSerial, serverConns, rd, reqs,
                 reply, closed, unsubAcked, wr, lst, sendOnClosed>>

(* writePump returns because a WriteJSON or ping write failed.            *)
WriteFailed(c) ==
  /\ wr[c] = "Run"
  /\ wr' = [wr EXCEPT ![c] = "Exited"]
  /\ UNCHANGED <<subscriptions, connections, nextSerial, serverConns, rd, reqs,
                 reply, closed, sendChan, unsubAcked, lst, sendOnClosed>>

(* writePump returns after Close: closeChan, or the drained and closed     *)
(* sendChan, is selected.                                                  *)
WriterStopped(c) ==
  /\ wr[c] = "Run"
  /\ closed[c]
  /\ wr' = [wr EXCEPT ![c] = "Exited"]
  /\ UNCHANGED <<subscriptions, connections, nextSerial, serverConns, rd, reqs,
                 reply, closed, sendChan, unsubAcked, lst, sendOnClosed>>

-----------------------------------------------------------------------------
(* listenNewBlocks: receive the next block hash; GetBlockByHash either     *)
(* fails (continue) or returns the block, and notifyNewHeads takes         *)
(* sm.mu.RLock over the newHeads subscriptions.                            *)
ReceiveBlock ==
  LET l == lst["blocks:new"] IN
  /\ l.pc = "Recv"
  /\ l.n < NumBlocks
  /\ \/ lst' = [lst EXCEPT !["blocks:new"].n = @ + 1]
     \/ lst' = [lst EXCEPT !["blocks:new"] =
                  [pc |-> "Iter", n |-> l.n + 1, cur |-> NoSub,
                   todo |-> SubsOfType(SubscriptionNewHeads)]]
  /\ UNCHANGED <<subscriptions, connections, nextSerial, serverConns, rd, reqs,
                 reply, closed, sendChan, unsubAcked, wr, sendOnClosed>>

(* listenNewPendingTransactions: receive the next transaction hash and     *)
(* let notifyNewPendingTransaction take sm.mu.RLock.                       *)
ReceivePendingTx ==
  LET l == lst["pool:new"] IN
  /\ l.pc = "Recv"
  /\ l.n < NumTxs
  /\ lst' = [lst EXCEPT !["pool:new"] =
               [pc |-> "Iter", n |-> l.n + 1, cur |-> NoSub,
                todo |-> SubsOfType(SubscriptionNewPendingTransactions)]]
  /\ UNCHANGED <<subscriptions, connections, nextSerial, serverConns, rd, reqs,
                 reply, closed, sendChan, unsubAcked, wr, sendOnClosed>>

(* One iteration of a notify loop: with nothing left, RUnlock; otherwise   *)
(* take the next subscription and run Send's unlocked closed check.        *)
NotifyNext(ch) ==
  LET l == lst[ch] IN
  /\ l.pc = "Iter"
  /\ \/ /\ l.todo = {}
        /\ lst' = [lst EXCEPT ![ch].pc = "Recv"]
     \/ \E s \in l.todo :
          lst' = [lst EXCEPT ![ch] =
                    [l EXCEPT !.todo = l.todo \ {s},
                              !.pc   = IF closed[s.conn] THEN "Iter" ELSE "Enq",
                              !.cur  = IF closed[s.conn] THEN NoSub ELSE s]]
  /\ UNCHANGED <<subscriptions, connections, nextSerial, serverConns, rd, reqs,
                 reply, closed, sendChan, unsubAcked, wr, sendOnClosed>>

(* The channel operation of SendNotification -> Send: a send on a closed   *)
(* sendChan panics, otherwise the notification is queued or dropped.       *)
NotifySend(ch) ==
  LET l == lst[ch]
      c == l.cur.conn
      m == [kind |-> "notif", id |-> l.cur.id, serial |-> l.cur.serial]
  IN
  /\ l.pc = "Enq"
  /\ IF closed[c]
     THEN /\ sendOnClosed' = TRUE
          /\ UNCHANGED sendChan
     ELSE /\ Enqueue(c, m)
          /\ UNCHANGED sendOnClosed
  /\ lst' = [lst EXCEPT ![ch].pc = "Iter", ![ch].cur = NoSub]
  /\ UNCHANGED <<subscriptions, connections, nextSerial, serverConns, rd, reqs,
                 reply, closed, unsubAcked, wr>>

-----------------------------------------------------------------------------
Init ==
  /\ subscriptions = EmptyMap
  /\ connections = [c \in {} |-> EmptyMap]
  /\ nextSerial = 1
  /\ serverConns = {}
  /\ rd = [c \in Conns |-> "Dial"]
  /\ reqs = [c \in Conns |-> 0]
  /\ reply = [c \in Conns |-> NoMsg]
  /\ closed = [c \in Conns |-> FALSE]
  /\ sendChan = [c \in Conns |-> <<>>]
  /\ unsubAcked = [c \in Conns |-> {}]
  /\ wr = [c \in Conns |-> "Idle"]
  /\ lst = [ch \in Channels |-> [pc |-> "Recv", n |-> 0, todo |-> {}, cur |-> NoSub]]
  /\ sendOnClosed = FALSE

Next ==
  \/ \E c \in Conns :
       \/ CheckLimit(c) \/ Accept(c)
       \/ \E t \in SubTypes : Subscribe(c, t)
       \/ \E id \in Ids : Unsubscribe(c, id)
       \/ OtherRequest(c) \/ Reply(c) \/ ReadError(c) \/ ReadDeadline(c)
       \/ Cleanup(c) \/ WriteMessage(c) \/ WriteFailed(c) \/ WriterStopped(c)
  \/ ReceiveBlock \/ ReceivePendingTx
  \/ \E ch \in Channels : NotifyNext(ch) \/ NotifySend(ch)

(* Goroutines that have work are scheduled; the read deadline is absolute, *)
(* so it fires even when the client keeps sending (strong fairness).       *)
(* Client messages, failures and pub/sub traffic carry no fairness.        *)
Fairness ==
  /\ \A c \in Conns : /\ WF_vars(Reply(c))
                      /\ WF_vars(Cleanup(c))
                      /\ SF_vars(ReadDeadline(c))
  /\ \A ch \in Channels : WF_vars(NotifyNext(ch)) /\ WF_vars(NotifySend(ch))

Spec == Init /\ [][Next]_vars /\ Fairness

-----------------------------------------------------------------------------
(* The state has its types, and sm.connections holds no emptied map:       *)
(* Unsubscribe deletes a connection's entry with its last subscription.    *)
TypeOK ==
  /\ DOMAIN subscriptions \subseteq Ids
  /\ \A i \in DOMAIN subscriptions : subscriptions[i] \in Subscription
  /\ DOMAIN connections \subseteq Conns
  /\ \A c \in DOMAIN connections :
        /\ DOMAIN connections[c] \subseteq Ids \ {UnknownId}
        /\ DOMAIN connections[c] # {}
        /\ \A i \in DOMAIN connections[c] : connections[c][i] \in Subscription
  /\ nextSerial \in 1..(MaxSubscribes + 1)
  /\ serverConns \subseteq Conns
  /\ rd \in [Conns -> ReaderPCs]
  /\ \A c \in Conns : reqs[c] \in 0..MaxRequests[c]
  /\ reply \in [Conns -> Msg]
  /\ closed \in [Conns -> BOOLEAN]
  /\ \A c \in Conns : Len(sendChan[c]) <= SendChanCap
  /\ \A c \in Conns : \A i \in DOMAIN sendChan[c] : sendChan[c][i] \in Msg
  /\ unsubAcked \in [Conns -> SUBSET (1..MaxSubscribes)]
  /\ wr \in [Conns -> WriterPCs]
  /\ \A ch \in Channels : lst[ch].pc \in ListenerPCs
  /\ sendOnClosed \in BOOLEAN

(* Registry consistency: every subscription the notify loops can reach is  *)
(* also recorded for its connection, so UnsubscribeAll on that connection  *)
(* will remove it.  Subscribe, Unsubscribe and UnsubscribeAll each edit    *)
(* both maps, and with the constant id a second Subscribe (of either       *)
(* connection) overwrites the registry entry of the first while an        *)
(* Unsubscribe or UnsubscribeAll of one connection deletes the other's.   *)
RegistryIndexed ==
  \A id \in DOMAIN subscriptions :
    LET s == subscriptions[id] IN
      /\ s.conn \in DOMAIN connections
      /\ id \in DOMAIN connections[s.conn]
      /\ connections[s.conn][id] = s

(* A notify loop never sends on a closed sendChan (a panic that kills the  *)
(* process): the cleanup unsubscribes before Close, and the notify loop's  *)
(* RLock keeps that unsubscribe waiting until its unlocked closed checks   *)
(* and sends are over.                                                     *)
NoSendOnClosedChannel == ~sendOnClosed

(* After the eth_unsubscribe reply that removed a subscription has been    *)
(* sent to a connection, no notification of that subscription follows it  *)
(* on that connection: the registry change waits for running notify loops  *)
(* and the reply goes through the same FIFO channel after them.            *)
NoNotificationAfterUnsubscribe ==
  [][\A ch \in Channels :
       (lst[ch].pc = "Enq" /\ lst'[ch].pc = "Iter")
         => lst[ch].cur.serial \notin unsubAcked[lst[ch].cur.conn]]_vars

(* Spec §4.9: subscription state is attached to the connection and is     *)
(* dropped when the connection closes.  Once the reader's deferred cleanup *)
(* has closed a connection, the notify loops can reach none of its         *)
(* subscriptions, whichever of its requests and of the other connection's  *)
(* subscribes and unsubscribes came before.                                *)
DroppedOnClose ==
  \A c \in Conns :
    closed[c] =>
      /\ c \notin DOMAIN connections
      /\ \A id \in DOMAIN subscriptions : subscriptions[id].conn # c

(* A connection whose writePump has exited is eventually torn down: the    *)
(* read deadline is no longer extended, the reader returns and the         *)
(* deferred cleanup runs to the end.                                       *)
DeadWriterReaped ==
  \A c \in Conns : wr[c] = "Exited" ~> rd[c] = "Done"

(* WSConfig.MaxConnections bounds the connections the server holds.       *)
ConnectionLimit ==
  MaxConnections > 0 => Cardinality(serverConns) <= MaxConnections

(* Every subscription recorded for an open connection is the one the       *)
(* notify loops fan out to under its id: a client's subscription lives     *)
(* until it unsubscribes it or its connection closes.                      *)
OwnSubscriptionsLive ==
  \A c \in DOMAIN connections :
    rd[c] \in {"Read", "Reply"} =>
      \A id \in DOMAIN connections[c] :
        /\ id \in DOMAIN subscriptions
        /\ subscriptions[id] = connections[c][id]
=============================================================================
