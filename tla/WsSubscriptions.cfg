\* Safety of the subscription registry and the notify fan-out, and liveness
\* of connection teardown: two connections that subscribe, unsubscribe and
\* disconnect while the two listeners deliver one block and one transaction.
\* Two Subscribe calls make the constant id collide, within c1 or across the
\* two connections, so the registry edits overwrite each other's entries; no
\* symmetry, because the liveness property is checked in the same run.
CONSTANTS
  c1 = c1
  c2 = c2
  Conns = {c1, c2}
  SubTypes <- MCNewHeadsOnly
  SendChanCap = 1
  MaxConnections = 2
  NumBlocks = 1
  NumTxs = 1
  MaxRequests <- MCMaxRequests
  MaxSubscribes = 2
  UnknownId = unknownId
  NoSub = NoSub

SPECIFICATION Spec

INVARIANT TypeOK
INVARIANT RegistryIndexed
INVARIANT NoSendOnClosedChannel
INVARIANT DroppedOnClose
PROPERTY NoNotificationAfterUnsubscribe
PROPERTY DeadWriterReaped

\* The listeners block in ReceiveMessage once the bounded pub/sub traffic is
\* consumed and every connection has closed: the server idles there.
CHECK_DEADLOCK FALSE
