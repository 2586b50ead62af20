------------------------------ MODULE BlockApi ------------------------------
(***************************************************************************)
(* The block handlers of BlockAPI (unnamed/part_005) over BlockReader      *)
(* (pkg/storage/block.go), PikaClient.Get (pkg/storage/pika.go) and the    *)
(* block-tag parser of pkg/api/types.go.                                   *)
(*                                                                         *)
(* The KV store's block keys are the variable chain, written key by key,   *)
(* in any order, by the indexer (a separate service).  A handler reads it  *)
(* within one step; which of its KV calls fails, if one does, is an input. *)
(* A tag is the string a client sends, abstracted to its form, its hex     *)
(* digits and whether it has upper-case letters; a block is its height.    *)
(***************************************************************************)
EXTENDS Naturals, Integers, Sequences, SequencesExt

CONSTANTS
  WordBits,    \* the width of uint64 and int64, scaled down
  MaxHeight,   \* the highest block the indexer writes
  Hashes,      \* block hashes a client can send
  HashOf,      \* 0..MaxHeight -> Hashes, the hash of each block
  TxCount,     \* 0..MaxHeight -> the number of transactions in each block
  TxOf,        \* mined transaction hash -> [block, index], its place in a body
  PoolTxs      \* hashes stored at tx:{hash} without a lookup: pool transactions

Heights == 0..MaxHeight

(* The codes of pkg/api/types.go that the handlers and the dispatcher      *)
(* produce.                                                                *)
ErrCodeParse == -32700
ErrCodeInvalidRequest == -32600
ErrCodeMethodNotFound == -32601
ErrCodeInvalidParams == -32602
ErrCodeInternal == -32603
ErrCodeLimitExceeded == -32006

NoKey == -1    \* the key is not in the store (redis.Nil)

(* api.LatestBlockNumber, EarliestBlockNumber and PendingBlockNumber.      *)
LatestBlockNumber == -1
EarliestBlockNumber == 0
PendingBlockNumber == -2

(* A tag: "latest", "earliest", "pending", "0x" and hex digits (16 stands  *)
(* for a character that is not one), or any other text; upper means the    *)
(* word or the "0x" prefix has upper-case letters ("Latest", "0X1").       *)
TagInput == [form: {"latest", "earliest", "pending", "hex", "other"},
             digits: Seq(0..16), upper: BOOLEAN]

VARIABLE chain   \* [latest, hdr, body, byHash, tx, lookup] as the KV store holds them

-----------------------------------------------------------------------------
(* strings.ToLower: letters are lower case after it.                       *)
Normalize(t) == [t EXCEPT !.upper = FALSE]

HexValue(ds) == FoldLeft(LAMBDA a, d : 16 * a + d, 0, ds)

(* strconv.ParseUint(s, 16, 64): empty input and a non-hex character are  *)
(* syntax errors, a value past the word is a range error.                  *)
ParseUint16(ds) ==
  IF ds = <<>> \/ \E i \in 1..Len(ds) : ds[i] = 16 \/ HexValue(ds) >= 2^WordBits
    THEN [ok |-> FALSE, n |-> 0]
    ELSE [ok |-> TRUE, n |-> HexValue(ds)]

(* BlockNumber(num): uint64 to int64 keeps the bits.                       *)
Int64Of(n) == IF n >= 2^(WordBits - 1) THEN n - 2^WordBits ELSE n

(* ParseBlockNumber.                                                       *)
ParseBlockNumber(t) ==
  LET u == Normalize(t)
      h == ParseUint16(u.digits)
  IN  CASE u.upper -> [ok |-> FALSE, n |-> 0]
        [] u.form = "latest" -> [ok |-> TRUE, n |-> LatestBlockNumber]
        [] u.form = "earliest" -> [ok |-> TRUE, n |-> EarliestBlockNumber]
        [] u.form = "pending" -> [ok |-> TRUE, n |-> PendingBlockNumber]
        [] u.form = "hex" /\ h.ok -> [ok |-> TRUE, n |-> Int64Of(h.n)]
        [] OTHER -> [ok |-> FALSE, n |-> 0]

-----------------------------------------------------------------------------
(* A read's result: a value, the distinguished not-found, or another error *)
(* (a timeout or a connection error).                                      *)
Ok(n) == [st |-> "ok", n |-> n]
NotFound == [st |-> "notfound", n |-> 0]
Err == [st |-> "error", n |-> 0]

(* PikaClient.Get: redis.Nil becomes ErrNotFound.  The handler's k-th KV   *)
(* call fails when k = fail.                                               *)
KvGet(v, k, fail) ==
  CASE k = fail -> Err
    [] v = NoKey -> NotFound
    [] OTHER -> Ok(v)

(* The BlockReader methods; k numbers the handler's KV calls.              *)
GetLatestBlockNumber(c, k, fail) == KvGet(c.latest, k, fail)
GetBlockNumberByHash(c, h, k, fail) == KvGet(c.byHash[h], k, fail)
GetHeader(c, n, k, fail) == KvGet(IF n \in c.hdr THEN n ELSE NoKey, k, fail)
GetBlockBody(c, n, k, fail) == KvGet(IF n \in DOMAIN c.body THEN c.body[n] ELSE NoKey, k, fail)

(* GetBlock: the header, then the body; the block is its height and the    *)
(* number of transactions its body holds.                                  *)
GetBlock(c, n, k, fail) ==
  LET hd == GetHeader(c, n, k, fail)
      bd == GetBlockBody(c, n, k + 1, fail)
  IN  IF hd.st # "ok" THEN hd ELSE IF bd.st # "ok" THEN bd
      ELSE [st |-> "ok", n |-> n, count |-> bd.n]

GetBlockByHash(c, h, k, fail) ==
  LET num == GetBlockNumberByHash(c, h, k, fail)
  IN  IF num.st # "ok" THEN num ELSE GetBlock(c, num.n, k + 1, fail)

(* GetTransactionCount reads the body alone.                               *)
GetTransactionCount(c, n, k, fail) == GetBlockBody(c, n, k, fail)

GetTransactionCountByHash(c, h, k, fail) ==
  LET num == GetBlockNumberByHash(c, h, k, fail)
  IN  IF num.st # "ok" THEN num ELSE GetTransactionCount(c, num.n, k + 1, fail)

(* TransactionReader.GetTransaction (tx:{hash}) and GetTransactionLookup   *)
(* (tx:lookup:{hash}, whose JSON gives the transaction's index).           *)
GetTransaction(c, h, k, fail) == KvGet(IF h \in c.tx THEN 0 ELSE NoKey, k, fail)
GetTransactionLookup(c, h, k, fail) ==
  KvGet(IF h \in c.lookup THEN TxOf[h].index ELSE NoKey, k, fail)

(* TransactionReader.GetTransactionByBlockNumberAndIndex: the body, then   *)
(* the index against its transaction count; the transaction is its index.  *)
GetTransactionByBlockNumberAndIndex(c, n, i, k, fail) ==
  LET bd == GetBlockBody(c, n, k, fail)
  IN  CASE bd.st # "ok" -> bd
        [] i >= bd.n -> NotFound
        [] OTHER -> Ok(i)

(* TransactionReader.GetTransactionByBlockHashAndIndex: idx:blk:hash       *)
(* (Sscanf "%d", which reads a stored height as ParseUint does), then the  *)
(* lookup by number.                                                       *)
GetTransactionByBlockHashAndIndex(c, h, i, k, fail) ==
  LET num == KvGet(c.byHash[h], k, fail)
  IN  IF num.st # "ok" THEN num
      ELSE GetTransactionByBlockNumberAndIndex(c, num.n, i, k + 1, fail)

(* BlockNumber.ToUint64.                                                   *)
ToUint64(bn) == IF bn < 0 THEN Err ELSE Ok(bn)

(* BlockAPI.resolveBlockNumber: latest and pending read idx:latest (KV     *)
(* call 1), earliest is 0, any other number goes through ToUint64.         *)
ResolveBlockNumber(c, bn, fail) ==
  CASE bn \in {LatestBlockNumber, PendingBlockNumber} -> GetLatestBlockNumber(c, 1, fail)
    [] bn = EarliestBlockNumber -> Ok(0)
    [] OTHER -> ToUint64(bn)

ResolveCalls(bn) == IF bn \in {LatestBlockNumber, PendingBlockNumber} THEN 1 ELSE 0

-----------------------------------------------------------------------------
(* A handler's return: the outcome as the dispatcher sees it (a result, a  *)
(* nil result, an *api.RPCError with its code, or another error) and the   *)
(* result, a block height or a count.                                      *)
Answer(outcome, code, n) == [outcome |-> outcome, code |-> code, n |-> n, txs |-> <<>>]

(* NewRPCError: an *api.RPCError with its code; the message is left out.   *)
RPCError(code) == Answer("rpcError", code, 0)

(* NewRPCTransaction: the block position (hash, number, index) is set only *)
(* for a non-zero block hash; NewRPCPendingTransaction passes the zero     *)
(* hash.  The other fields are the transaction's own and are left out.     *)
NewRPCTransaction(mined, index) ==
  IF mined THEN Answer("result", 0, index) ELSE Answer("pending", 0, 0)
NewRPCPendingTransaction == NewRPCTransaction(FALSE, 0)

(* The i-th transaction of block n's body, by its hash (a hash names the   *)
(* block and position it was stored at), and as                            *)
(* NewRPCTransaction(tx, block.Hash(), number, i) fills it in.              *)
TxHashAt(n, i) == [blk |-> n, pos |-> i]
RPCTxAt(n, i) == [hash |-> TxHashAt(n, i), block |-> n, index |-> i]

(* NewRPCBlock(block, fullTx, nil): the header's fields, and the body's    *)
(* transactions in body order, expanded when fullTx, else their hashes.    *)
NewRPCBlockHashesOnly(b, fullTx) ==
  [Answer("result", 0, b.n) EXCEPT
     !.txs = [i \in 1..b.count |-> TxHashAt(b.n, i - 1)]]

NewRPCBlock(b, fullTx) ==
  [Answer("result", 0, b.n) EXCEPT
     !.txs = [i \in 1..b.count |-> IF fullTx THEN RPCTxAt(b.n, i - 1)
                                               ELSE TxHashAt(b.n, i - 1)]]

(* The lookup's ending shared by the handlers: ErrNotFound is a nil        *)
(* result, any other error an RPCError with ErrCodeInternal.               *)
LookupAnswer(r) ==
  CASE r.st = "notfound" -> Answer("nilResult", 0, 0)
    [] r.st = "error" -> RPCError(ErrCodeInternal)
    [] OTHER -> Answer("result", 0, r.n)

(* GetBlockByNumber's and GetBlockByHash's ending: a block found becomes   *)
(* NewRPCBlock.                                                            *)
BlockAnswer(r, fullTx) ==
  IF r.st = "ok" THEN NewRPCBlock(r, fullTx) ELSE LookupAnswer(r)

(* GetBlockByNumber and GetBlockTransactionCountByNumber: a tag that does  *)
(* not parse is ErrCodeInvalidParams; an error of resolveBlockNumber is    *)
(* returned as it is, not as an RPCError; then the lookup.                 *)
ByNumber(c, t, fullTx, fail, countOnly) ==
  LET bn == ParseBlockNumber(t)
      num == ResolveBlockNumber(c, bn.n, fail)
  IN  CASE ~bn.ok -> RPCError(ErrCodeInvalidParams)
        [] num.st # "ok" -> Answer("plainError", 0, 0)
        [] countOnly -> LookupAnswer(GetTransactionCount(c, num.n, 1 + ResolveCalls(bn.n), fail))
        [] OTHER -> BlockAnswer(GetBlock(c, num.n, 1 + ResolveCalls(bn.n), fail), fullTx)

ApiGetBlockByNumber(c, t, fullTx, fail) == ByNumber(c, t, fullTx, fail, FALSE)
ApiGetBlockTransactionCountByNumber(c, t, fail) == ByNumber(c, t, FALSE, fail, TRUE)
ApiGetBlockByHash(c, h, fullTx, fail) == BlockAnswer(GetBlockByHash(c, h, 1, fail), fullTx)
ApiGetBlockTransactionCountByHash(c, h, fail) == LookupAnswer(GetTransactionCountByHash(c, h, 1, fail))

(* TransactionAPI.GetTransactionByBlockHashAndIndex: the transaction, then *)
(* the block number read again by hash (KV call 3), whose every error,     *)
(* not-found included, is internal.                                        *)
ApiGetTransactionByBlockHashAndIndex(c, h, i, fail) ==
  LET tx == GetTransactionByBlockHashAndIndex(c, h, i, 1, fail)
      num == GetBlockNumberByHash(c, h, 3, fail)
  IN  CASE tx.st # "ok" -> LookupAnswer(tx)
        [] num.st # "ok" -> RPCError(ErrCodeInternal)
        [] OTHER -> NewRPCTransaction(TRUE, tx.n)

(* TransactionAPI.GetTransactionByHash: the stored transaction, then its   *)
(* lookup; without a lookup it is returned as a pending transaction.       *)
ApiGetTransactionByHash(c, h, fail) ==
  LET tx == GetTransaction(c, h, 1, fail)
      lk == GetTransactionLookup(c, h, 2, fail)
  IN  CASE tx.st # "ok" -> LookupAnswer(tx)
        [] lk.st = "notfound" -> NewRPCPendingTransaction
        [] lk.st = "error" -> LookupAnswer(lk)
        [] OTHER -> NewRPCTransaction(TRUE, lk.n)

-----------------------------------------------------------------------------
(* The indexer has written block 0 completely.                             *)
ChainInit ==
  chain = [latest |-> 0, hdr |-> {0}, body |-> (0 :> TxCount[0]),
           byHash |-> [h \in Hashes |-> IF h = HashOf[0] THEN 0 ELSE NoKey],
           tx |-> PoolTxs \cup {t \in DOMAIN TxOf : TxOf[t].block = 0},
           lookup |-> {t \in DOMAIN TxOf : TxOf[t].block = 0}]

(* The indexer writes one key of a later block: its header, its body, its  *)
(* hash index, or idx:latest, in whatever order its writes land; or the    *)
(* lookup of a transaction of such a block, or the transaction itself,     *)
(* which property 2 of section 8 of the specification stores only once its *)
(* lookup and its block's body are there.                                 *)
IndexWrite ==
  \/ \E n \in Heights \ {0} :
       \/ n \notin chain.hdr /\ chain' = [chain EXCEPT !.hdr = @ \cup {n}]
       \/ n \notin DOMAIN chain.body /\ chain' = [chain EXCEPT !.body = @ @@ (n :> TxCount[n])]
       \/ chain.byHash[HashOf[n]] = NoKey /\ chain' = [chain EXCEPT !.byHash[HashOf[n]] = n]
       \/ chain.latest < n /\ chain' = [chain EXCEPT !.latest = n]
  \/ \E t \in DOMAIN TxOf :
       \/ t \notin chain.lookup /\ chain' = [chain EXCEPT !.lookup = @ \cup {t}]
       \/ /\ t \in chain.lookup \ chain.tx
          /\ TxOf[t].block \in DOMAIN chain.body
          /\ chain' = [chain EXCEPT !.tx = @ \cup {t}]
====
