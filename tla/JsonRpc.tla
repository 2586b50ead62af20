------------------------------- MODULE JsonRpc -------------------------------
(***************************************************************************)
(* The JSON-RPC dispatcher (JSONRPCHandler, unnamed/part_007) behind both  *)
(* transports: HTTPServer.handleRPC (pkg/server/http.go) and the           *)
(* WebSocket reader loop handleConnection (unnamed/part_009).              *)
(*                                                                         *)
(* The method registry is what main.go's sequence of RegisterService      *)
(* calls builds.  Each session is one HTTP request or one WebSocket        *)
(* message: ParseRequest, then HandleRequest for each element of the batch *)
(* in order, then the write of the response.  A handler is abstracted to   *)
(* the kind of its first result (a pointer, map, slice or interface, or a  *)
(* plain value such as hexutil.Uint64, string or common.Hash) and to the   *)
(* outcome of one call, except BlockAPI's block handlers, which run as     *)
(* module BlockApi has them over the chain the indexer wrote.  eth_subscribe and eth_unsubscribe over WebSocket  *)
(* go to the subscription manager (module WsSubscriptions) and are not     *)
(* sessions here.                                                          *)
(***************************************************************************)
EXTENDS Naturals, Integers, Sequences, SequencesExt, FiniteSets, TLC, BlockApi

CONSTANTS
  Sessions,       \* HTTP requests and WebSocket messages
  Transport,      \* Sessions -> {"http", "ws"}
  Registrations,  \* main.go's RegisterService calls, in order: <<ns, methods>>
  Payloads,       \* Sessions -> the request bodies it may carry, see Payload below
  Ids,            \* request ids
  LimiterOn,      \* a rate limiter is configured
  RpcErrCode,     \* the code of an *api.RPCError a handler returns
  NullElement,    \* a JSON null inside a batch: a nil *JSONRPCRequest
  Documented,     \* the method names sections 4 and 8 of the specification list
  Panic           \* a runtime panic in place of a response

NoError == 0

(* A handler method, as reflect sees it: its Go name, the kind of its      *)
(* first result, its number of arguments after the context, and the shape  *)
(* of its signature that isValidMethod inspects.                           *)
Method == [name: STRING, result: {"nillable", "value"}, arity: Nat,
           ctxFirst: BOOLEAN, numOut: Nat, errLast: BOOLEAN]

(* A request element: the params member is absent, JSON null, an array     *)
(* whose entries decode, a single non-array value, or an array whose first *)
(* entry does not decode into the argument type.                           *)
(* arg is what the arguments decode to: a tag or a hash first, then an     *)
(* index or the fullTx flag.                                               *)
ParamForms == {"absent", "null", "array", "value", "badFirst"}
Arg == [tag: TagInput, hash: Hashes, index: Nat, fullTx: BOOLEAN]
Request == [id: Ids, ver: {"2.0", "1.0", ""}, method: STRING,
            params: ParamForms, arg: Arg]

(* A body: not JSON, one object, or an array of objects and nulls.         *)
Element == Request \cup {NullElement}
Payload == [kind: {"garbage"}] \cup [kind: {"object"}, req: Request]
             \cup [kind: {"array"}, reqs: Seq(Element)]

Outcomes == {"result", "nilResult", "rpcError", "plainError"}

(* A response's result: a value (a block height, a count or a transaction's *)
(* index), a pending transaction, JSON null, no member at all (omitted), or *)
(* none, for an error; a block's value has its transactions, as hashes or   *)
(* expanded.                                                                *)
TxHash == [blk: Heights, pos: Nat]
TxEntry == TxHash \cup [hash: TxHash, block: Heights, index: Nat]
Result == [kind: {"value", "pending", "null", "omitted", "none"}, n: Int, txs: Seq(TxEntry)]
Response == [id: Ids \cup {"null"}, code: Int, res: Result]
Res(kind, n) == [kind |-> kind, n |-> n, txs |-> <<>>]
NoResult == Res("none", 0)
Null == Res("null", 0)

VARIABLES
  sess,     \* per session: pc, the parsed requests, whether single, responses
  hist,     \* per session: the limiter verdict and handler outcome per element
  crashed   \* an unrecovered panic ended the process

vars == <<sess, hist, crashed, chain>>

-----------------------------------------------------------------------------
(* isValidMethod: (receiver, ctx, args...) -> (result, error).             *)
IsValidMethod(m) == m.ctxFirst /\ m.numOut = 2 /\ m.errLast

(* RegisterService(ns, svc): every valid method is stored under            *)
(* ns + "_" + its Go name, replacing what an earlier call stored there.    *)
RegisterService(reg, ns, methods) ==
  LET valid == {m \in methods : IsValidMethod(m)}
      names == {ns \o "_" \o m.name : m \in valid}
      new   == [n \in names |-> CHOOSE m \in valid : ns \o "_" \o m.name = n]
  IN  new @@ reg

(* The registry after main.go's registrations, in order.                   *)
Registry ==
  FoldLeft(LAMBDA reg, r : RegisterService(reg, r[1], r[2]),
           <<>>, Registrations)

(* ParseRequest without its len(batch) == 0 check.                         *)
ParseRequestNoEmptyCheck(p) ==
  CASE p.kind = "object" /\ p.req.ver # "" ->
         [ok |-> TRUE, single |-> TRUE, reqs |-> <<p.req>>]
    [] p.kind = "array" ->
         [ok |-> TRUE, single |-> FALSE, reqs |-> p.reqs]
    [] OTHER -> [ok |-> FALSE, single |-> TRUE, reqs |-> <<>>]

(* ParseRequest: an object with a non-empty jsonrpc member is a single     *)
(* request; otherwise the body must decode as an array, and an empty array *)
(* is an error.  Either error reaches the client as ErrCodeParse: handleRPC *)
(* and handleConnection both send err.Error() with code -32700.            *)
ParseRequest(p) ==
  CASE p.kind = "object" /\ p.req.ver # "" ->
         [ok |-> TRUE, single |-> TRUE, reqs |-> <<p.req>>]
    [] p.kind = "array" /\ Len(p.reqs) > 0 ->
         [ok |-> TRUE, single |-> FALSE, reqs |-> p.reqs]
    [] OTHER -> [ok |-> FALSE, single |-> TRUE, reqs |-> <<>>]

(* executeMethod's binding of params to the arguments after the context:   *)
(* json.Unmarshal into []json.RawMessage, else the raw params as a         *)
(* one-element list; an absent member is empty input, which fails both     *)
(* decodes, so position 1 is invalid.  Missing tail entries stay zero.     *)
ParamsBind(m, form) == m.arity = 0 \/ form \in {"null", "array", "value"}

(* A JSON null params is an empty list: every argument keeps its zero      *)
(* value, the tag "" and the zero hash, which no block has.                *)
ZeroArg == [tag |-> [form |-> "other", digits |-> <<>>, upper |-> FALSE],
            hash |-> CHOOSE h \in Hashes \ (DOMAIN TxOf \cup PoolTxs) :
                       \A n \in Heights : HashOf[n] # h,
            index |-> 0, fullTx |-> FALSE]

(* A single non-array value binds the first argument only.                 *)
BoundArg(q) ==
  CASE q.params = "null" -> ZeroArg
    [] q.params = "value" -> [q.arg EXCEPT !.index = 0, !.fullTx = FALSE]
    [] OTHER -> q.arg

(* BlockAPI's handlers with a nillable first result and TransactionAPI's    *)
(* lookups, by Go name.  A block  *)
(* handler makes at most three KV calls; fail = 0 is a call with no        *)
(* failure.                                                                *)
BlockHandlers == {"GetBlockByNumber", "GetBlockByHash",
                  "GetBlockTransactionCountByNumber", "GetBlockTransactionCountByHash",
                  "GetTransactionByBlockHashAndIndex", "GetTransactionByHash"}
FailCalls == 0..3

RunBlockHandler(m, a, c, fail) ==
  CASE m.name = "GetBlockByNumber" -> ApiGetBlockByNumber(c, a.tag, a.fullTx, fail)
    [] m.name = "GetBlockTransactionCountByNumber" -> ApiGetBlockTransactionCountByNumber(c, a.tag, fail)
    [] m.name = "GetBlockByHash" -> ApiGetBlockByHash(c, a.hash, a.fullTx, fail)
    [] m.name = "GetTransactionByHash" -> ApiGetTransactionByHash(c, a.hash, fail)
    [] m.name = "GetTransactionByBlockHashAndIndex" ->
         ApiGetTransactionByBlockHashAndIndex(c, a.hash, a.index, fail)
    [] OTHER -> ApiGetBlockTransactionCountByHash(c, a.hash, fail)

IsBlockRequest(q) ==
  q # NullElement /\ q.method \in DOMAIN Registry
  /\ Registry[q.method].name \in BlockHandlers

(* HandleRequest wrapping every handler error as internal, without the     *)
(* type assertion to *api.RPCError.                                          *)
HandleRequestWrapAll(q, allowed, ans) ==
  CASE q = NullElement -> Panic
    [] q.ver # "2.0" -> ErrCodeInvalidRequest
    [] LimiterOn /\ ~allowed -> ErrCodeLimitExceeded
    [] q.method \notin DOMAIN Registry -> ErrCodeMethodNotFound
    [] ~ParamsBind(Registry[q.method], q.params) -> ErrCodeInvalidParams
    [] Registry[q.method].result = "value" -> Panic
    [] ans.outcome \in {"rpcError", "plainError"} -> ErrCodeInternal
    [] OTHER -> NoError

(* HandleRequest for one element, given the limiter's verdict and the      *)
(* handler's answer: the response code, or Panic when req is nil (its    *)
(* JSONRPC field is read first) or when executeMethod calls                *)
(* reflect.Value.IsNil on a first result that is not nillable.             *)
HandleRequest(q, allowed, ans) ==
  CASE q = NullElement -> Panic
    [] q.ver # "2.0" -> ErrCodeInvalidRequest
    [] LimiterOn /\ ~allowed -> ErrCodeLimitExceeded
    [] q.method \notin DOMAIN Registry -> ErrCodeMethodNotFound
    [] ~ParamsBind(Registry[q.method], q.params) -> ErrCodeInvalidParams
    [] Registry[q.method].result = "value" -> Panic
    [] ans.outcome = "rpcError" -> ans.code
    [] ans.outcome = "plainError" -> ErrCodeInternal
    [] OTHER -> NoError

(* HandleRequest gets as far as calling the handler.                      *)
Reaches(q, allowed) ==
  /\ q # NullElement /\ q.ver = "2.0" /\ (LimiterOn => allowed)
  /\ q.method \in DOMAIN Registry /\ ParamsBind(Registry[q.method], q.params)


(* The result member: the handler's value (NewRPCPendingTransaction's has   *)
(* no block).  A nil result leaves JSONRPCResponse.Result nil, and its      *)
(* omitempty tag drops the member: the response has neither result nor     *)
(* error.                                                                   *)
ResultOf(ans) ==
  CASE ans.outcome = "result" -> [kind |-> "value", n |-> ans.n, txs |-> ans.txs]
    [] ans.outcome = "pending" -> Res("pending", 0)
    [] OTHER -> Res("omitted", 0)

(* Block-tag resolution as section 4.7 of the specification states it:    *)
(* "latest" and "pending" (in any case) read idx:latest, the handler's     *)
(* first KV call; "earliest" is 0; "0x" and hex digits is a uint64         *)
(* height; anything else is invalid params.                                *)
SpecHeight(c, t, fail) ==
  CASE t.form \in {"latest", "pending"} ->
         IF fail = 1 THEN [kind |-> "error", n |-> 0, calls |-> 1]
         ELSE IF c.latest = NoKey THEN [kind |-> "null", n |-> 0, calls |-> 1]
         ELSE [kind |-> "height", n |-> c.latest, calls |-> 1]
    [] t.form = "earliest" -> [kind |-> "height", n |-> 0, calls |-> 0]
    [] t.form = "hex" /\ t.digits # <<>> /\ \A i \in 1..Len(t.digits) : t.digits[i] < 16
         /\ HexValue(t.digits) < 2^WordBits ->
         [kind |-> "height", n |-> HexValue(t.digits), calls |-> 0]
    [] OTHER -> [kind |-> "invalid", n |-> 0, calls |-> 0]

(* Sections 4.2 and 7: a lookup reads its keys in order from call k on; a  *)
(* failed call is an internal error, a missing key makes the result null,  *)
(* and otherwise the result is v.                                          *)
SpecLookup(present, k, fail, v) ==
  LET stop == {i \in 1..Len(present) : k + i - 1 = fail \/ ~present[i]}
  IN  CASE stop = {} -> [code |-> NoError, res |-> v]
        [] k + Min(stop) - 1 = fail -> [code |-> ErrCodeInternal, res |-> NoResult]
        [] OTHER -> [code |-> NoError, res |-> Null]

(* Sections 4.2 and 6: a full block is the header rehydrated with the      *)
(* body's transactions, which getBlockBy* lists fully expanded (with the   *)
(* block and their position in it) when fullTx is set, else by hash.       *)
SpecBlock(n, count, fullTx) ==
  [kind |-> "value", n |-> n,
   txs |-> [i \in 1..count |->
              IF fullTx THEN [hash |-> [blk |-> n, pos |-> i - 1], block |-> n, index |-> i - 1]
                        ELSE [blk |-> n, pos |-> i - 1]]]

(* The keys a block lookup reads at height n, in order, and its value: a   *)
(* full block, or the body's transaction count.                            *)
SpecKeys(c, m, n, fullTx) ==
  LET count == IF n \in DOMAIN c.body THEN c.body[n] ELSE 0 IN
  IF m \in {"GetBlockByNumber", "GetBlockByHash"}
    THEN [present |-> <<n \in c.hdr, n \in DOMAIN c.body>>, v |-> SpecBlock(n, count, fullTx)]
    ELSE [present |-> <<n \in DOMAIN c.body>>, v |-> Res("value", count)]

(* Sections 4.2 and 7: by block hash and index, the hash is resolved to a  *)
(* height and the body's transaction at the index returned; an index past  *)
(* the transactions of a block that exists is the error -32002.  The       *)
(* handler's third call reads the hash index again; the index check sits   *)
(* between, so that call is the fourth position of the lookup.             *)
ErrCodeResourceNotFound == -32002
IndexOutOfRange == [code |-> ErrCodeResourceNotFound, res |-> Res("indexRange", 0)]

SpecTxByHashAndIndex(c, a, fail) ==
  LET n == c.byHash[a.hash]
      count == IF n \in DOMAIN c.body THEN c.body[n] ELSE 0
      r == SpecLookup(<<n # NoKey, n \in DOMAIN c.body, a.index < count, TRUE>>, 1,
                      IF fail = 3 THEN 4 ELSE fail, Res("value", a.index))
  IN  IF r.res = Null /\ n # NoKey /\ n \in DOMAIN c.body THEN IndexOutOfRange ELSE r

(* Sections 4.5 and 8.2: a transaction hash not stored is null; a stored   *)
(* one is pending when it is a pool transaction, else its place in its     *)
(* block.  The handler's reads are tx:{hash}, then tx:lookup:{hash}.        *)
SpecTxByHash(c, t, fail) ==
  CASE fail = 1 -> [code |-> ErrCodeInternal, res |-> NoResult]
    [] t \notin c.tx -> [code |-> NoError, res |-> Null]
    [] fail = 2 -> [code |-> ErrCodeInternal, res |-> NoResult]
    [] t \in PoolTxs -> [code |-> NoError, res |-> Res("pending", 0)]
    [] OTHER -> [code |-> NoError, res |-> Res("value", TxOf[t].index)]

(* By hash, the hash index is read first; by number, the tag is resolved.  *)
SpecBlockAnswer(m, a, c, fail) ==
  IF m = "GetTransactionByHash" THEN SpecTxByHash(c, a.hash, fail)
  ELSE IF m = "GetTransactionByBlockHashAndIndex" THEN SpecTxByHashAndIndex(c, a, fail)
  ELSE IF m \in {"GetBlockByHash", "GetBlockTransactionCountByHash"}
    THEN LET n == c.byHash[a.hash]
             keys == SpecKeys(c, m, n, a.fullTx)
         IN  SpecLookup(<<n # NoKey>> \o keys.present, 1, fail, keys.v)
    ELSE LET h == SpecHeight(c, a.tag, fail)
             keys == SpecKeys(c, m, h.n, a.fullTx)
         IN  CASE h.kind = "invalid" -> [code |-> ErrCodeInvalidParams, res |-> NoResult]
               [] h.kind = "error" -> [code |-> ErrCodeInternal, res |-> NoResult]
               [] h.kind = "null" -> [code |-> NoError, res |-> Null]
               [] OTHER -> SpecLookup(keys.present, h.calls + 1, fail, keys.v)

(* What hist records for a block request: the answer the specification    *)
(* gives for the chain the handler read and its failed KV call.            *)
NoExpect == [code |-> NoError, res |-> NoResult]

-----------------------------------------------------------------------------
Init ==
  /\ sess = [s \in Sessions |-> [pc |-> "Idle", single |-> TRUE, reqs |-> <<>>,
                                 out |-> <<>>]]
  /\ hist = [s \in Sessions |-> <<>>]
  /\ crashed = FALSE
  /\ ChainInit

(* A body arrives and ParseRequest runs; a parse failure is answered at    *)
(* once with id null.                                                      *)
Receive(s, p) ==
  LET r == ParseRequest(p) IN
  /\ ~crashed
  /\ sess[s].pc = "Idle"
  /\ sess' = [sess EXCEPT ![s] =
       IF r.ok THEN [pc |-> "Handle", single |-> r.single, reqs |-> r.reqs,
                     out |-> <<>>]
               ELSE [pc |-> "Write", single |-> TRUE, reqs |-> <<>>,
                     out |-> <<[id |-> "null", code |-> ErrCodeParse, res |-> NoResult]>>]]
  /\ UNCHANGED <<hist, crashed, chain>>

(* HandleRequest on the next element (HandleBatch's loop, or the single    *)
(* request).  A block handler runs on the chain as it is now, with a KV    *)
(* failure at call fail; any other handler has a chosen outcome.  A panic  *)
(* is recovered by net/http, which closes the HTTP connection without a    *)
(* response; in the WebSocket reader goroutine nothing recovers it and the *)
(* process exits.                                                          *)
Handle(s) ==
  LET i == Len(sess[s].out) + 1
      q == sess[s].reqs[i]
  IN
  /\ ~crashed
  /\ sess[s].pc = "Handle"
  /\ \E allowed \in BOOLEAN, outcome \in Outcomes, fail \in FailCalls :
       LET ans == IF IsBlockRequest(q)
                    THEN RunBlockHandler(Registry[q.method], BoundArg(q), chain, fail)
                    ELSE Answer(outcome, RpcErrCode, 0)
           code == HandleRequest(q, allowed, ans)
       IN
       \* the inputs a step does not use are fixed, so that they add no states
       /\ IF Reaches(q, allowed) /\ IsBlockRequest(q) THEN outcome = "result" ELSE fail = 0
       /\ Reaches(q, allowed) \/ outcome = "result"
       /\ hist' = [hist EXCEPT ![s] = Append(@, [allowed |-> allowed, outcome |-> outcome,
                     expect |-> IF Reaches(q, allowed) /\ IsBlockRequest(q)
                                  THEN SpecBlockAnswer(Registry[q.method].name, BoundArg(q), chain, fail)
                                  ELSE NoExpect])]
       /\ IF code = Panic
            THEN IF Transport[s] = "http"
                   THEN /\ sess' = [sess EXCEPT ![s].pc = "Closed"]
                        /\ UNCHANGED crashed
                   ELSE /\ crashed' = TRUE
                        /\ UNCHANGED sess
            ELSE /\ sess' = [sess EXCEPT
                      ![s].out = Append(@, [id |-> q.id, code |-> code,
                                            res |-> IF code = NoError THEN ResultOf(ans)
                                                                      ELSE NoResult]),
                      ![s].pc  = IF i = Len(sess[s].reqs) THEN "Write"
                                                          ELSE "Handle"]
                 /\ UNCHANGED crashed
  /\ UNCHANGED chain

(* The encoder (HTTP) or wsConn.Send (WebSocket) writes the response: one  *)
(* object for a single request, the array for a batch.                     *)
Write(s) ==
  /\ ~crashed
  /\ sess[s].pc = "Write"
  /\ sess' = [sess EXCEPT ![s].pc = "Done"]
  /\ UNCHANGED <<hist, crashed, chain>>

Next ==
  \/ \E s \in Sessions :
    \/ \E p \in Payloads[s] : Receive(s, p)
    \/ Handle(s)
    \/ Write(s)
  \/ IndexWrite /\ UNCHANGED <<sess, hist, crashed>>

Spec == Init /\ [][Next]_vars
-----------------------------------------------------------------------------
PCs == {"Idle", "Handle", "Write", "Done", "Closed"}

(* Types, and the loop bound of HandleBatch: an element is being handled   *)
(* only while some element of the parsed batch has no response yet.        *)
TypeOK ==
  /\ crashed \in BOOLEAN
  /\ \A s \in Sessions :
       /\ sess[s].pc \in PCs
       /\ sess[s].single \in BOOLEAN
       /\ sess[s].reqs \in Seq(Element)
       /\ sess[s].out \in Seq(Response)
       /\ \A i \in 1..Len(hist[s]) :
            hist[s][i].allowed \in BOOLEAN /\ hist[s][i].outcome \in Outcomes

       /\ sess[s].pc = "Handle" => Len(sess[s].out) < Len(sess[s].reqs)

(* The response that section 4.7 of the specification prescribes for a    *)
(* request element, given the limiter's verdict, the handler's outcome     *)
(* and, for a block handler, the chain it read and its failed KV call: a   *)
(* bad version is invalid request, a refused request -32006, a name the    *)
(* specification does not list and no handler is registered under method  *)
(* not found (E7), a position that does not decode invalid params (missing *)
(* tail arguments are zero values), an RPC error as-is, any other error    *)
(* internal, a nil result null, and otherwise the result.  A registered Go *)
(* name (eth_GetBlockByNumber) is read as the documented method it         *)
(* implements; a documented name with no handler under it is served.       *)
Served == [code |-> NoError, res |-> Res("served", 0)]

SpecAnswer(q, h) ==
  CASE q.ver # "2.0" -> [code |-> ErrCodeInvalidRequest, res |-> NoResult]
    [] LimiterOn /\ ~h.allowed -> [code |-> ErrCodeLimitExceeded, res |-> NoResult]
    [] q.method \notin DOMAIN Registry \cup Documented ->
         [code |-> ErrCodeMethodNotFound, res |-> NoResult]
    [] q.method \notin DOMAIN Registry -> Served
    [] Registry[q.method].arity > 0 /\ q.params = "badFirst" ->
         [code |-> ErrCodeInvalidParams, res |-> NoResult]
    [] IsBlockRequest(q) -> h.expect
    [] h.outcome = "rpcError" -> [code |-> RpcErrCode, res |-> NoResult]
    [] h.outcome = "plainError" -> [code |-> ErrCodeInternal, res |-> NoResult]
    [] h.outcome = "nilResult" -> [code |-> NoError, res |-> Null]
    [] OTHER -> [code |-> NoError, res |-> Res("value", 0)]

(* A written response o agrees with the specification's answer e: exactly, *)
(* except in the three places where what the code writes is known to differ *)
(* in form, where only what matters to a client is compared: a documented  *)
(* method is not reported unknown; where the result is null, there is no   *)
(* error and no block or transaction; where an index is out of range, no   *)
(* transaction is returned.                                                *)
Agrees(o, e) ==
  CASE e.res.kind = "served" -> o.code # ErrCodeMethodNotFound
    [] e.res.kind = "null" -> o.code = NoError /\ o.res.kind \notin {"value", "pending"}
    [] e.res.kind = "indexRange" -> o.res.kind \notin {"value", "pending"}
    [] OTHER -> [code |-> o.code, res |-> o.res] = e

(* HandleBatch, HandleRequest and the transports together: what is written *)
(* for a payload that parsed is one response per element, in input order,  *)
(* each echoing its element's id and agreeing with the answer the          *)
(* specification gives it (for a block handler, the answer over the chain  *)
(* as the indexer had written it when the handler read it: a block present *)
(* in full with its transactions, a height or hash not yet written as not  *)
(* found, a failed KV call as internal error); a single request gets       *)
(* exactly one; a payload that did not parse gets one error with id null.  *)
ResponsesMatchRequests ==
  \A s \in Sessions :
    LET out  == sess[s].out
        reqs == sess[s].reqs
    IN  sess[s].pc \in {"Write", "Done"} =>
          IF reqs = <<>>
            THEN out = <<[id |-> "null", code |-> ErrCodeParse, res |-> NoResult]>>
            ELSE /\ Len(out) = Len(reqs)
                 /\ sess[s].single => Len(out) = 1
                 /\ \A i \in 1..Len(out) :
                      /\ out[i].id = reqs[i].id
                      /\ Agrees(out[i], SpecAnswer(reqs[i], hist[s][i]))

(* Every request element that parsed is answered: no HTTP connection is    *)
(* closed without its response, and no handler panic ends the process      *)
(* under the other connections (executeMethod's results[0].IsNil() on a    *)
(* first result that is a plain value, such as eth_BlockNumber's).         *)
EveryRequestAnswered ==
  /\ ~crashed
  /\ \A s \in Sessions : sess[s].pc # "Closed"
====
