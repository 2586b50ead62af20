----------------------------- MODULE MC_JsonRpc -----------------------------
(* Constants for checking JsonRpc: a part of main.go's registrations, in   *)
(* its order, with each method's first-result kind and arity as declared   *)
(* in pkg/api and unnamed/part_003..part_005, and request bodies that      *)
(* reach every branch of ParseRequest and HandleRequest.                   *)
EXTENDS JsonRpc

Mth(name, result, arity) ==
  [name |-> name, result |-> result, arity |-> arity,
   ctxFirst |-> TRUE, numOut |-> 2, errLast |-> TRUE]

\* BlockAPI, StateAPI, TransactionAPI, NetAPI, Web3API, registered in that
\* order; GetTransactionCount is on both StateAPI and TransactionAPI.
MCRegistrations ==
  << <<"eth", {Mth("BlockNumber", "value", 0),
               Mth("GetBlockByNumber", "nillable", 2),
               Mth("GetBlockByHash", "nillable", 2),
               Mth("GetBlockTransactionCountByNumber", "nillable", 1),
               Mth("GetBlockTransactionCountByHash", "nillable", 1)}>>,
     <<"eth", {Mth("GetTransactionCount", "value", 2)}>>,
     <<"eth", {Mth("GetTransactionByHash", "nillable", 1),
               Mth("GetTransactionByBlockHashAndIndex", "nillable", 2),
               Mth("GetTransactionCount", "value", 2)}>>,
     <<"net", {Mth("Version", "value", 0)}>>,
     <<"web3", {Mth("Sha3", "nillable", 1)}>> >>

\* The documented names (sections 4.2-4.5, 4.8) of the registered methods.
MCDocumented ==
  {"eth_blockNumber", "eth_getBlockByNumber", "eth_getBlockByHash",
   "eth_getBlockTransactionCountByNumber", "eth_getBlockTransactionCountByHash",
   "eth_getTransactionCount", "eth_getTransactionByHash",
   "eth_getTransactionByBlockHashAndIndex", "net_version", "web3_sha3"}

\* The code of the RPC error a handler returns: resource not found.
MCRpcErrCode == -32002

\* uint64 scaled to 4 bits; blocks 0 and 1, with 0 and 2 transactions;
\* "hz" is a hash no block has.
MCHashOf == (0 :> "h0") @@ (1 :> "h1")
MCTxCount == (0 :> 0) @@ (1 :> 2)

\* "t1" is block 1's second transaction; "tp" is a pool transaction.
MCTxOf == "t1" :> [block |-> 1, index |-> 1]

Tag(form, digits, upper) == [form |-> form, digits |-> digits, upper |-> upper]
ByTag(t) == [tag |-> t, hash |-> "h0", index |-> 0, fullTx |-> FALSE]
ByHash(h) == [tag |-> Tag("latest", <<>>, FALSE), hash |-> h, index |-> 0, fullTx |-> FALSE]
ByHashIndex(h, i) == [ByHash(h) EXCEPT !.index = i]
ByHashFull(h) == [ByHash(h) EXCEPT !.fullTx = TRUE]

ReqArg(id, ver, method, params, arg) ==
  [id |-> id, ver |-> ver, method |-> method, params |-> params, arg |-> arg]
Req(id, ver, method, params) == ReqArg(id, ver, method, params, ByHash("h0"))

MCTransport == ("h1" :> "http") @@ ("w1" :> "ws")

\* Bodies that exercise the dispatcher itself: parsing, batches, versions,
\* binding, the limiter and the result kinds.
MCDispatchPayloads ==
  { [kind |-> "garbage"],
    [kind |-> "object", req |-> Req("id1", "", "eth_BlockNumber", "null")],
    [kind |-> "array", reqs |-> <<>>],
    [kind |-> "object", req |-> Req("id1", "1.0", "eth_GetBlockByNumber", "array")],
    [kind |-> "object", req |-> Req("id1", "2.0", "eth_GetBlockByNumber", "badFirst")],
    [kind |-> "array", reqs |-> << Req("id1", "2.0", "eth_foo", "null"),
                                   Req("id2", "2.0", "web3_Sha3", "value") >>],
    [kind |-> "array", reqs |-> << ReqArg("id2", "2.0", "eth_GetTransactionByHash", "array",
                                          ByHash("tp")),
                                   NullElement >>],
    [kind |-> "object", req |-> Req("id2", "2.0", "net_Version", "absent")] }

\* Bodies for the block and transaction lookups: tags in each form, by hash,
\* by hash and index, and null params.
MCLookupPayloads ==
  { [kind |-> "array", reqs |-> << ReqArg("id1", "2.0", "eth_GetBlockByNumber", "array",
                                      ByTag(Tag("latest", <<>>, TRUE))),
                               ReqArg("id2", "2.0", "eth_GetBlockTransactionCountByHash",
                                      "array", ByHash("h1")) >>],
    [kind |-> "object", req |-> ReqArg("id1", "2.0", "eth_GetBlockByNumber", "array",
                                       ByTag(Tag("hex", <<1>>, FALSE)))],
    [kind |-> "object", req |-> ReqArg("id1", "2.0", "eth_GetBlockTransactionCountByNumber",
                                       "value", ByTag(Tag("pending", <<>>, FALSE)))],
    [kind |-> "array", reqs |-> << ReqArg("id1", "2.0", "eth_GetBlockByHash", "array", ByHashFull("h1")),
                                   ReqArg("id2", "2.0", "eth_GetBlockByNumber", "array",
                                          ByTag(Tag("hex", <<1, 0>>, FALSE))) >>],
    [kind |-> "array", reqs |-> << ReqArg("id1", "2.0", "eth_GetBlockByNumber", "array",
                                          ByTag(Tag("earliest", <<>>, FALSE))),
                                   ReqArg("id2", "2.0", "eth_GetBlockTransactionCountByNumber",
                                          "array", ByTag(Tag("hex", <<16>>, TRUE))) >>],
    [kind |-> "object", req |-> Req("id2", "2.0", "eth_GetBlockByNumber", "null")],
    [kind |-> "array", reqs |-> << ReqArg("id1", "2.0", "eth_GetTransactionByBlockHashAndIndex",
                                          "array", ByHashIndex("h1", 1)),
                                   ReqArg("id2", "2.0", "eth_GetTransactionByBlockHashAndIndex",
                                          "array", ByHashIndex("h1", 2)) >>],
    [kind |-> "object", req |-> ReqArg("id1", "2.0", "eth_GetTransactionByHash", "array",
                                       ByHash("t1"))] }

\* Both transports get the dispatcher bodies; a lookup's answer does not
\* depend on the transport, so the lookups go over HTTP only.
MCPayloads ==
  ("h1" :> (MCDispatchPayloads \cup MCLookupPayloads)) @@ ("w1" :> MCDispatchPayloads)

\* eth_BlockNumber, the handler of the documented eth_blockNumber (scenario
\* E1, which as written gets method not found), with params [].
MCBlockNumber ==
  "h1" :> { [kind |-> "object", req |-> Req("id1", "2.0", "eth_BlockNumber", "array")] }
====
