------------------------------- MODULE TxPool -------------------------------
(***************************************************************************)
(* Transaction admission (eth_sendRawTransaction, TxPoolAPI in             *)
(* unnamed/part_005) and the pending pool it writes (TxPoolStorage in      *)
(* pkg/storage/txpool.go), read back by txpool_status (pkg/api/txpool)     *)
(* and eth_pendingTransactions (TxPoolAPI.PendingTransactions).            *)
(*                                                                         *)
(* Every request is a goroutine of the RPC server: its KV calls (GetNonce, *)
(* GetBalance, Set, two ZAdds, Publish) are separate steps, any of which   *)
(* can fail, and the steps of different requests interleave with each     *)
(* other, with RemovePendingTx calls and with the chain advancing (the     *)
(* external indexer rewriting the sender's account at "latest").           *)
(*                                                                         *)
(* A transaction is a record; its hash is the record itself, so two        *)
(* requests carrying the same transaction write the same keys.  Gas is a   *)
(* uint64 in the code; here it is an unsigned word of WordBits bits, and   *)
(* the conversion int64(tx.Gas()) is the signed reading of that word.      *)
(***************************************************************************)
EXTENDS Naturals, Integers, FiniteSets, SequencesExt, TLC

CONSTANTS
  Reqs,          \* concurrent SendRawTransaction calls
  Removers,      \* concurrent RemovePendingTx calls
  Senders,       \* accounts
  Txs,           \* signed transactions that decode: records, see Tx below
  BadInputs,     \* raw inputs that fail RLP decoding or sender recovery
  ChainID,       \* the configured chain id
  WordBits,      \* width of tx.Gas() (64 in the code)
  GasFloor,      \* the intrinsic-gas floor (21000 in the code)
  Balances,      \* balances the chain may give an account
  MaxNonce,      \* bound on the chain's account nonce
  MaxFaults      \* bound on failed KV calls

WordSpan == 2 ^ WordBits

Tx == [sender: Senders, nonce: 0..MaxNonce, gas: 0..(WordSpan - 1),
       price: Nat, value: Nat, chain: Nat]

ASSUME Txs \subseteq Tx /\ BadInputs \cap Txs = {}

Answers == {"none", "ok", "invalid", "reject", "internal"}
ReqPCs  == {"Idle", "GetNonce", "GetBalance", "Set", "ZAddAddr",
            "ZAddPrice", "Publish", "Done"}
\* the steps a request reaches only with a decoded transaction
Decoded == ReqPCs \ {"Idle", "Done"}
RmPCs   == {"Idle", "Get", "Del", "ZRemAddr", "ZRemPrice", "Done"}

VARIABLES
  chainNonce,    \* sender -> account nonce at "latest"
  chainBalance,  \* sender -> balance at "latest"
  pending,       \* pool:pending:{hash} keys present
  addrIdx,       \* sender -> members of pool:addr:{sender}
  byprice,       \* members of pool:byprice
  announced,     \* hashes published on pool:new
  req,           \* per request: pc, input, values read, answer
  rm,            \* per removal: pc, hash, answer
  faults,        \* KV calls that failed so far
  validated,     \* history: each tx that passed the checks, with the
                 \*   nonce and balance it was checked against
  admitted       \* history: sender -> nonces accepted since the chain last
                 \*   advanced that sender's account

vars == <<chainNonce, chainBalance, pending, addrIdx, byprice, announced,
          req, rm, faults, validated, admitted>>

-----------------------------------------------------------------------------
(* Data conversions of the admission path.                                 *)

(* int64(tx.Gas()): the uint64 word read as two's complement.              *)
Int64Of(g) == IF g >= WordSpan \div 2 THEN g - WordSpan ELSE g

(* gasCost := gasPrice * int64(tx.Gas()); totalCost := value + gasCost.     *)
(* gasPrice and value are big.Int, so only the conversion can wrap.        *)
TotalCost(t) == t.value + t.price * Int64Of(t.gas)

(* The pool:byprice score float64(gasPrice.Uint64()): Uint64 keeps the     *)
(* low 64 bits of the price.                                               *)
Score(t) == t.price % WordSpan

(* tx.ChainId().Uint64(): the low 64 bits of the embedded chain id.        *)
ChainIdUint64(t) == t.chain % WordSpan

-----------------------------------------------------------------------------
(* The PikaClient calls of the pool, on a key holding a set of hashes:     *)
(* Set stores the raw transaction, ZAdd adds a member (again: only its     *)
(* score changes), Del and ZRem remove, ZCard counts.  Whether a call      *)
(* fails is decided by the action that makes it (FailCall, RmFail).        *)
Set(s, t) == s \cup {t}
ZAdd(s, t) == s \cup {t}
Del(s, t) == s \ {t}
ZRem(s, t) == s \ {t}
ZCard(s) == Cardinality(s)

(* ZRange and ZRevRange(key, 0, -1): every member, by ascending or         *)
(* descending score; score maps each member to its score (the nonce, or    *)
(* Score).  Redis orders members of equal score by their bytes, an order   *)
(* of the hashes the model leaves to CHOOSE.                               *)
ZRange(s, score) ==
  CHOOSE q \in SetToSeqs(s) : \A i, j \in DOMAIN q : i < j => score[q[i]] <= score[q[j]]
ZRevRange(s, score) ==
  CHOOSE q \in SetToSeqs(s) : \A i, j \in DOMAIN q : i < j => score[q[i]] >= score[q[j]]

(* PikaClient.Publish: the message goes out on the channel.               *)
PikaPublish(ch, t) == ch \cup {t}

NonceScore(t) == t.nonce

-----------------------------------------------------------------------------
(* The read views.                                                         *)

(* GetPoolStatus: ZCard of pool:byprice.                                   *)
StatusPending == ZCard(byprice)

(* TxPoolAPI.Status: the count as "pending", and "queued" always 0.        *)
TxPoolStatus == [pending |-> StatusPending, queued |-> 0]

(* GetPendingTx succeeds for a hash whose pool:pending key is there.       *)
Resolves(t) == t \in pending

(* Fault variant of GetPendingTransactions: pool:byprice read with ZRange. *)
GetPendingTransactionsAscending == SelectSeq(ZRange(byprice, [t \in byprice |-> Score(t)]), Resolves)

(* GetPendingTransactions: ZRevRange of pool:byprice, then GetPendingTx of *)
(* each hash in that order; a failed lookup is skipped.                    *)
GetPendingTransactions == SelectSeq(ZRevRange(byprice, [t \in byprice |-> Score(t)]), Resolves)

(* GetAddressTransactions: ZRange of pool:addr:{sender}, then GetPendingTx *)
(* of each hash, skipping failures.                                         *)
GetAddressTransactions(s) == SelectSeq(ZRange(addrIdx[s], [t \in addrIdx[s] |-> NonceScore(t)]), Resolves)

Listed == Range(GetPendingTransactions)
AddressTransactions(s) == Range(GetAddressTransactions(s))

(* GetPoolContent, behind txpool_content and txpool_inspect: after         *)
(* GetPendingTransactions (whose reads the model never fails) it calls     *)
(* types.LatestSigner(nil), which reads the nil chain config and panics,   *)
(* so the grouping by sender and nonce is never reached.                   *)
GetPoolContent == "panic"

-----------------------------------------------------------------------------
Init ==
  /\ chainNonce \in [Senders -> {0}]
  /\ chainBalance \in [Senders -> Balances]
  /\ pending = {}
  /\ addrIdx = [s \in Senders |-> {}]
  /\ byprice = {}
  /\ announced = {}
  /\ req = [r \in Reqs |-> [pc |-> "Idle", in |-> CHOOSE b \in BadInputs : TRUE,
                            nonce |-> 0, balance |-> 0, answer |-> "none"]]
  /\ rm = [m \in Removers |-> [pc |-> "Idle", h |-> CHOOSE t \in Txs : TRUE,
                               answer |-> "none"]]
  /\ faults = 0
  /\ validated = {}
  /\ admitted = [s \in Senders |-> {}]

(* Request r returns to its caller with answer a.                          *)
Answer(r, a) == req' = [req EXCEPT ![r].pc = "Done", ![r].answer = a]

(* A KV call of request r fails: every step of SendRawTransaction and of   *)
(* AddPendingTx returns the error, mapped to an internal error.            *)
FailCall(r) ==
  /\ faults < MaxFaults
  /\ faults' = faults + 1
  /\ Answer(r, "internal")

Go(r, pc) == req' = [req EXCEPT ![r].pc = pc]

StepVars == <<chainNonce, chainBalance, rm, validated, admitted>>

(* Fault variant of Decode: the decode error is built but not returned,   *)
(* so the request goes on to GetNonce.                                      *)
DecodeNoReturn(r, in) ==
  /\ req[r].pc = "Idle"
  /\ IF in \in BadInputs
       THEN req' = [req EXCEPT ![r] = [@ EXCEPT !.pc = "GetNonce", !.in = in]]
       ELSE IF ChainIdUint64(in) # ChainID
         THEN req' = [req EXCEPT ![r] = [@ EXCEPT !.pc = "Done", !.in = in,
                                                  !.answer = "invalid"]]
         ELSE req' = [req EXCEPT ![r] = [@ EXCEPT !.pc = "GetNonce", !.in = in]]
  /\ UNCHANGED <<chainNonce, chainBalance, pending, addrIdx, byprice,
                 announced, rm, faults, validated, admitted>>

(* SendRawTransaction up to the first KV read: RLP decode, sender          *)
(* recovery and the chain id comparison, made on the id's low 64 bits,     *)
(* are local.                                                              *)
Decode(r, in) ==
  /\ req[r].pc = "Idle"
  /\ IF in \in BadInputs \/ ChainIdUint64(in) # ChainID
       THEN req' = [req EXCEPT ![r] = [@ EXCEPT !.pc = "Done", !.in = in,
                                                !.answer = "invalid"]]
       ELSE req' = [req EXCEPT ![r] = [@ EXCEPT !.pc = "GetNonce", !.in = in]]
  /\ UNCHANGED <<chainNonce, chainBalance, pending, addrIdx, byprice,
                 announced, rm, faults, validated, admitted>>

(* stateReader.GetNonce, then the nonce-too-low check.                     *)
GetNonce(r) ==
  LET t == req[r].in IN
  /\ req[r].pc = "GetNonce"
  /\ \/ FailCall(r)
     \/ /\ faults' = faults
        /\ IF t.nonce < chainNonce[t.sender]
             THEN Answer(r, "reject")
             ELSE req' = [req EXCEPT ![r].pc = "GetBalance",
                                     ![r].nonce = chainNonce[t.sender]]
  /\ UNCHANGED <<chainNonce, chainBalance, pending, addrIdx, byprice,
                 announced, rm, validated, admitted>>

(* stateReader.GetBalance, the cost computation, the insufficient-funds    *)
(* check and the gas-floor check; past them, AddPendingTx begins.          *)
GetBalance(r) ==
  LET t == req[r].in
      b == chainBalance[t.sender]
  IN
  /\ req[r].pc = "GetBalance"
  /\ \/ FailCall(r) /\ UNCHANGED validated
     \/ /\ faults' = faults
        /\ CASE b < TotalCost(t) -> Answer(r, "reject") /\ UNCHANGED validated
             [] t.gas < GasFloor -> Answer(r, "invalid") /\ UNCHANGED validated
             [] OTHER -> /\ req' = [req EXCEPT ![r].pc = "Set", ![r].balance = b]
                         /\ validated' = validated \cup
                              {[tx |-> t, nonce |-> req[r].nonce, balance |-> b]}
  /\ UNCHANGED <<chainNonce, chainBalance, pending, addrIdx, byprice,
                 announced, rm, admitted>>

(* Fault variant of SetPending: a failed Set is not returned, and the     *)
(* indexes are written for a transaction that was not stored.             *)
SetPendingIgnoreError(r) ==
  /\ req[r].pc = "Set"
  /\ \/ /\ faults < MaxFaults /\ faults' = faults + 1
        /\ UNCHANGED pending
        /\ Go(r, "ZAddAddr")
     \/ /\ faults' = faults
        /\ pending' = Set(pending, req[r].in)
        /\ Go(r, "ZAddAddr")
  /\ UNCHANGED <<addrIdx, byprice, announced>>
  /\ UNCHANGED StepVars

(* AddPendingTx: Set pool:pending:{hash}.                                  *)
SetPending(r) ==
  /\ req[r].pc = "Set"
  /\ \/ FailCall(r) /\ UNCHANGED pending
     \/ /\ faults' = faults
        /\ pending' = Set(pending, req[r].in)
        /\ Go(r, "ZAddAddr")
  /\ UNCHANGED <<addrIdx, byprice, announced>>
  /\ UNCHANGED StepVars

(* AddPendingTx: ZAdd pool:addr:{sender}, score the nonce.  The sender     *)
(* recovery before it cannot fail: admission recovered the same sender.    *)
ZAddAddr(r) ==
  LET t == req[r].in IN
  /\ req[r].pc = "ZAddAddr"
  /\ \/ FailCall(r) /\ UNCHANGED addrIdx
     \/ /\ faults' = faults
        /\ addrIdx' = [addrIdx EXCEPT ![t.sender] = ZAdd(@, t)]
        /\ Go(r, "ZAddPrice")
  /\ UNCHANGED <<pending, byprice, announced>>
  /\ UNCHANGED StepVars

(* Fault variant of ZAddPrice: the member goes to the sender's key, as if  *)
(* the price index were written under addrKey.                            *)
ZAddPriceWrongKey(r) ==
  LET t == req[r].in IN
  /\ req[r].pc = "ZAddPrice"
  /\ \/ FailCall(r) /\ UNCHANGED addrIdx
     \/ /\ faults' = faults
        /\ addrIdx' = [addrIdx EXCEPT ![t.sender] = ZAdd(@, t)]
        /\ Go(r, "Publish")
  /\ UNCHANGED <<pending, byprice, announced>>
  /\ UNCHANGED StepVars

(* AddPendingTx: ZAdd pool:byprice, score Score(t).                        *)
ZAddPrice(r) ==
  /\ req[r].pc = "ZAddPrice"
  /\ \/ FailCall(r) /\ UNCHANGED byprice
     \/ /\ faults' = faults
        /\ byprice' = ZAdd(byprice, req[r].in)
        /\ Go(r, "Publish")
  /\ UNCHANGED <<pending, addrIdx, announced>>
  /\ UNCHANGED StepVars

(* AddPendingTx: Publish pool:new; on success SendRawTransaction returns   *)
(* the hash.                                                               *)
Publish(r) ==
  LET t == req[r].in IN
  /\ req[r].pc = "Publish"
  /\ \/ FailCall(r) /\ UNCHANGED <<announced, admitted>>
     \/ /\ faults' = faults
        /\ announced' = PikaPublish(announced, t)
        /\ admitted' = [admitted EXCEPT ![t.sender] = @ \cup {t.nonce}]
        /\ Answer(r, "ok")
  /\ UNCHANGED <<chainNonce, chainBalance, pending, addrIdx, byprice, rm,
                 validated>>

-----------------------------------------------------------------------------
(* RemovePendingTx(hash), one step per KV call.                            *)

RmAnswer(m, a) == rm' = [rm EXCEPT ![m].pc = "Done", ![m].answer = a]

RmFail(m) ==
  /\ faults < MaxFaults
  /\ faults' = faults + 1
  /\ RmAnswer(m, "internal")

RmGo(m, pc) == rm' = [rm EXCEPT ![m].pc = pc]

RmVars == <<chainNonce, chainBalance, announced, req, validated, admitted>>

(* The caller names a hash.                                                *)
RmStart(m, h) ==
  /\ rm[m].pc = "Idle"
  /\ rm' = [rm EXCEPT ![m].pc = "Get", ![m].h = h]
  /\ UNCHANGED <<pending, addrIdx, byprice, faults>>
  /\ UNCHANGED RmVars

(* GetPendingTx: a missing key (redis.Nil) or a failed Get is returned as  *)
(* the error; the stored RLP always decodes and its sender recovers.       *)
RmGet(m) ==
  /\ rm[m].pc = "Get"
  /\ \/ RmFail(m)
     \/ /\ faults' = faults
        /\ IF rm[m].h \in pending THEN RmGo(m, "Del")
                                  ELSE RmAnswer(m, "internal")
  /\ UNCHANGED <<pending, addrIdx, byprice>>
  /\ UNCHANGED RmVars

RmDel(m) ==
  /\ rm[m].pc = "Del"
  /\ \/ RmFail(m) /\ UNCHANGED pending
     \/ /\ faults' = faults
        /\ pending' = Del(pending, rm[m].h)
        /\ RmGo(m, "ZRemAddr")
  /\ UNCHANGED <<addrIdx, byprice>>
  /\ UNCHANGED RmVars

RmZRemAddr(m) ==
  LET h == rm[m].h IN
  /\ rm[m].pc = "ZRemAddr"
  /\ \/ RmFail(m) /\ UNCHANGED addrIdx
     \/ /\ faults' = faults
        /\ addrIdx' = [addrIdx EXCEPT ![h.sender] = ZRem(@, h)]
        /\ RmGo(m, "ZRemPrice")
  /\ UNCHANGED <<pending, byprice>>
  /\ UNCHANGED RmVars

RmZRemPrice(m) ==
  /\ rm[m].pc = "ZRemPrice"
  /\ \/ RmFail(m) /\ UNCHANGED byprice
     \/ /\ faults' = faults
        /\ byprice' = ZRem(byprice, rm[m].h)
        /\ RmAnswer(m, "ok")
  /\ UNCHANGED <<pending, addrIdx>>
  /\ UNCHANGED RmVars

-----------------------------------------------------------------------------
(* The indexer writes a new block: the sender's account at "latest" gets   *)
(* the next nonce and some balance.  Not code of this repository.          *)
ChainAdvance(s) ==
  /\ chainNonce[s] < MaxNonce
  /\ chainNonce' = [chainNonce EXCEPT ![s] = @ + 1]
  /\ \E b \in Balances : chainBalance' = [chainBalance EXCEPT ![s] = b]
  /\ admitted' = [admitted EXCEPT ![s] = {}]
  /\ UNCHANGED <<pending, addrIdx, byprice, announced, req, rm, faults,
                 validated>>

ReqStep(r) ==
  \/ GetNonce(r) \/ GetBalance(r) \/ SetPending(r)
  \/ ZAddAddr(r) \/ ZAddPrice(r) \/ Publish(r)

RmStep(m) == RmGet(m) \/ RmDel(m) \/ RmZRemAddr(m) \/ RmZRemPrice(m)

Next ==
  \/ \E r \in Reqs : \E in \in Txs \cup BadInputs : Decode(r, in)
  \/ \E r \in Reqs : ReqStep(r)
  \/ \E m \in Removers : \E h \in Txs : RmStart(m, h)
  \/ \E m \in Removers : RmStep(m)
  \/ \E s \in Senders : ChainAdvance(s)

Spec == Init /\ [][Next]_vars

-----------------------------------------------------------------------------
(* Every variable has its type, and a request past Decode carries a       *)
(* transaction that decoded (an undecodable input ends the request).       *)
TypeOK ==
  /\ chainNonce \in [Senders -> 0..MaxNonce]
  /\ chainBalance \in [Senders -> Balances]
  /\ pending \subseteq Txs /\ byprice \subseteq Txs /\ announced \subseteq Txs
  /\ addrIdx \in [Senders -> SUBSET Txs]
  /\ req \in [Reqs -> [pc: ReqPCs, in: Txs \cup BadInputs, nonce: 0..MaxNonce,
                        balance: Balances \cup {0}, answer: Answers]]
  /\ rm \in [Removers -> [pc: RmPCs, h: Txs, answer: Answers]]
  /\ \A r \in Reqs : req[r].pc \in Decoded => req[r].in \in Txs
  /\ faults \in 0..MaxFaults
  /\ validated \subseteq [tx: Txs, nonce: 0..MaxNonce, balance: Balances]
  /\ admitted \in [Senders -> SUBSET (0..MaxNonce)]

-----------------------------------------------------------------------------
(* Admission as spec §4.6 states it, in exact arithmetic: the chain id     *)
(* matches, the nonce is not below the account nonce read, the balance     *)
(* read covers value + gasLimit * gasPrice, and the gas limit is at least  *)
(* the floor.                                                              *)
Admissible(v) ==
  /\ v.tx.chain = ChainID
  /\ v.tx.nonce >= v.nonce
  /\ v.balance >= v.tx.value + v.tx.price * v.tx.gas
  /\ v.tx.gas >= GasFloor

Pooled == pending \cup byprice \cup UNION {addrIdx[s] : s \in Senders}

(* SendRawTransaction writes the shared pool only for a transaction that   *)
(* passed every admission check, and those checks, computed with           *)
(* int64(tx.Gas()), agree with the exact rule: whatever interleaving of    *)
(* requests, removals, chain updates and KV failures, every transaction    *)
(* found under any pool key was admitted against the nonce and balance     *)
(* its request read.                                                       *)
PooledTxAdmissible ==
  /\ \A t \in Pooled : \E v \in validated : v.tx = t
  /\ \A v \in validated : Admissible(v)

(* A transaction whose SendRawTransaction returned its hash is listed by   *)
(* eth_pendingTransactions (GetPendingTransactions resolves it through     *)
(* both pool:byprice and pool:pending), counted by txpool_status and       *)
(* listed for its sender (GetAddressTransactions, which no handler calls), *)
(* until a RemovePendingTx of it starts: another request for the same      *)
(* transaction that fails half-way, failures of other calls and removals   *)
(* of other transactions never take it out.                                *)
AcceptedTxListed ==
  \A r \in Reqs :
    LET t == req[r].in IN
    req[r].answer = "ok" =>
      \/ t \in Listed /\ t \in AddressTransactions(t.sender)
      \/ \E m \in Removers : rm[m].pc # "Idle" /\ rm[m].h = t

(* txpool_status counts only what eth_pendingTransactions lists, except    *)
(* the entries a RemovePendingTx leaves behind: a member of pool:byprice   *)
(* without its pool:pending key belongs to a removal that is past its Get  *)
(* and has deleted the key, and then either has yet to ZRem it, failed to, *)
(* or finished before a racing AddPendingTx of the same transaction wrote  *)
(* its index entries, which then stay for good.  AddPendingTx writes       *)
(* pool:pending first and stops at its first failed call, so a failed add  *)
(* alone never leaves such an entry.                                       *)
StatusOvercountOnlyByRemoval ==
  \A t \in byprice \ pending :
    \E m \in Removers : rm[m].h = t /\ rm[m].pc \in {"ZRemAddr", "ZRemPrice", "Done"}

(* Spec §4.3: eth_pendingTransactions lists the pool by descending gas     *)
(* price, through pool:byprice, and a sender's listing goes                 *)
(* by ascending nonce, through pool:addr:{sender}.  The two sorted sets get *)
(* different scores from separate ZAdds of AddPendingTx, and the price     *)
(* score is the conversion float64(gasPrice.Uint64()): in every state that *)
(* adds, removals and failures reach, both listings are in their order.   *)
ListingsOrdered ==
  /\ LET l == GetPendingTransactions
     IN  \A i, j \in DOMAIN l : i < j => l[i].price >= l[j].price
  /\ \A s \in Senders :
       LET a == GetAddressTransactions(s)
       IN  \A i, j \in DOMAIN a : i < j => a[i].nonce <= a[j].nonce

(* Spec §8.7: once a transaction of nonce n from sender S is accepted, a   *)
(* later one from S with a lower nonce is rejected until the chain         *)
(* advances S's account.  SendRawTransaction compares the nonce with the   *)
(* account nonce only, never with the pool.                                *)
NonceMonotone ==
  [][\A r \in Reqs :
       (req[r].answer = "none" /\ req'[r].answer = "ok")
         => \A n \in admitted[req[r].in.sender] : req[r].in.nonce >= n]_vars
====
