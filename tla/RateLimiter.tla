----------------------------- MODULE RateLimiter -----------------------------
(***************************************************************************)
(* The three-scope rate limiter of pkg/middleware/ratelimit.go as HTTP and *)
(* WebSocket requests meet it.  An HTTP request first passes              *)
(* RateLimiter.Middleware (global and peer checks, pkg/server/http.go      *)
(* wraps the router with it), then JSONRPCHandler.HandleRequest calls      *)
(* Allow (global, peer, method); a WebSocket request only meets Allow.     *)
(*                                                                         *)
(* A *rate.Limiter is a record in the sequence limiters; its identity is   *)
(* its index.  rate.Limiter's lazy refill is modelled as a refill of every *)
(* bucket once per whole second (Tick), which gives the same token counts  *)
(* at whole seconds.  Each Limiter.Allow is atomic (the limiter has its    *)
(* own mutex); sync.Map.Load, Store and LoadOrStore are each atomic, so    *)
(* getIPLimiter is two steps: the Load, then the Store of a fresh limiter  *)
(* together with the Allow on it.                                          *)
(***************************************************************************)
EXTENDS Naturals, Sequences, FiniteSets, Functions, TLC

CONSTANTS
  Reqs,          \* concurrent requests (model values)
  Peers,         \* peer identifiers extractIP may return (client-chosen strings)
  Headers,       \* what requests carry: X-Forwarded-For, X-Real-IP, RemoteAddr
  Methods,       \* method names requests call
  Transports,    \* subset of {"http", "ws"}
  GlobalRate, GlobalBurst,   \* RateLimitConfig.Global
  IpRate, IpBurst,           \* RateLimitConfig.IP
  MethodLimits,  \* RateLimitConfig.Method: Methods -> requests per second (0: none)
  MaxTime        \* bound: whole seconds that pass

ASSUME Transports \subseteq {"http", "ws"}
ASSUME {GlobalRate, GlobalBurst, IpRate, IpBurst, MaxTime} \subseteq Nat
ASSUME MethodLimits \in [Methods -> Nat]
ASSUME Headers \subseteq [xff: STRING, xri: STRING, remote: STRING]

VARIABLES
  now,         \* whole seconds elapsed
  global,      \* tokens of rl.global
  limiters,    \* every *rate.Limiter made for ipLimiters: [tokens, rate, burst]
  ipLimiters,  \* rl.ipLimiters: key string -> index in limiters
  req,         \* each request: pc, peer, method
  charged,     \* history: tokens each request took from each scope
  passed       \* history: checks of each scope key that let a request through

vars == <<now, global, limiters, ipLimiters, req, charged, passed>>

Scopes == {"global", "ip", "method"}

(* The method limiter's key in rl.ipLimiters.                              *)
MethodKey(m) == "method:" \o m

(* Scope keys of the specification: one per scope instance.               *)
GlobalKey == <<"global", "">>
PeerKey(p) == <<"ip", p>>
MethodScopeKey(m) == <<"method", m>>
ScopeKeys == {GlobalKey} \cup {PeerKey(p) : p \in Peers}
               \cup {MethodScopeKey(m) : m \in Methods}

(* extractIP, in pkg/middleware/ratelimit.go for Middleware and in        *)
(* pkg/server/http.go for handleRPC and the WebSocket upgrade: the first   *)
(* non-empty of X-Forwarded-For, X-Real-IP and RemoteAddr.                 *)
ExtractIP(h) ==
  CASE h.xff # "" -> h.xff
    [] h.xri # "" -> h.xri
    [] OTHER -> h.remote

ASSUME \A h \in Headers : ExtractIP(h) \in Peers

NewLimiter(r, b) == [tokens |-> b, rate |-> r, burst |-> b]

Refill(tok, r, b) == IF tok + r > b THEN b ELSE tok + r

Done == {"Allowed", "Rejected", "Denied429", "DeniedGlobal", "DeniedIp",
         "DeniedMethod"}
PCs == {"Idle", "MwGlobal", "MwIpLoad", "MwIpStore", "Validate", "Global",
        "IpLoad", "IpStore", "Method"} \cup Done

(* Where each check leads: the middleware's checks continue to request     *)
(* parsing and end in HTTP 429; Allow's end in the tagged RPC error.       *)
AfterGlobal == ("MwGlobal" :> "MwIpLoad") @@ ("Global" :> "IpLoad")
GlobalDenied == ("MwGlobal" :> "Denied429") @@ ("Global" :> "DeniedGlobal")
IpStep == ("MwIpLoad" :> "MwIpStore") @@ ("IpLoad" :> "IpStore")
AfterIp == ("MwIpLoad" :> "Validate") @@ ("MwIpStore" :> "Validate")
             @@ ("IpLoad" :> "Method") @@ ("IpStore" :> "Method")
IpDenied == ("MwIpLoad" :> "Denied429") @@ ("MwIpStore" :> "Denied429")
              @@ ("IpLoad" :> "DeniedIp") @@ ("IpStore" :> "DeniedIp")

-----------------------------------------------------------------------------
(* Limiter.Allow on limiters-to-be ls at index i for request r's check of  *)
(* scope key k: take a token and go on to onPass, or go to onDeny.         *)
TryLimiter(r, ls, i, scope, k, onPass, onDeny) ==
  IF ls[i].tokens >= 1
  THEN /\ limiters' = [ls EXCEPT ![i].tokens = @ - 1]
       /\ charged' = [charged EXCEPT ![r][scope] = @ + 1]
       /\ passed' = [passed EXCEPT ![k] = @ + 1]
       /\ req' = [req EXCEPT ![r].pc = onPass]
  ELSE /\ limiters' = ls
       /\ req' = [req EXCEPT ![r].pc = onDeny]
       /\ UNCHANGED <<charged, passed>>

(* A request arrives with its headers and the method it calls, over HTTP   *)
(* (through Middleware) or WebSocket; its peer is what extractIP returns   *)
(* for the HTTP request, or for the WebSocket upgrade request, whose       *)
(* result the connection keeps as clientIP.                                *)
Arrive(r) ==
  /\ req[r].pc = "Idle"
  /\ \E h \in Headers, m \in Methods, t \in Transports :
       req' = [req EXCEPT ![r] = [pc |-> IF t = "http" THEN "MwGlobal"
                                                       ELSE "Validate",
                                  peer |-> ExtractIP(h), method |-> m]]
  /\ UNCHANGED <<now, global, limiters, ipLimiters, charged, passed>>

CheckGlobal(r) ==
  LET pc == req[r].pc IN
  /\ pc \in DOMAIN AfterGlobal
  /\ IF GlobalRate <= 0
     THEN /\ req' = [req EXCEPT ![r].pc = AfterGlobal[pc]]
          /\ UNCHANGED <<global, charged, passed>>
     ELSE IF global >= 1
     THEN /\ global' = global - 1
          /\ charged' = [charged EXCEPT ![r]["global"] = @ + 1]
          /\ passed' = [passed EXCEPT ![GlobalKey] = @ + 1]
          /\ req' = [req EXCEPT ![r].pc = AfterGlobal[pc]]
     ELSE /\ req' = [req EXCEPT ![r].pc = GlobalDenied[pc]]
          /\ UNCHANGED <<global, charged, passed>>
  /\ UNCHANGED <<now, limiters, ipLimiters>>

(* getIPLimiter's Load, and Allow on the limiter it finds.  With           *)
(* IpRate <= 0 getIPLimiter returns nil and the peer check is skipped.     *)
LoadIpLimiter(r) ==
  LET pc == req[r].pc
      p  == req[r].peer
  IN
  /\ pc \in DOMAIN IpStep
  /\ IF IpRate <= 0
     THEN /\ req' = [req EXCEPT ![r].pc = AfterIp[pc]]
          /\ UNCHANGED <<limiters, charged, passed>>
     ELSE IF p \in DOMAIN ipLimiters
     THEN TryLimiter(r, limiters, ipLimiters[p], "ip", PeerKey(p),
                     AfterIp[pc], IpDenied[pc])
     ELSE /\ req' = [req EXCEPT ![r].pc = IpStep[pc]]
          /\ UNCHANGED <<limiters, charged, passed>>
  /\ UNCHANGED <<now, global, ipLimiters>>

(* Fault variant: the fresh limiter is stored under a prefixed key that    *)
(* the Load never reads.                                                   *)
StoreIpLimiterPrefixed(r) ==
  LET pc == req[r].pc
      p  == req[r].peer
      ls == Append(limiters, NewLimiter(IpRate, IpBurst))
  IN
  /\ pc \in {"MwIpStore", "IpStore"}
  /\ ipLimiters' = (("ip:" \o p) :> Len(ls)) @@ ipLimiters
  /\ TryLimiter(r, ls, Len(ls), "ip", PeerKey(p), AfterIp[pc], IpDenied[pc])
  /\ UNCHANGED <<now, global>>

(* getIPLimiter after a missed Load: Store a fresh limiter under the peer, *)
(* replacing whatever another request stored meanwhile, and Allow on it.  *)
StoreIpLimiter(r) ==
  LET pc == req[r].pc
      p  == req[r].peer
      ls == Append(limiters, NewLimiter(IpRate, IpBurst))
  IN
  /\ pc \in {"MwIpStore", "IpStore"}
  /\ ipLimiters' = (p :> Len(ls)) @@ ipLimiters
  /\ TryLimiter(r, ls, Len(ls), "ip", PeerKey(p), AfterIp[pc], IpDenied[pc])
  /\ UNCHANGED <<now, global>>

(* ParseRequest and HandleRequest's version check: a body that does not   *)
(* parse or a jsonrpc other than "2.0" is answered before Allow runs.     *)
Validate(r) ==
  /\ req[r].pc = "Validate"
  /\ \E ok \in BOOLEAN :
       req' = [req EXCEPT ![r].pc = IF ok THEN "Global" ELSE "Rejected"]
  /\ UNCHANGED <<now, global, limiters, ipLimiters, charged, passed>>

(* Allow's method check: LoadOrStore of a limiter of rate = burst = the    *)
(* method's limit under "method:"+method, then Allow on the one returned. *)
CheckMethod(r) ==
  LET m   == req[r].method
      key == MethodKey(m)
      new == key \notin DOMAIN ipLimiters
      ls  == IF new THEN Append(limiters, NewLimiter(MethodLimits[m], MethodLimits[m]))
                    ELSE limiters
      i   == IF new THEN Len(ls) ELSE ipLimiters[key]
  IN
  /\ req[r].pc = "Method"
  /\ \/ /\ MethodLimits[m] = 0
        /\ req' = [req EXCEPT ![r].pc = "Allowed"]
        /\ UNCHANGED <<limiters, ipLimiters, charged, passed>>
     \/ /\ MethodLimits[m] > 0
        /\ ipLimiters' = IF new THEN (key :> i) @@ ipLimiters ELSE ipLimiters
        /\ TryLimiter(r, ls, i, "method", MethodScopeKey(m), "Allowed",
                      "DeniedMethod")
  /\ UNCHANGED <<now, global>>

(* A second passes: every limiter refills up to its burst.               *)
Tick ==
  /\ now < MaxTime
  /\ now' = now + 1
  /\ global' = Refill(global, GlobalRate, GlobalBurst)
  /\ limiters' = [i \in DOMAIN limiters |->
                    [limiters[i] EXCEPT !.tokens =
                       Refill(@, limiters[i].rate, limiters[i].burst)]]
  /\ UNCHANGED <<ipLimiters, req, charged, passed>>

-----------------------------------------------------------------------------
Init ==
  /\ now = 0
  /\ global = GlobalBurst
  /\ limiters = <<>>
  /\ ipLimiters = [k \in {} |-> 0]
  /\ req = [r \in Reqs |-> [pc |-> "Idle", peer |-> CHOOSE p \in Peers : TRUE,
                            method |-> CHOOSE m \in Methods : TRUE]]
  /\ charged = [r \in Reqs |-> [s \in Scopes |-> 0]]
  /\ passed = [k \in ScopeKeys |-> 0]

Next ==
  \/ Tick
  \/ \E r \in Reqs :
       \/ Arrive(r) \/ CheckGlobal(r) \/ LoadIpLimiter(r) \/ StoreIpLimiter(r)
       \/ Validate(r) \/ CheckMethod(r)

Spec == Init /\ [][Next]_vars

-----------------------------------------------------------------------------
(* The state has its types, and rl.ipLimiters holds only the keys         *)
(* getIPLimiter and Allow store: peer identifiers and "method:" keys.      *)
TypeOK ==
  /\ now \in 0..MaxTime
  /\ global \in 0..GlobalBurst
  /\ \A i \in DOMAIN limiters : limiters[i].tokens \in 0..limiters[i].burst
  /\ DOMAIN ipLimiters \subseteq Peers \cup {MethodKey(m) : m \in Methods}
  /\ \A k \in DOMAIN ipLimiters : ipLimiters[k] \in DOMAIN limiters
  /\ \A r \in Reqs : req[r].pc \in PCs /\ req[r].peer \in Peers
                      /\ req[r].method \in Methods
  /\ charged \in [Reqs -> [Scopes -> Nat]]
  /\ passed \in [ScopeKeys -> Nat]

(* The tokens the specification's bucket of a scope key holds: those of    *)
(* the limiter rl.ipLimiters stores under its key, or a full bucket before *)
(* the first request creates one.                                          *)
StoredTokens(key, full) ==
  IF key \in DOMAIN ipLimiters THEN limiters[ipLimiters[key]].tokens ELSE full

PeerScopeKeys == {PeerKey(p) : p \in Peers}

PeerScope == INSTANCE RateBudget
  WITH Keys <- PeerScopeKeys, RateOf <- [k \in PeerScopeKeys |-> IpRate],
       BurstOf <- [k \in PeerScopeKeys |-> IpBurst],
       tokens <- [k \in PeerScopeKeys |-> StoredTokens(k[2], IpBurst)],
       passed <- [k \in PeerScopeKeys |-> passed[k]],
       clock <- now

(* Requests the gateway has let through to their handler.                 *)
AllowedReqs == {r \in Reqs : req[r].pc = "Allowed"}

PeerWindowBound == PeerScope!WindowBound

(* Spec §4.10: a request is evaluated global, then peer, then method, so   *)
(* it takes at most one token of each scope.                               *)
OneTokenPerScope == \A r \in Reqs : \A s \in Scopes : charged[r][s] <= 1
=============================================================================
