-------------------------------- MODULE Cache --------------------------------
(***************************************************************************)
(* The cache layer: cache.Manager (pkg/cache/manager.go) over one          *)
(* cache.Cache (pkg/cache/lru.go) per domain.  A Cache is a hashicorp LRU  *)
(* of *CacheItem guarded by a sync.RWMutex, with hit and miss counters.    *)
(*                                                                         *)
(* Goroutines: callers of the Manager's methods, and the goroutines that   *)
(* an expired Get starts with go c.Delete(key).  The RWMutex is modelled   *)
(* as Go implements it: a writer first takes the writer slot (w.Lock),     *)
(* which at once stops new RLock calls, then waits for the readers that    *)
(* hold the lock to leave.  Time advances in ticks; an item's expiration   *)
(* is absolute, 0 standing for the zero time.Time (never expires).         *)
(***************************************************************************)
EXTENDS Naturals, Sequences, SequencesExt, FiniteSets, TLC

CONSTANTS
  Callers,     \* goroutines calling the Manager
  Deleters,    \* goroutines started by go c.Delete(key)
  DomainOrder, \* the Manager's caches, in the order Stats and Clear visit them
  Ids,         \* block numbers, hashes and addresses, abstracted
  Vals,        \* cached values
  Size,        \* Domains -> the LRU capacity of NewCache(size)
  TTL,         \* Domains -> the domain's TTL in ticks; 0 is no expiry
  MaxTime,     \* bound on the clock
  MaxOps,      \* bound on the calls of each caller
  NoProc       \* no goroutine

ASSUME Cardinality(Deleters) >= Cardinality(Callers) * MaxOps

(* NewManager: NewCache(size) fails unless size > 0, and main.go stops on  *)
(* the error; a running Manager has five positive capacities.              *)
NewManagerOk == \A d \in DOMAIN Size : Size[d] > 0

(* The Manager's Get/Set methods: the cache each one uses and the prefix   *)
(* of the key it formats (GetBlock uses "blk:%d", GetBlockByHash           *)
(* "blk:hash:%s", both in blockCache).                                     *)
Methods == {"Block", "BlockByHash", "Transaction", "Receipt", "Balance", "Code"}
CacheOf == [Block |-> "block", BlockByHash |-> "block", Transaction |-> "tx",
            Receipt |-> "receipt", Balance |-> "balance", Code |-> "code"]
Prefix == [Block |-> "blk", BlockByHash |-> "blk:hash", Transaction |-> "tx",
           Receipt |-> "rcpt", Balance |-> "bal", Code |-> "code"]
KeyOf(m, id) == <<Prefix[m], id>>

Procs == Callers \cup Deleters
Domains == Range(DomainOrder)
UsedMethods == {m \in Methods : CacheOf[m] \in Domains}

VARIABLES
  lru,       \* Domains -> Seq of [key, val, exp], most recently used first
  hits,      \* Domains -> Cache.hits
  misses,    \* Domains -> Cache.misses
  readers,   \* Domains -> Procs -> number of RLock holds
  writer,    \* Domains -> the goroutine holding the writer slot, or NoProc
  clock,     \* time.Now(), in ticks
  cs,        \* Callers -> the caller's call in progress
  ds         \* Deleters -> a Delete goroutine's state

vars == <<lru, hits, misses, readers, writer, clock, cs, ds>>

-----------------------------------------------------------------------------
(* CacheItem.IsExpired: the zero time never expires, otherwise now > exp.  *)
IsExpired(it) == it.exp # 0 /\ clock > it.exp

(* The item for key in d's LRU, as a set of at most one index.             *)
IndexOf(d, key) == {i \in 1..Len(lru[d]) : lru[d][i].key = key}

(* lru.Cache.Add: replace and move to the front, or insert at the front    *)
(* and evict the least recently used item beyond the capacity.             *)
LruAdd(d, it) ==
  LET rest == SelectSeq(lru[d], LAMBDA e : e.key # it.key)
      full == <<it>> \o rest
  IN  IF Len(full) > Size[d] THEN SubSeq(full, 1, Size[d]) ELSE full

(* lru.Cache.Get on a present key moves it to the front.                   *)
LruTouch(d, i) ==
  <<lru[d][i]>> \o SelectSeq(lru[d], LAMBDA e : e.key # lru[d][i].key)

(* lru.Cache.Remove.                                                       *)
LruRemove(d, key) == SelectSeq(lru[d], LAMBDA e : e.key # key)

(* The RWMutex: RLock passes only while no writer holds the writer slot;   *)
(* Lock takes the slot, then acquires once no reader holds the lock.       *)
CanRLock(d) == writer[d] = NoProc
NoReaders(d) == \A p \in Procs : readers[d][p] = 0
AddReader(d, p, n) == [readers EXCEPT ![d][p] = @ + n]

Idle == [pc |-> "Idle", m |-> "Block", id |-> CHOOSE i \in Ids : TRUE,
         v |-> CHOOSE x \in Vals : TRUE, i |-> 1, tmp |-> 0, res |-> "miss"]

Init ==
  /\ lru = [d \in Domains |-> <<>>]
  /\ hits = [d \in Domains |-> 0]
  /\ misses = [d \in Domains |-> 0]
  /\ readers = [d \in Domains |-> [p \in Procs |-> 0]]
  /\ writer = [d \in Domains |-> NoProc]
  /\ clock = 0
  /\ cs = [g \in Callers |-> Idle @@ [ops |-> 0]]
  /\ ds = [x \in Deleters |-> [pc |-> "Idle", d |-> CHOOSE d \in Domains : TRUE,
                               key |-> <<"blk", CHOOSE i \in Ids : TRUE>>]]
  /\ NewManagerOk

-----------------------------------------------------------------------------
(* A caller starts one of the Manager's calls.  Get*/Set* pick a method    *)
(* and its argument; Stats stands for Manager.Stats and Manager.HitRate,   *)
(* which takes the same locks in the same order.                           *)
Call(g) ==
  /\ cs[g].pc = "Idle" /\ cs[g].ops < MaxOps
  /\ \E m \in UsedMethods, id \in Ids, v \in Vals, op \in {"Get", "Set", "Stats", "Clear"} :
       cs' = [cs EXCEPT ![g] = [@ EXCEPT !.pc = op, !.m = m, !.id = id,
                                         !.v = v, !.i = 1, !.ops = @ + 1]]
  /\ UNCHANGED <<lru, hits, misses, readers, writer, clock, ds>>

(* Cache.Get, up to the counter update: RLock, lru.Get (which moves a      *)
(* present item to the front, expired or not), and the read of the        *)
(* counter that c.misses++ or c.hits++ will write back.                    *)
GetLookup(g) ==
  LET d == CacheOf[cs[g].m]
      key == KeyOf(cs[g].m, cs[g].id)
      at == IndexOf(d, key)
      res == IF at = {} THEN "miss"
             ELSE IF IsExpired(lru[d][CHOOSE i \in at : TRUE]) THEN "expired" ELSE "hit"
  IN  /\ cs[g].pc = "Get" /\ CanRLock(d)
      /\ readers' = AddReader(d, g, 1)
      /\ lru' = IF at = {} THEN lru ELSE [lru EXCEPT ![d] = LruTouch(d, CHOOSE i \in at : TRUE)]
      /\ cs' = [cs EXCEPT ![g].pc = "GetCount", ![g].res = res,
                          ![g].tmp = IF res = "hit" THEN hits[d] ELSE misses[d]]
      /\ UNCHANGED <<hits, misses, writer, clock, ds>>

(* The rest of Cache.Get: the counter write (a read-modify-write under     *)
(* the read lock, so other readers interleave), go c.Delete(key) when the  *)
(* item was present but expired, and the deferred RUnlock.                 *)
GetReturn(g) ==
  LET d == CacheOf[cs[g].m]
      key == KeyOf(cs[g].m, cs[g].id)
  IN  /\ cs[g].pc = "GetCount"
      /\ IF cs[g].res = "hit" THEN hits' = [hits EXCEPT ![d] = cs[g].tmp + 1] /\ UNCHANGED misses
                      ELSE misses' = [misses EXCEPT ![d] = cs[g].tmp + 1] /\ UNCHANGED hits
      /\ IF cs[g].res = "expired"
           THEN \E x \in Deleters :
                  /\ ds[x].pc = "Idle"
                  /\ ds' = [ds EXCEPT ![x] = [pc |-> "Lock", d |-> d, key |-> key]]
           ELSE UNCHANGED ds
      /\ readers' = AddReader(d, g, -1)
      /\ cs' = [cs EXCEPT ![g].pc = "Idle"]
      /\ UNCHANGED <<lru, writer, clock>>

(* The first half of Lock, in Set, Clear and Delete: take the writer slot. *)
TakeWriterSlot(p, d) ==
  /\ writer[d] = NoProc
  /\ writer' = [writer EXCEPT ![d] = p]

(* Cache.Set: Lock, then, once the readers have left, build the item       *)
(* (expiration now+ttl when ttl > 0, else the zero time), lru.Add and the  *)
(* deferred Unlock.  The ttl is the Manager's TTL for the method's cache.  *)
SetLock(g) ==
  /\ cs[g].pc = "Set"
  /\ TakeWriterSlot(g, CacheOf[cs[g].m])
  /\ cs' = [cs EXCEPT ![g].pc = "SetAdd"]
  /\ UNCHANGED <<lru, hits, misses, readers, clock, ds>>

SetAdd(g) ==
  LET d == CacheOf[cs[g].m]
      it == [key |-> KeyOf(cs[g].m, cs[g].id), val |-> cs[g].v,
             exp |-> IF TTL[d] > 0 THEN clock + TTL[d] ELSE 0]
  IN  /\ cs[g].pc = "SetAdd" /\ NoReaders(d)
      /\ lru' = [lru EXCEPT ![d] = LruAdd(d, it)]
      /\ writer' = [writer EXCEPT ![d] = NoProc]
      /\ cs' = [cs EXCEPT ![g].pc = "Idle"]
      /\ UNCHANGED <<hits, misses, readers, clock, ds>>

(* Cache.Delete, run by the goroutine an expired Get started: Lock,        *)
(* lru.Remove(key), Unlock.  It removes whatever item has the key now.     *)
DeleteLock(x) ==
  /\ ds[x].pc = "Lock"
  /\ TakeWriterSlot(x, ds[x].d)
  /\ ds' = [ds EXCEPT ![x].pc = "Remove"]
  /\ UNCHANGED <<lru, hits, misses, readers, clock, cs>>

DeleteRemove(x) ==
  LET d == ds[x].d
  IN  /\ ds[x].pc = "Remove" /\ NoReaders(d)
      /\ lru' = [lru EXCEPT ![d] = LruRemove(d, ds[x].key)]
      /\ writer' = [writer EXCEPT ![d] = NoProc]
      /\ ds' = [ds EXCEPT ![x].pc = "Idle"]
      /\ UNCHANGED <<hits, misses, readers, clock, cs>>

(* Manager.Clear calls Clear on each cache in turn; Cache.Clear is Lock,   *)
(* lru.Purge, Unlock.  The caches are cleared one at a time, not at once.  *)
ClearLock(g) ==
  /\ cs[g].pc = "Clear"
  /\ TakeWriterSlot(g, DomainOrder[cs[g].i])
  /\ cs' = [cs EXCEPT ![g].pc = "Purge"]
  /\ UNCHANGED <<lru, hits, misses, readers, clock, ds>>

ClearPurge(g) ==
  LET d == DomainOrder[cs[g].i]
      last == cs[g].i = Len(DomainOrder)
  IN  /\ cs[g].pc = "Purge" /\ NoReaders(d)
      /\ lru' = [lru EXCEPT ![d] = <<>>]
      /\ writer' = [writer EXCEPT ![d] = NoProc]
      /\ cs' = [cs EXCEPT ![g].pc = IF last THEN "Idle" ELSE "Clear", ![g].i = @ + 1]
      /\ UNCHANGED <<hits, misses, readers, clock, ds>>

(* Manager.Stats calls Stats on each cache in turn.  Cache.Stats takes     *)
(* RLock, reads hits, misses and Len, then calls c.HitRate(), which takes  *)
(* RLock again while the first is held; both are released on return.      *)
StatsRLock(g) ==
  LET d == DomainOrder[cs[g].i]
  IN  /\ cs[g].pc = "Stats" /\ CanRLock(d)
      /\ readers' = AddReader(d, g, 1)
      /\ cs' = [cs EXCEPT ![g].pc = "HitRate"]
      /\ UNCHANGED <<lru, hits, misses, writer, clock, ds>>

HitRateRLock(g) ==
  LET d == DomainOrder[cs[g].i]
      last == cs[g].i = Len(DomainOrder)
  IN  /\ cs[g].pc = "HitRate" /\ CanRLock(d)
      /\ readers' = AddReader(d, g, -1)
      /\ cs' = [cs EXCEPT ![g].pc = IF last THEN "Idle" ELSE "Stats", ![g].i = @ + 1]
      /\ UNCHANGED <<lru, hits, misses, writer, clock, ds>>

(* time.Now() advances.                                                    *)
Tick ==
  /\ clock < MaxTime
  /\ clock' = clock + 1
  /\ UNCHANGED <<lru, hits, misses, readers, writer, cs, ds>>

Next ==
  \/ Tick
  \/ \E g \in Callers :
       \/ Call(g) \/ GetLookup(g) \/ GetReturn(g) \/ SetLock(g) \/ SetAdd(g)
       \/ ClearLock(g) \/ ClearPurge(g) \/ StatsRLock(g) \/ HitRateRLock(g)
  \/ \E x \in Deleters : DeleteLock(x) \/ DeleteRemove(x)

(* Every goroutine step is scheduled eventually while it stays enabled.    *)
Fairness ==
  /\ \A g \in Callers :
       WF_vars(GetLookup(g) \/ GetReturn(g) \/ SetLock(g) \/ SetAdd(g) \/ ClearLock(g)
               \/ ClearPurge(g) \/ StatsRLock(g) \/ HitRateRLock(g))
  /\ \A x \in Deleters : WF_vars(DeleteLock(x) \/ DeleteRemove(x))

Spec == Init /\ [][Next]_vars /\ Fairness

-----------------------------------------------------------------------------
Busy == {"Get", "GetCount", "Set", "SetAdd", "Clear", "Purge", "Stats", "HitRate"}

TypeOK ==
  /\ \A d \in Domains : Len(lru[d]) <= Size[d]
  /\ clock \in 0..MaxTime
  /\ writer \in [Domains -> Procs \cup {NoProc}]
  /\ \A g \in Callers : cs[g].pc \in Busy \cup {"Idle"}

(* Every call a caller makes on the Manager returns: Manager.Stats (the    *)
(* logging loop in main.go) and Set, Clear or an expired Get's Delete on   *)
(* the same cache never wait on each other forever.                        *)
EveryCallReturns == \A g \in Callers : cs[g].pc \in Busy ~> cs[g].pc = "Idle"
====
