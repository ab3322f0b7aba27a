----------------------------- MODULE QuotaCache -----------------------------
(***************************************************************************)
(* The cache of quotas: an access key's record with the info and the limit  *)
(* of its project, or a project's alone.  Clients look in their own memory  *)
(* (LRU), then in redis, then ask the server, which reads the store in two  *)
(* or three calls; server and client both write what they got to redis.     *)
(* Nothing orders these writes after the deletions that follow an update,   *)
(* so what bounds how old a quota may be is time: the two TTLs, and how     *)
(* long a fetch takes.  The age of a quota is the number of ticks it has    *)
(* been different from the store without a break.                           *)
(***************************************************************************)
EXTENDS KeyStore

CONSTANTS
  Fetchers,     \* requests that need a quota, goroutines of the clients
  ClientOf,     \* the client each is served by
  LruClients,   \* the clients configured with an LRU
  Nameless,     \* the name "" (the access key of a project's quota)
  Plans,        \* contents of a ProjectInfo or of a Limit
  InitialPlans, \* the contents a behaviour may start from
  Unread,       \* the part of a quota the server has not read yet
  None,         \* no entry, no quota
  Interests,    \* the names each fetcher may ask for in a behaviour
  CacheFaults,  \* see CacheFaultKinds
  RedisTTL, MemoryTTL,  \* in ticks
  MaxFetch      \* assumed: ticks a fetch takes at most (the code has no timeout)

Names == Keys \cup Projects \cup {Nameless}
CacheFaultKinds == {"redis",  \* a command of redis fails
                    "rpc"}    \* a call of the server fails or is lost

ASSUME QuotaCacheAssumption ==
  /\ Keys \cap Projects = {} /\ Nameless \notin Keys \cup Projects
  /\ Unread \notin Plans /\ InitialPlans \subseteq [Projects -> Plans]
  /\ RedisTTL \in Nat \ {0} /\ MemoryTTL \in Nat \ {0} /\ MaxFetch \in Nat
  /\ LruClients \subseteq {ClientOf[f] : f \in Fetchers}
  /\ DOMAIN ClientOf = Fetchers
  /\ Interests \subseteq [Fetchers -> SUBSET (Keys \cup Projects)]

VARIABLES
  info, limit,  \* the store of projects
  asks,         \* the names each fetcher asks for, fixed
  redis,        \* entries by name
  memory,       \* the LRU of each client that has one
  stage,        \* where each fetch is
  want,         \* the name it is for
  got,          \* the quota it has
  gotAge,
  elapsed,      \* ticks since it started
  deleting      \* names whose deletion from redis has been decided on

store == <<info, limit>>
fetches == <<stage, want, got, gotAge, elapsed>>
cacheVars == <<info, limit, asks, redis, memory, fetches, deleting>>

Quota == [of : Names, record : Record \cup {Missing},
          info : Plans \cup {Unread}, limit : Plans \cup {Unread}]

Entries == [quota : Quota, ttl : Nat, age : Nat]
Entry(q, ttl, age) == [quota |-> q, ttl |-> ttl, age |-> age]

ASSUME NoneAssumption == None \notin Quota /\ None \notin Entries

Watched == UNION {asks[f] : f \in Fetchers}
ProjectNamed(n) == IF n \in Projects THEN n ELSE ProjectOf[n]

Stages == {"idle", "redis", "keep", "find", "info", "limit", "record",
           "receive", "cache", "serve"}

CacheTypeOK ==
  /\ info \in [Projects -> Plans] /\ limit \in [Projects -> Plans]
  /\ asks \in Interests
  /\ redis \in [Names -> Entries \cup {None}]
  /\ memory \in [LruClients -> [Names -> Entries \cup {None}]]
  /\ stage \in [Fetchers -> Stages]
  /\ want \in [Fetchers -> Names \cup {None}]
  /\ got \in [Fetchers -> Quota \cup {None}]
  /\ gotAge \in [Fetchers -> Nat] /\ elapsed \in [Fetchers -> Nat]
  /\ deleting \subseteq Names

CacheInit ==
  /\ info \in InitialPlans /\ limit \in InitialPlans
  /\ asks \in Interests
  /\ redis = [n \in Names |-> None]
  /\ memory = [c \in LruClients |-> [n \in Names |-> None]]
  /\ stage = [f \in Fetchers |-> "idle"]
  /\ want = [f \in Fetchers |-> None]
  /\ got = [f \in Fetchers |-> None]
  /\ gotAge = [f \in Fetchers |-> 0]
  /\ elapsed = [f \in Fetchers |-> 0]
  /\ deleting = {}

-----------------------------------------------------------------------------
(* A fetch: FetchKeyQuota and FetchProjectQuota. *)

HasLru(f) == ClientOf[f] \in LruClients

Enter(f, s) == stage' = [stage EXCEPT ![f] = s]

Hold(f, q, age) ==
  got' = [got EXCEPT ![f] = q] /\ gotAge' = [gotAge EXCEPT ![f] = age]

Finish(f) ==
  /\ Enter(f, "idle") /\ Hold(f, None, 0)
  /\ want' = [want EXCEPT ![f] = None]
  /\ elapsed' = [elapsed EXCEPT ![f] = 0]

Begin(f, n, s) ==
  /\ Enter(f, s)
  /\ want' = [want EXCEPT ![f] = n]
  /\ UNCHANGED elapsed

Write(n, q, age) == redis' = [redis EXCEPT ![n] = Entry(q, RedisTTL, age)]
Add(c, n, q, age) == memory' = [memory EXCEPT ![c][n] = Entry(q, MemoryTTL, age)]

(* LRU.getQuota looks in the memory of the process; without an LRU, or on a *)
(* miss, redis is asked.                                                    *)
StartFetch(f) ==
  /\ stage[f] = "idle"
  /\ \E n \in asks[f] :
       LET hit == HasLru(f) /\ memory[ClientOf[f]][n] # None
           entry == memory[ClientOf[f]][n]
       IN \/ hit /\ Begin(f, n, "serve") /\ Hold(f, entry.quota, entry.age)
          \/ ~hit /\ Begin(f, n, "redis") /\ UNCHANGED <<got, gotAge>>
  /\ UNCHANGED <<store, asks, redis, memory, deleting>>

LookupNameless(f) ==                                  \* mutant: as the SET is
  IF HasLru(f) /\ want[f] \in Projects THEN Nameless ELSE want[f]
LookupName(f) == want[f]

GetRedis(f) ==
  /\ stage[f] = "redis"
  /\ LET entry == redis[LookupName(f)]
     IN \/ entry # None /\ Enter(f, "keep") /\ Hold(f, entry.quota, entry.age)
        \/ /\ entry = None /\ UNCHANGED <<got, gotAge>>
           /\ Enter(f, IF want[f] \in Keys THEN "find" ELSE "info")
  /\ UNCHANGED <<store, asks, want, elapsed, redis, memory, deleting>>

KeepInBoth(f) ==                                      \* mutant: setQuota for mem.Add
  /\ stage[f] = "keep"
  /\ Enter(f, "serve")
  /\ \/ /\ HasLru(f) /\ Add(ClientOf[f], want[f], got[f], gotAge[f])
        /\ Write(want[f], got[f], gotAge[f])
     \/ ~HasLru(f) /\ UNCHANGED <<redis, memory>>
  /\ UNCHANGED <<store, asks, want, got, gotAge, elapsed, deleting>>

(* The LRU keeps what redis returned, for a full TTL of its own. *)
Keep(f) ==
  /\ stage[f] = "keep"
  /\ Enter(f, "serve")
  /\ \/ HasLru(f) /\ Add(ClientOf[f], want[f], got[f], gotAge[f])
     \/ ~HasLru(f) /\ UNCHANGED memory
  /\ UNCHANGED <<store, asks, want, got, gotAge, elapsed, redis, deleting>>

(* The server's GetAccessQuota and GetProjectQuota, call by call. *)
FindAccessKey(f) ==
  /\ stage[f] = "find"
  /\ LET k == want[f]
     IN \/ ~Found(k) /\ Finish(f)
        \/ /\ Found(k) /\ Enter(f, "info")
           /\ Hold(f, [of |-> k, record |-> keys[k], info |-> Unread, limit |-> Unread], 0)
           /\ UNCHANGED <<want, elapsed>>
  /\ UNCHANGED <<store, asks, redis, memory, deleting>>

GetProjectInfo(f) ==
  /\ stage[f] = "info"
  /\ LET n == want[f]
         read == info[ProjectNamed(n)]
     IN \/ /\ n \in Keys
           /\ Hold(f, [got[f] EXCEPT !.info = read], gotAge[f])
        \/ /\ n \in Projects
           /\ Hold(f, [of |-> n, record |-> Missing, info |-> read, limit |-> Unread], 0)
  /\ Enter(f, "limit")
  /\ UNCHANGED <<store, asks, want, elapsed, redis, memory, deleting>>

GetAccessLimit(f) ==
  /\ stage[f] = "limit"
  /\ Hold(f, [got[f] EXCEPT !.limit = limit[ProjectNamed(want[f])]], gotAge[f])
  /\ Enter(f, "record")
  /\ UNCHANGED <<store, asks, want, elapsed, redis, memory, deleting>>

(* A SET of redis that fails is only logged, at the server and at a client. *)
SetRedis(n, f) ==
  \/ Write(n, got[f], gotAge[f])
  \/ "redis" \in CacheFaults /\ UNCHANGED redis

RecordQuota(f) ==
  /\ stage[f] = "record"
  /\ SetRedis(want[f], f)
  /\ Enter(f, "receive")
  /\ UNCHANGED <<store, asks, want, got, gotAge, elapsed, memory, deleting>>

(* The client's SetAccessQuota and SetProjectQuota: its LRU first.  Behind   *)
(* the LRU a project's quota is stored under its empty access key.          *)
Receive(f) ==
  /\ stage[f] = "receive"
  /\ Enter(f, "cache")
  /\ \/ HasLru(f) /\ Add(ClientOf[f], want[f], got[f], gotAge[f])
     \/ ~HasLru(f) /\ UNCHANGED memory
  /\ UNCHANGED <<store, asks, want, got, gotAge, elapsed, redis, deleting>>

BackendName(f) == IF HasLru(f) /\ want[f] \in Projects THEN Nameless ELSE want[f]

CacheQuota(f) ==
  /\ stage[f] = "cache"
  /\ SetRedis(BackendName(f), f)
  /\ Enter(f, "serve")
  /\ UNCHANGED <<store, asks, want, got, gotAge, elapsed, memory, deleting>>

(* The quota is checked and returned: an inactive key is answered like one  *)
(* that does not exist.                                                     *)
Accepted(q) == q.of \in Keys => q.record.active

Serve(f) ==
  /\ stage[f] = "serve"
  /\ Finish(f)
  /\ UNCHANGED <<store, asks, redis, memory, deleting>>

(* Any other error is answered with no quota at all, and no error. *)
FetchFails(f) ==
  /\ \/ "redis" \in CacheFaults /\ stage[f] = "redis"
     \/ "rpc" \in CacheFaults /\ stage[f] \in {"find", "info", "limit", "record", "receive"}
  /\ Finish(f)
  /\ UNCHANGED <<store, asks, redis, memory, deleting>>

-----------------------------------------------------------------------------
(* Deletions, time, and the plans of projects. *)

(* ClearAccessQuotaCache: the project, then the keys it lists as active. *)
ClearAccessQuotaCache(p) ==
  /\ deleting' = deleting \cup (({p} \cup ActiveKeys(p)) \cap Watched)
  /\ UNCHANGED <<store, asks, redis, memory, fetches>>

(* ClearQuotaCacheByProjectID and ClearQuotaCacheByAccessKey, at a client. *)
ClearQuotaCache(c, n) ==
  /\ deleting' = deleting \cup {n}
  /\ memory' = [memory EXCEPT ![c][n] = None]
  /\ UNCHANGED <<store, asks, redis, fetches>>

Del(n) == redis' = [redis EXCEPT ![n] = None]

(* An error of DEL is logged as well. *)
MayDel(n) == Del(n) \/ ("redis" \in CacheFaults /\ UNCHANGED redis)

DeleteQuota(n) ==
  /\ n \in deleting
  /\ deleting' = deleting \ {n}
  /\ MayDel(n)
  /\ UNCHANGED <<store, asks, memory, fetches>>

(* The LRU is full, or its process starts again. *)
Evict(c, n) ==
  /\ memory' = [memory EXCEPT ![c][n] = None]
  /\ UNCHANGED <<store, asks, redis, fetches, deleting>>

(* What is in a quota differs from the store. *)
Stale(q) ==
  \/ q.of \in Keys /\ q.record # keys[q.of]
  \/ q.info \notin {Unread, info[ProjectNamed(q.of)]}
  \/ q.limit \notin {Unread, limit[ProjectNamed(q.of)]}

Older(q, age) == IF Stale(q) THEN age + 1 ELSE 0

Aged(e) ==
  IF e = None \/ e.ttl = 1 THEN None ELSE Entry(e.quota, e.ttl - 1, Older(e.quota, e.age))

NeverExpires(e) ==                                    \* mutant: no TTL by default
  IF e = None THEN None ELSE Entry(e.quota, e.ttl, Older(e.quota, e.age))
MemoryAged(e) == Aged(e)

Busy(f) == stage[f] # "idle"

Tick ==
  /\ \A f \in Fetchers : Busy(f) => elapsed[f] < MaxFetch
  /\ elapsed' = [f \in Fetchers |-> IF Busy(f) THEN elapsed[f] + 1 ELSE 0]
  /\ gotAge' = [f \in Fetchers |-> IF got[f] = None THEN 0 ELSE Older(got[f], gotAge[f])]
  /\ redis' = [n \in Names |-> Aged(redis[n])]
  /\ memory' = [c \in LruClients |-> [n \in Names |-> MemoryAged(memory[c][n])]]
  /\ UNCHANGED <<store, asks, stage, want, got, deleting>>

SetProjectInfo(p, v) ==
  /\ info' = [info EXCEPT ![p] = v]
  /\ UNCHANGED <<limit, asks, redis, memory, fetches, deleting>>

SetAccessLimit(p, v) ==
  /\ limit' = [limit EXCEPT ![p] = v]
  /\ UNCHANGED <<info, asks, redis, memory, fetches, deleting>>

FetchStep(f) ==
  \/ StartFetch(f) \/ GetRedis(f) \/ Keep(f) \/ FindAccessKey(f)
  \/ GetProjectInfo(f) \/ GetAccessLimit(f) \/ RecordQuota(f)
  \/ Receive(f) \/ CacheQuota(f) \/ Serve(f) \/ FetchFails(f)

CacheStep ==
  \/ \E f \in Fetchers : FetchStep(f)
  \/ \E p \in Projects : ClearAccessQuotaCache(p)
  \/ \E c \in LruClients, n \in Watched : ClearQuotaCache(c, n) \/ Evict(c, n)
  \/ \E n \in Watched : DeleteQuota(n)
  \/ Tick

(* What the operations on keys do to the cache, see AccessQuota: a record   *)
(* of the store is replaced, a quota deleted from redis.                    *)
KeyChanged(k) == (\E r \in Record : Put(k, r)) /\ UNCHANGED cacheVars
KeyPurged(k) ==
  Del(k) /\ UNCHANGED <<keys, store, asks, memory, fetches, deleting>>

CacheNext ==
  \/ CacheStep /\ UNCHANGED keys
  \/ \E p \in Projects, v \in Plans :
       (SetProjectInfo(p, v) \/ SetAccessLimit(p, v)) /\ UNCHANGED keys
  \/ \E k \in Keys : KeyChanged(k) \/ KeyPurged(k)

CacheSpec == KeysTypeOK /\ CacheInit /\ [][CacheNext]_<<keys, cacheVars>>

-----------------------------------------------------------------------------
(* Properties. *)

Entered(f) == got[f] # None

(* A quota is stored, held and served under its own name only: what one key *)
(* or project asks for is never another's.  The name "" alone is written by *)
(* every project behind an LRU (cache.go:335), and read by none.            *)
OwnName ==
  /\ \A n \in Names \ {Nameless} : redis[n] # None => redis[n].quota.of = n
  /\ \A c \in LruClients, n \in Names :
       memory[c][n] # None => memory[c][n].quota.of = n
  /\ \A f \in Fetchers : Entered(f) => got[f].of = want[f]

(* Redis never holds a quota that has been wrong for longer than its TTL    *)
(* and the time a fetch takes: the write of a slow fetch may come after the *)
(* deletion an update makes (server.go:548), but no write renews an entry.  *)
RedisFresh ==
  \A n \in Names : redis[n] # None => redis[n].age + redis[n].ttl <= RedisTTL + MaxFetch

(* Behind the LRU the bounds add up: a request is served a quota that has   *)
(* been wrong for less than both TTLs and three fetches, the one that wrote *)
(* it, the one that kept it and its own, whatever fails: a disabled key is  *)
(* accepted no longer than that.                                            *)
MaxAge == RedisTTL + MemoryTTL + 3 * MaxFetch
ServedFresh ==
  /\ \A c \in LruClients, n \in Names :
       memory[c][n] # None => memory[c][n].age + memory[c][n].ttl < MaxAge - MaxFetch
  /\ \A f \in Fetchers : stage[f] = "serve" => gotAge[f] < MaxAge
=============================================================================
