-------------------------- MODULE QuotaCacheProofs --------------------------
(***************************************************************************)
(* Whose quota is served, and how old it may be, for any number of keys,    *)
(* projects, requests and clients, with or without an LRU, any two TTLs,    *)
(* any changes of the store, and any failures of redis and the server.      *)
(***************************************************************************)
EXTENDS QuotaCache, TLAPS

(* What an entry of redis and of an LRU may be. *)
RedisEntry(n, e) ==
  /\ e \in Entries /\ e.ttl > 0
  /\ n # Nameless => e.quota.of = n
  /\ e.age + e.ttl <= RedisTTL + MaxFetch

MemoryEntry(n, e) ==
  /\ e \in Entries /\ e.ttl > 0
  /\ e.quota.of = n
  /\ e.age + e.ttl < RedisTTL + MemoryTTL + 2 * MaxFetch

(* What a fetch may be: its stage, name, quota, the quota's age, its own.   *)
(* What it has read from the store is no older than itself, what it has     *)
(* from a cache by as much as the entry was.                                *)
Holding == {"limit", "record", "receive", "cache", "keep", "serve"}
Reading == {"idle", "redis", "find", "info", "limit", "record", "receive", "cache"}
FetchIs(s, n, q, a, t) ==
  /\ s \in {"idle", "redis", "find"} => q = None
  /\ s # "idle" => n \in Keys \cup Projects
  /\ s = "find" => n \in Keys
  /\ t <= MaxFetch
  /\ q # None => q.of = n
  /\ s \in Holding \/ (s = "info" /\ n \in Keys) => q # None
  /\ s \in Reading => a <= t
  /\ s = "keep" => a < RedisTTL + MaxFetch + t
  /\ s = "serve" => a < RedisTTL + MemoryTTL + 2 * MaxFetch + t

RedisKept == \A n \in Names : redis[n] # None => RedisEntry(n, redis[n])
MemoryKept ==
  \A c \in LruClients, n \in Names : memory[c][n] # None => MemoryEntry(n, memory[c][n])
FetchesKept ==
  \A f \in Fetchers : FetchIs(stage[f], want[f], got[f], gotAge[f], elapsed[f])

CacheInv == KeysTypeOK /\ CacheTypeOK /\ RedisKept /\ MemoryKept /\ FetchesKept

LEMMA CacheInvImplies == CacheInv => OwnName /\ RedisFresh /\ ServedFresh
<1> SUFFICES ASSUME CacheInv PROVE OwnName /\ RedisFresh /\ ServedFresh
  OBVIOUS
<1>1. OwnName
  BY DEF CacheInv, OwnName, RedisKept, MemoryKept, FetchesKept, RedisEntry, MemoryEntry,
         FetchIs, Entered
<1>2. RedisFresh
  BY DEF CacheInv, RedisFresh, RedisKept, RedisEntry
<1>3. ServedFresh
<2>1. ASSUME NEW f \in Fetchers, stage[f] = "serve" PROVE gotAge[f] < MaxAge
<3>1. /\ gotAge[f] < RedisTTL + MemoryTTL + 2 * MaxFetch + elapsed[f]
      /\ elapsed[f] <= MaxFetch
  BY <2>1 DEF CacheInv, FetchesKept, FetchIs
<3> QED
  BY <3>1, QuotaCacheAssumption DEF MaxAge, CacheInv, CacheTypeOK
<2>2. MaxAge - MaxFetch = RedisTTL + MemoryTTL + 2 * MaxFetch
  BY QuotaCacheAssumption DEF MaxAge
<2> QED
  BY <2>1, <2>2 DEF CacheInv, ServedFresh, MemoryKept, MemoryEntry
<1> QED
  BY <1>1, <1>2, <1>3

LEMMA InitCache == KeysTypeOK /\ CacheInit => CacheInv
<1> SUFFICES ASSUME KeysTypeOK, CacheInit PROVE CacheInv
  OBVIOUS
<1>1. CacheTypeOK
  BY QuotaCacheAssumption DEF CacheInit, CacheTypeOK, Stages
<1>2. RedisKept /\ MemoryKept
  BY DEF CacheInit, RedisKept, MemoryKept
<1>3. FetchesKept
  BY QuotaCacheAssumption DEF CacheInit, FetchesKept, FetchIs, Holding, Reading
<1> QED
  BY <1>1, <1>2, <1>3 DEF CacheInv

-----------------------------------------------------------------------------
(* The shapes that steps have. *)

FetchTypes ==
  /\ stage \in [Fetchers -> Stages] /\ want \in [Fetchers -> Names \cup {None}]
  /\ got \in [Fetchers -> Quota \cup {None}]
  /\ gotAge \in [Fetchers -> Nat] /\ elapsed \in [Fetchers -> Nat]

(* One fetch moves, the others stay. *)
LEMMA FetchMoves ==
  ASSUME CacheInv, NEW f \in Fetchers,
         NEW s \in Stages, NEW n \in Names \cup {None}, NEW q \in Quota \cup {None},
         NEW a \in Nat, NEW t \in Nat, FetchIs(s, n, q, a, t),
         stage' = [stage EXCEPT ![f] = s], want' = [want EXCEPT ![f] = n],
         got' = [got EXCEPT ![f] = q], gotAge' = [gotAge EXCEPT ![f] = a],
         elapsed' = [elapsed EXCEPT ![f] = t]
  PROVE  FetchTypes' /\ FetchesKept'
<1>1. FetchTypes'
  BY DEF CacheInv, CacheTypeOK, FetchTypes
<1>2. ASSUME NEW g \in Fetchers
      PROVE  FetchIs(stage[g], want[g], got[g], gotAge[g], elapsed[g])'
<2>1. CASE g = f
  BY <2>1 DEF CacheInv, CacheTypeOK, FetchIs
<2>2. CASE g # f
<3>1. /\ stage'[g] = stage[g] /\ want'[g] = want[g] /\ got'[g] = got[g]
      /\ gotAge'[g] = gotAge[g] /\ elapsed'[g] = elapsed[g]
  BY <2>2 DEF CacheInv, CacheTypeOK
<3>2. FetchIs(stage[g], want[g], got[g], gotAge[g], elapsed[g])
  BY DEF CacheInv, FetchesKept
<3> QED
  BY <3>1, <3>2 DEF FetchIs
<2> QED
  BY <2>1, <2>2
<1> QED
  BY <1>1, <1>2 DEF FetchesKept

(* A fetch step that leaves a part of the fetch as it is. *)
LEMMA SameParts ==
  ASSUME CacheInv, NEW f \in Fetchers
  PROVE  /\ UNCHANGED want => want' = [want EXCEPT ![f] = want[f]]
         /\ UNCHANGED got => got' = [got EXCEPT ![f] = got[f]]
         /\ UNCHANGED gotAge => gotAge' = [gotAge EXCEPT ![f] = gotAge[f]]
         /\ UNCHANGED elapsed => elapsed' = [elapsed EXCEPT ![f] = elapsed[f]]
         /\ stage[f] \in Stages /\ want[f] \in Names \cup {None}
         /\ got[f] \in Quota \cup {None} /\ gotAge[f] \in Nat /\ elapsed[f] \in Nat
         /\ FetchIs(stage[f], want[f], got[f], gotAge[f], elapsed[f])
  BY DEF CacheInv, CacheTypeOK, FetchesKept

(* A fetch that only goes on to another stage, or there with another quota. *)
LEMMA StageMoves ==
  ASSUME CacheInv, NEW f \in Fetchers, NEW s \in Stages, Enter(f, s),
         UNCHANGED <<want, got, gotAge, elapsed>>,
         FetchIs(s, want[f], got[f], gotAge[f], elapsed[f])
  PROVE  FetchTypes' /\ FetchesKept'
<1>1. FetchTypes'
  BY DEF CacheInv, CacheTypeOK, FetchTypes, Enter
<1>2. ASSUME NEW g \in Fetchers
      PROVE  FetchIs(stage'[g], want[g], got[g], gotAge[g], elapsed[g])
<2>1. FetchIs(stage[g], want[g], got[g], gotAge[g], elapsed[g])
  BY DEF CacheInv, FetchesKept
<2>2. stage'[g] = IF g = f THEN s ELSE stage[g]
  BY DEF CacheInv, CacheTypeOK, Enter
<2> QED
  BY <2>1, <2>2
<1> QED
  BY <1>1, <1>2 DEF FetchesKept, FetchIs

LEMMA QuotaMoves ==
  ASSUME CacheInv, NEW f \in Fetchers, NEW s \in Stages, NEW q \in Quota, NEW a \in Nat,
         Enter(f, s), Hold(f, q, a), UNCHANGED <<want, elapsed>>,
         FetchIs(s, want[f], q, a, elapsed[f])
  PROVE  FetchTypes' /\ FetchesKept'
<1> DEFINE n == want[f]  t == elapsed[f]
<1>1. /\ stage' = [stage EXCEPT ![f] = s] /\ want' = [want EXCEPT ![f] = n]
      /\ got' = [got EXCEPT ![f] = q] /\ gotAge' = [gotAge EXCEPT ![f] = a]
      /\ elapsed' = [elapsed EXCEPT ![f] = t]
  BY SameParts DEF Enter, Hold
<1>2. n \in Names \cup {None} /\ t \in Nat /\ FetchIs(s, n, q, a, t)
  BY SameParts
<1> HIDE DEF n, t
<1> QED
  BY <1>1, <1>2, FetchMoves

LEMMA FetchesStay ==
  ASSUME CacheInv, UNCHANGED fetches
  PROVE  FetchTypes' /\ FetchesKept'
  BY DEF CacheInv, CacheTypeOK, FetchTypes, FetchesKept, FetchIs, fetches

RedisTypes == redis \in [Names -> Entries \cup {None}]
MemoryTypes == memory \in [LruClients -> [Names -> Entries \cup {None}]]

LEMMA RedisGetsEntry ==
  ASSUME CacheInv, NEW n \in Names, NEW e \in Entries \cup {None},
         e # None => RedisEntry(n, e), redis' = [redis EXCEPT ![n] = e]
  PROVE  RedisTypes' /\ RedisKept'
<1>1. RedisTypes'
  BY DEF CacheInv, CacheTypeOK, RedisTypes
<1>2. \A m \in Names : redis'[m] = IF m = n THEN e ELSE redis[m]
  BY DEF CacheInv, CacheTypeOK
<1> QED
  BY <1>1, <1>2 DEF CacheInv, RedisKept, RedisEntry

LEMMA RedisStays ==
  ASSUME CacheInv, UNCHANGED redis
  PROVE  RedisTypes' /\ RedisKept'
  BY DEF CacheInv, CacheTypeOK, RedisTypes, RedisKept, RedisEntry

LEMMA MemoryGetsEntry ==
  ASSUME CacheInv, NEW c \in LruClients, NEW n \in Names, NEW e \in Entries \cup {None},
         e # None => MemoryEntry(n, e), memory' = [memory EXCEPT ![c][n] = e]
  PROVE  MemoryTypes' /\ MemoryKept'
<1>1. MemoryTypes'
  BY DEF CacheInv, CacheTypeOK, MemoryTypes
<1>2. \A d \in LruClients, m \in Names :
        memory'[d][m] = IF d = c /\ m = n THEN e ELSE memory[d][m]
  BY DEF CacheInv, CacheTypeOK
<1> QED
  BY <1>1, <1>2 DEF CacheInv, MemoryKept, MemoryEntry

LEMMA MemoryStays ==
  ASSUME CacheInv, UNCHANGED memory
  PROVE  MemoryTypes' /\ MemoryKept'
  BY DEF CacheInv, CacheTypeOK, MemoryTypes, MemoryKept, MemoryEntry

LEMMA Assembled ==
  ASSUME KeysTypeOK', info' \in [Projects -> Plans], limit' \in [Projects -> Plans],
         asks' \in Interests, deleting' \subseteq Names,
         RedisTypes', RedisKept', MemoryTypes', MemoryKept', FetchTypes', FetchesKept'
  PROVE  CacheInv'
  BY DEF CacheInv, CacheTypeOK, RedisTypes, MemoryTypes, FetchTypes

LEMMA KeysStay ==
  ASSUME CacheInv, UNCHANGED <<keys, store, asks>>
  PROVE  /\ KeysTypeOK' /\ info' \in [Projects -> Plans] /\ limit' \in [Projects -> Plans]
         /\ asks' \in Interests
  BY DEF CacheInv, KeysTypeOK, CacheTypeOK, store

-----------------------------------------------------------------------------
(* The steps of a fetch. *)

LEMMA NameTypes == Keys \subseteq Names /\ Projects \subseteq Names /\ Nameless \in Names
  BY DEF Names

(* What a fetch holds may be written to redis, under its own name or under  *)
(* the name "", and to the memory of its client.                            *)
LEMMA WhatIsWritten ==
  ASSUME CacheInv, NEW f \in Fetchers, stage[f] \in Holding
  PROVE  /\ got[f] \in Quota /\ want[f] \in Keys \cup Projects
         /\ stage[f] \in Reading =>
              /\ RedisEntry(want[f], Entry(got[f], RedisTTL, gotAge[f]))
              /\ RedisEntry(Nameless, Entry(got[f], RedisTTL, gotAge[f]))
         /\ MemoryEntry(want[f], Entry(got[f], MemoryTTL, gotAge[f])) \/ stage[f] = "serve"
<1> DEFINE e == Entry(got[f], RedisTTL, gotAge[f])
           m == Entry(got[f], MemoryTTL, gotAge[f])
<1>1. /\ got[f] \in Quota /\ got[f].of = want[f] /\ want[f] \in Keys \cup Projects
      /\ gotAge[f] \in Nat /\ elapsed[f] \in Nat /\ elapsed[f] <= MaxFetch
      /\ stage[f] \in Reading => gotAge[f] <= elapsed[f]
      /\ stage[f] = "keep" => gotAge[f] < RedisTTL + MaxFetch + elapsed[f]
  BY SameParts DEF FetchIs, Holding
<1>2. /\ e \in Entries /\ e.ttl = RedisTTL /\ e.age = gotAge[f] /\ e.quota = got[f]
      /\ m \in Entries /\ m.ttl = MemoryTTL /\ m.age = gotAge[f] /\ m.quota = got[f]
  BY <1>1, QuotaCacheAssumption DEF Entry, Entries
<1> HIDE DEF e, m
<1>3. stage[f] \in Reading => RedisEntry(want[f], e) /\ RedisEntry(Nameless, e)
  BY <1>1, <1>2, QuotaCacheAssumption DEF RedisEntry
<1>4. MemoryEntry(want[f], m) \/ stage[f] = "serve"
<2>1. stage[f] \in Reading \/ stage[f] = "keep" \/ stage[f] = "serve"
  BY DEF Holding, Reading
<2>2. stage[f] # "serve" => m.age + m.ttl < RedisTTL + MemoryTTL + 2 * MaxFetch
  BY <1>1, <1>2, <2>1, QuotaCacheAssumption
<2> QED
  BY <1>1, <1>2, <2>2, QuotaCacheAssumption DEF MemoryEntry
<1> QED
  BY <1>1, <1>3, <1>4 DEF e, m

LEMMA SetKeepsRedis ==
  ASSUME CacheInv, NEW f \in Fetchers, stage[f] \in Holding \cap Reading,
         NEW n \in {want[f], Nameless}, SetRedis(n, f)
  PROVE  RedisTypes' /\ RedisKept'
<1> DEFINE e == Entry(got[f], RedisTTL, gotAge[f])
<1>1. RedisEntry(n, e) /\ n \in Names
  BY WhatIsWritten, NameTypes
<1>2. CASE redis' = [redis EXCEPT ![n] = e]
<2>1. e \in Entries
  BY <1>1 DEF RedisEntry
<2> QED
  BY <1>1, <1>2, <2>1, RedisGetsEntry
<1>3. CASE UNCHANGED redis
  BY <1>3, RedisStays
<1> QED
  BY <1>2, <1>3 DEF SetRedis, Write

LEMMA AddKeepsMemory ==
  ASSUME CacheInv, NEW f \in Fetchers, stage[f] \in Holding \ {"serve"},
         \/ HasLru(f) /\ Add(ClientOf[f], want[f], got[f], gotAge[f])
         \/ ~HasLru(f) /\ UNCHANGED memory
  PROVE  MemoryTypes' /\ MemoryKept'
<1> DEFINE e == Entry(got[f], MemoryTTL, gotAge[f])
<1>1. CASE UNCHANGED memory
  BY <1>1, MemoryStays
<1>2. CASE HasLru(f) /\ Add(ClientOf[f], want[f], got[f], gotAge[f])
<2>1. MemoryEntry(want[f], e) /\ want[f] \in Names
  BY WhatIsWritten, NameTypes
<2>2. e \in Entries
  BY <2>1 DEF MemoryEntry
<2>3. memory' = [memory EXCEPT ![ClientOf[f]][want[f]] = e] /\ ClientOf[f] \in LruClients
  BY <1>2 DEF Add, HasLru
<2> HIDE DEF e
<2> QED
  BY <2>1, <2>2, <2>3, MemoryGetsEntry
<1> QED
  BY <1>1, <1>2

(* Begin and Enter leave the age of a fetch; Finish forgets it. *)
LEMMA FinishKeeps ==
  ASSUME CacheInv, NEW f \in Fetchers, Finish(f)
  PROVE  FetchTypes' /\ FetchesKept'
<1>1. FetchIs("idle", None, None, 0, 0) /\ "idle" \in Stages
  BY QuotaCacheAssumption DEF FetchIs, Holding, Reading, Stages
<1> QED
  BY <1>1, FetchMoves DEF Finish, Enter, Hold

(* Steps that change nothing but redis, memories and fetches. *)
LEMMA CachesMove ==
  ASSUME CacheInv, UNCHANGED <<keys, store, asks, deleting>>,
         RedisTypes', RedisKept', MemoryTypes', MemoryKept', FetchTypes', FetchesKept'
  PROVE  CacheInv'
<1>1. deleting' \subseteq Names
  BY DEF CacheInv, CacheTypeOK
<1> QED
  BY <1>1, KeysStay, Assembled

(* Steps that only move one fetch. *)
LEMMA OnlyFetches ==
  ASSUME CacheInv, UNCHANGED <<keys, store, asks, redis, memory, deleting>>,
         FetchTypes', FetchesKept'
  PROVE  CacheInv'
  BY CachesMove, RedisStays, MemoryStays

LEMMA StartKeeps ==
  ASSUME CacheInv, UNCHANGED keys, NEW f \in Fetchers, StartFetch(f)
  PROVE  CacheInv'
<1> USE QuotaCacheAssumption
<1> PICK n \in asks[f] :
      \/ /\ HasLru(f) /\ memory[ClientOf[f]][n] # None
         /\ Begin(f, n, "serve")
         /\ Hold(f, memory[ClientOf[f]][n].quota, memory[ClientOf[f]][n].age)
      \/ Begin(f, n, "redis") /\ UNCHANGED <<got, gotAge>>
  BY DEF StartFetch
<1>1. n \in Keys \cup Projects /\ n \in Names
  BY NameTypes DEF CacheInv, CacheTypeOK
<1>2. /\ stage[f] = "idle" /\ got[f] = None /\ got[f] \in Quota \cup {None}
      /\ gotAge[f] \in Nat /\ elapsed[f] \in Nat /\ gotAge[f] <= elapsed[f]
      /\ elapsed[f] <= MaxFetch
  BY SameParts DEF StartFetch, FetchIs, Reading
<1>3. CASE Begin(f, n, "redis") /\ UNCHANGED <<got, gotAge>>
<2>1. FetchIs("redis", n, got[f], gotAge[f], elapsed[f]) /\ "redis" \in Stages
  BY <1>1, <1>2 DEF FetchIs, Holding, Reading, Stages
<2>2. /\ stage' = [stage EXCEPT ![f] = "redis"] /\ want' = [want EXCEPT ![f] = n]
      /\ got' = [got EXCEPT ![f] = got[f]] /\ gotAge' = [gotAge EXCEPT ![f] = gotAge[f]]
      /\ elapsed' = [elapsed EXCEPT ![f] = elapsed[f]]
  BY <1>3, SameParts DEF Begin, Enter
<2>3. FetchTypes' /\ FetchesKept'
  BY <1>1, <1>2, <2>1, <2>2, FetchMoves
<2> QED
  BY <2>3, OnlyFetches DEF StartFetch
<1>4. CASE /\ HasLru(f) /\ memory[ClientOf[f]][n] # None
           /\ Begin(f, n, "serve")
           /\ Hold(f, memory[ClientOf[f]][n].quota, memory[ClientOf[f]][n].age)
<2> DEFINE e == memory[ClientOf[f]][n]
<2>1. MemoryEntry(n, e)
  BY <1>1, <1>4 DEF HasLru, CacheInv, MemoryKept
<2> HIDE DEF e
<2>2. e.quota \in Quota /\ e.quota.of = n /\ e.age \in Nat /\ e.quota # None
  BY <2>1, NoneAssumption DEF MemoryEntry, Entries
<2>3. FetchIs("serve", n, e.quota, e.age, elapsed[f]) /\ "serve" \in Stages
  BY <1>1, <1>2, <2>1, <2>2 DEF MemoryEntry, Entries, FetchIs, Holding, Reading, Stages
<2>4. /\ stage' = [stage EXCEPT ![f] = "serve"] /\ want' = [want EXCEPT ![f] = n]
      /\ got' = [got EXCEPT ![f] = e.quota] /\ gotAge' = [gotAge EXCEPT ![f] = e.age]
      /\ elapsed' = [elapsed EXCEPT ![f] = elapsed[f]]
  BY <1>4, SameParts DEF Begin, Enter, Hold, e
<2>5. FetchTypes' /\ FetchesKept'
  BY <1>1, <1>2, <2>2, <2>3, <2>4, FetchMoves
<2> QED
  BY <2>5, OnlyFetches DEF StartFetch
<1> QED
  BY <1>3, <1>4

LEMMA GetKeeps ==
  ASSUME CacheInv, UNCHANGED keys, NEW f \in Fetchers, GetRedis(f)
  PROVE  CacheInv'
<1> USE QuotaCacheAssumption
<1> DEFINE e == redis[want[f]]
<1>1. /\ stage[f] = "redis" /\ want[f] \in Keys \cup Projects /\ want[f] \in Names
      /\ got[f] = None
      /\ gotAge[f] \in Nat /\ elapsed[f] \in Nat
      /\ gotAge[f] <= elapsed[f] /\ elapsed[f] <= MaxFetch
  BY SameParts, NameTypes DEF GetRedis, FetchIs, Reading
<1>2. CASE e # None /\ Enter(f, "keep") /\ Hold(f, e.quota, e.age)
<2>1. RedisEntry(want[f], e) /\ want[f] # Nameless
  BY <1>1, <1>2 DEF CacheInv, RedisKept
<2> HIDE DEF e
<2>2. e.quota \in Quota /\ e.quota.of = want[f] /\ e.age \in Nat /\ e.quota # None
  BY <2>1, NoneAssumption DEF RedisEntry, Entries
<2>3. FetchIs("keep", want[f], e.quota, e.age, elapsed[f]) /\ "keep" \in Stages
  BY <1>1, <2>1, <2>2 DEF RedisEntry, Entries, FetchIs, Holding, Reading, Stages
<2>4. /\ stage' = [stage EXCEPT ![f] = "keep"] /\ want' = [want EXCEPT ![f] = want[f]]
      /\ got' = [got EXCEPT ![f] = e.quota] /\ gotAge' = [gotAge EXCEPT ![f] = e.age]
      /\ elapsed' = [elapsed EXCEPT ![f] = elapsed[f]]
  BY <1>2, SameParts DEF GetRedis, Enter, Hold, e
<2>5. FetchTypes' /\ FetchesKept'
  BY <1>1, <2>2, <2>3, <2>4, FetchMoves
<2> QED
  BY <2>5, OnlyFetches DEF GetRedis
<1>3. ASSUME NEW s \in {"find", "info"}, s = "find" <=> want[f] \in Keys,
             Enter(f, s), UNCHANGED <<got, gotAge>>
      PROVE  CacheInv'
<2>1. /\ s \in Reading /\ s \notin Holding /\ s \notin {"idle", "keep", "serve"}
      /\ s \in Stages
  BY <1>3 DEF Holding, Reading, Stages
<2>2. FetchIs(s, want[f], got[f], gotAge[f], elapsed[f])
<3>1. ~(s = "info" /\ want[f] \in Keys)
  BY <1>3
<3> QED
  BY <1>1, <1>3, <2>1, <3>1 DEF FetchIs
<2>3. FetchTypes' /\ FetchesKept'
  BY <1>3, <2>1, <2>2, StageMoves DEF GetRedis
<2> QED
  BY <2>3, OnlyFetches DEF GetRedis
<1>4. \/ e # None /\ Enter(f, "keep") /\ Hold(f, e.quota, e.age)
      \/ /\ Enter(f, IF want[f] \in Keys THEN "find" ELSE "info")
         /\ UNCHANGED <<got, gotAge>>
  BY DEF GetRedis, LookupName
<1> HIDE DEF e
<1>5. CASE want[f] \in Keys
  BY <1>2, <1>3, <1>4, <1>5
<1>6. CASE want[f] \notin Keys
  BY <1>2, <1>3, <1>4, <1>6
<1> QED
  BY <1>5, <1>6

LEMMA KeepKeeps ==
  ASSUME CacheInv, UNCHANGED keys, NEW f \in Fetchers, Keep(f)
  PROVE  CacheInv'
<1>1. stage[f] = "keep" /\ stage[f] \in Holding \ {"serve"}
  BY DEF Keep, Holding
<1>2. MemoryTypes' /\ MemoryKept'
  BY <1>1, AddKeepsMemory DEF Keep
<1>3. FetchIs("serve", want[f], got[f], gotAge[f], elapsed[f]) /\ "serve" \in Stages
  BY <1>1, SameParts, QuotaCacheAssumption DEF FetchIs, Holding, Reading, Stages
<1>4. FetchTypes' /\ FetchesKept'
  BY <1>3, StageMoves DEF Keep
<1> QED
  BY <1>2, <1>4, CachesMove, RedisStays DEF Keep

LEMMA FindKeeps ==
  ASSUME CacheInv, UNCHANGED keys, NEW f \in Fetchers, FindAccessKey(f)
  PROVE  CacheInv'
<1> DEFINE q == [of |-> want[f], record |-> keys[want[f]], info |-> Unread, limit |-> Unread]
<1>1. CASE Finish(f)
  BY <1>1, FinishKeeps, OnlyFetches DEF FindAccessKey
<1>2. CASE Enter(f, "info") /\ Hold(f, q, 0) /\ UNCHANGED <<want, elapsed>>
<2>1. /\ stage[f] = "find" /\ want[f] \in Keys /\ want[f] \in Names
      /\ elapsed[f] \in Nat /\ elapsed[f] <= MaxFetch
  BY SameParts, NameTypes DEF FindAccessKey, FetchIs
<2>2. keys[want[f]] \in Record \cup {Missing}
  BY <2>1 DEF CacheInv, KeysTypeOK
<2>3. q \in Quota /\ q.of = want[f]
  BY <2>1, <2>2 DEF Quota
<2> HIDE DEF q
<2>4. FetchIs("info", want[f], q, 0, elapsed[f]) /\ "info" \in Stages
  BY <2>1, <2>3, NoneAssumption DEF FetchIs, Holding, Reading, Stages
<2>5. FetchTypes' /\ FetchesKept'
  BY <1>2, <2>3, <2>4, QuotaMoves
<2> QED
  BY <2>5, OnlyFetches DEF FindAccessKey
<1> QED
  BY <1>1, <1>2 DEF FindAccessKey

LEMMA InfoKeeps ==
  ASSUME CacheInv, UNCHANGED keys, NEW f \in Fetchers, GetProjectInfo(f)
  PROVE  CacheInv'
<1> USE QuotaCacheAssumption
<1> DEFINE n == want[f]
           read == info[ProjectNamed(n)]
<1>1. /\ n \in Keys \cup Projects /\ n \in Names
      /\ got[f] \in Quota \cup {None} /\ gotAge[f] \in Nat
      /\ elapsed[f] \in Nat /\ elapsed[f] <= MaxFetch /\ gotAge[f] <= elapsed[f]
  BY SameParts, NameTypes DEF GetProjectInfo, FetchIs, Reading
<1>2. read \in Plans
<2>1. ProjectNamed(n) \in Projects
  BY <1>1, KeyStoreAssumption DEF ProjectNamed
<2> QED
  BY <2>1 DEF CacheInv, CacheTypeOK
<1>3. ASSUME NEW q \in Quota, NEW a \in Nat, q.of = n, a <= elapsed[f], Hold(f, q, a)
      PROVE  CacheInv'
<2>1. FetchIs("limit", n, q, a, elapsed[f]) /\ "limit" \in Stages
  BY <1>1, <1>3, NoneAssumption DEF FetchIs, Holding, Reading, Stages
<2>2. FetchTypes' /\ FetchesKept'
  BY <1>3, <2>1, QuotaMoves DEF GetProjectInfo
<2> QED
  BY <2>2, OnlyFetches DEF GetProjectInfo
<1>4. CASE n \in Keys /\ Hold(f, [got[f] EXCEPT !.info = read], gotAge[f])
<2>1. got[f] \in Quota /\ got[f].of = n
  BY <1>4, SameParts DEF GetProjectInfo, FetchIs
<2>2. [got[f] EXCEPT !.info = read] \in Quota /\ [got[f] EXCEPT !.info = read].of = n
  BY <1>2, <2>1 DEF Quota
<2> QED
  BY <1>1, <1>3, <1>4, <2>2
<1>5. CASE /\ n \in Projects
           /\ Hold(f, [of |-> n, record |-> Missing, info |-> read, limit |-> Unread], 0)
<2>1. [of |-> n, record |-> Missing, info |-> read, limit |-> Unread] \in Quota
  BY <1>1, <1>2 DEF Quota
<2> QED
  BY <1>1, <1>3, <1>5, <2>1
<1> QED
  BY <1>4, <1>5 DEF GetProjectInfo

LEMMA LimitKeeps ==
  ASSUME CacheInv, UNCHANGED keys, NEW f \in Fetchers, GetAccessLimit(f)
  PROVE  CacheInv'
<1> USE QuotaCacheAssumption
<1> DEFINE q == [got[f] EXCEPT !.limit = limit[ProjectNamed(want[f])]]
<1>1. /\ want[f] \in Keys \cup Projects
      /\ got[f] \in Quota /\ got[f].of = want[f] /\ gotAge[f] \in Nat
      /\ elapsed[f] \in Nat /\ elapsed[f] <= MaxFetch /\ gotAge[f] <= elapsed[f]
  BY SameParts DEF GetAccessLimit, FetchIs, Reading, Holding
<1>2. limit[ProjectNamed(want[f])] \in Plans
<2>1. ProjectNamed(want[f]) \in Projects
  BY <1>1, KeyStoreAssumption DEF ProjectNamed
<2> QED
  BY <2>1 DEF CacheInv, CacheTypeOK
<1>3. q \in Quota /\ q.of = want[f]
  BY <1>1, <1>2 DEF Quota
<1>4. Hold(f, q, gotAge[f])
  BY DEF GetAccessLimit
<1> HIDE DEF q
<1>5. FetchIs("record", want[f], q, gotAge[f], elapsed[f]) /\ "record" \in Stages
  BY <1>1, <1>3, NoneAssumption DEF FetchIs, Holding, Reading, Stages
<1>6. FetchTypes' /\ FetchesKept'
  BY <1>1, <1>3, <1>4, <1>5, QuotaMoves DEF GetAccessLimit
<1> QED
  BY <1>6, OnlyFetches DEF GetAccessLimit

LEMMA RecordKeeps ==
  ASSUME CacheInv, UNCHANGED keys, NEW f \in Fetchers, RecordQuota(f)
  PROVE  CacheInv'
<1>1. stage[f] = "record" /\ stage[f] \in Holding \cap Reading
  BY DEF RecordQuota, Holding, Reading
<1>2. RedisTypes' /\ RedisKept'
  BY <1>1, SetKeepsRedis DEF RecordQuota
<1>3. FetchIs("receive", want[f], got[f], gotAge[f], elapsed[f]) /\ "receive" \in Stages
  BY <1>1, SameParts DEF FetchIs, Holding, Reading, Stages
<1>4. FetchTypes' /\ FetchesKept'
  BY <1>3, StageMoves DEF RecordQuota
<1> QED
  BY <1>2, <1>4, CachesMove, MemoryStays DEF RecordQuota

LEMMA ReceiveKeeps ==
  ASSUME CacheInv, UNCHANGED keys, NEW f \in Fetchers, Receive(f)
  PROVE  CacheInv'
<1>1. stage[f] = "receive" /\ stage[f] \in Holding \ {"serve"}
  BY DEF Receive, Holding
<1>2. MemoryTypes' /\ MemoryKept'
  BY <1>1, AddKeepsMemory DEF Receive
<1>3. FetchIs("cache", want[f], got[f], gotAge[f], elapsed[f]) /\ "cache" \in Stages
  BY <1>1, SameParts DEF FetchIs, Holding, Reading, Stages
<1>4. FetchTypes' /\ FetchesKept'
  BY <1>3, StageMoves DEF Receive
<1> QED
  BY <1>2, <1>4, CachesMove, RedisStays DEF Receive

LEMMA CacheKeeps ==
  ASSUME CacheInv, UNCHANGED keys, NEW f \in Fetchers, CacheQuota(f)
  PROVE  CacheInv'
<1>1. stage[f] = "cache" /\ stage[f] \in Holding \cap Reading
  BY DEF CacheQuota, Holding, Reading
<1>2. BackendName(f) \in {want[f], Nameless}
  BY DEF BackendName
<1>3. RedisTypes' /\ RedisKept'
  BY <1>1, <1>2, SetKeepsRedis DEF CacheQuota
<1>4. FetchIs("serve", want[f], got[f], gotAge[f], elapsed[f]) /\ "serve" \in Stages
<2>1. /\ gotAge[f] \in Nat /\ elapsed[f] \in Nat /\ gotAge[f] <= elapsed[f]
  BY <1>1, SameParts DEF FetchIs, Reading
<2>2. gotAge[f] < RedisTTL + MemoryTTL + 2 * MaxFetch + elapsed[f]
  BY <2>1, QuotaCacheAssumption
<2> QED
  BY <1>1, <2>2, SameParts DEF FetchIs, Holding, Reading, Stages
<1>5. FetchTypes' /\ FetchesKept'
  BY <1>4, StageMoves DEF CacheQuota
<1> QED
  BY <1>3, <1>5, CachesMove, MemoryStays DEF CacheQuota

LEMMA FetchStepKeeps ==
  ASSUME CacheInv, UNCHANGED keys, NEW f \in Fetchers, FetchStep(f)
  PROVE  CacheInv'
<1>1. CASE Serve(f) \/ FetchFails(f)
  BY <1>1, FinishKeeps, OnlyFetches DEF Serve, FetchFails
<1> QED
  BY <1>1, StartKeeps, GetKeeps, KeepKeeps, FindKeeps, InfoKeeps, LimitKeeps, RecordKeeps,
     ReceiveKeeps, CacheKeeps DEF FetchStep

-----------------------------------------------------------------------------
(* Deletions, time and changes of the store. *)

LEMMA WatchedNames == CacheInv => Watched \subseteq Names
<1> SUFFICES ASSUME CacheInv, NEW f \in Fetchers PROVE asks[f] \subseteq Names
  BY DEF Watched
<1> QED
  BY QuotaCacheAssumption DEF CacheInv, CacheTypeOK, Names

LEMMA RedisLosesEntry ==
  ASSUME CacheInv, NEW n \in Names, Del(n) \/ UNCHANGED redis
  PROVE  RedisTypes' /\ RedisKept'
  BY RedisGetsEntry, RedisStays DEF Del

LEMMA MemoryLosesEntry ==
  ASSUME CacheInv, NEW c \in LruClients, NEW n \in Names,
         memory' = [memory EXCEPT ![c][n] = None]
  PROVE  MemoryTypes' /\ MemoryKept'
  BY MemoryGetsEntry

LEMMA DeletionsKeep ==
  ASSUME CacheInv, UNCHANGED keys,
         \/ \E p \in Projects : ClearAccessQuotaCache(p)
         \/ \E c \in LruClients, n \in Watched : ClearQuotaCache(c, n) \/ Evict(c, n)
         \/ \E n \in Watched : DeleteQuota(n)
  PROVE  CacheInv'
<1>0. Watched \subseteq Names /\ deleting \subseteq Names
  BY WatchedNames DEF CacheInv, CacheTypeOK
<1>1. ASSUME NEW p \in Projects, ClearAccessQuotaCache(p) PROVE CacheInv'
<2>1. deleting' \subseteq Names
  BY <1>0, <1>1 DEF ClearAccessQuotaCache
<2> QED
  BY <1>1, <2>1, KeysStay, RedisStays, MemoryStays, FetchesStay, Assembled
     DEF ClearAccessQuotaCache
<1>2. ASSUME NEW c \in LruClients, NEW n \in Watched, ClearQuotaCache(c, n) \/ Evict(c, n)
      PROVE  CacheInv'
<2>1. deleting' \subseteq Names
  BY <1>0, <1>2 DEF ClearQuotaCache, Evict
<2>2. MemoryTypes' /\ MemoryKept'
  BY <1>0, <1>2, MemoryLosesEntry DEF ClearQuotaCache, Evict
<2> QED
  BY <1>2, <2>1, <2>2, KeysStay, RedisStays, FetchesStay, Assembled
     DEF ClearQuotaCache, Evict
<1>3. ASSUME NEW n \in Watched, DeleteQuota(n) PROVE CacheInv'
<2>1. deleting' \subseteq Names
  BY <1>0, <1>3 DEF DeleteQuota
<2>2. RedisTypes' /\ RedisKept'
  BY <1>0, <1>3, RedisLosesEntry DEF DeleteQuota, MayDel
<2> QED
  BY <1>3, <2>1, <2>2, KeysStay, MemoryStays, FetchesStay, Assembled DEF DeleteQuota
<1> QED
  BY <1>1, <1>2, <1>3

(* A tick takes one from the time an entry has left and adds at most one to *)
(* its age.                                                                 *)
LEMMA OlderByOne ==
  ASSUME NEW q, NEW a \in Nat
  PROVE  Older(q, a) \in Nat /\ Older(q, a) <= a + 1
  BY DEF Older

LEMMA AgedEntry ==
  ASSUME NEW e \in Entries, e.ttl > 0, Aged(e) # None
  PROVE  /\ Aged(e) \in Entries /\ Aged(e).quota = e.quota /\ Aged(e).ttl > 0
         /\ Aged(e).age + Aged(e).ttl <= e.age + e.ttl
<1> DEFINE a == Older(e.quota, e.age)
<1>1. e.quota \in Quota /\ e.ttl \in Nat /\ e.age \in Nat
  BY DEF Entries
<1>2. a \in Nat /\ a <= e.age + 1
  BY <1>1, OlderByOne
<1>3. e.ttl # 1 /\ Aged(e) = Entry(e.quota, e.ttl - 1, a)
  BY DEF Aged
<1> HIDE DEF a
<1>4. /\ Aged(e) = [quota |-> e.quota, ttl |-> e.ttl - 1, age |-> a]
      /\ e.ttl - 1 \in Nat /\ e.ttl - 1 > 0
  BY <1>1, <1>3 DEF Entry
<1>5. Aged(e).quota = e.quota /\ Aged(e).ttl = e.ttl - 1 /\ Aged(e).age = a
  BY <1>4
<1>6. Aged(e) \in Entries
  BY <1>1, <1>2, <1>4 DEF Entries
<1> QED
  BY <1>1, <1>2, <1>4, <1>5, <1>6

LEMMA AgedIsEntry ==
  ASSUME NEW e \in Entries \cup {None}, e # None => e.ttl > 0
  PROVE  Aged(e) \in Entries \cup {None}
<1>1. CASE e = None
  BY <1>1 DEF Aged
<1>2. CASE e # None
  BY <1>2, AgedEntry
<1> QED
  BY <1>1, <1>2

LEMMA TickKeeps ==
  ASSUME CacheInv, UNCHANGED keys, Tick
  PROVE  CacheInv'
<1> USE QuotaCacheAssumption
<1>1. RedisTypes' /\ RedisKept'
<2>1. ASSUME NEW n \in Names
      PROVE  /\ redis'[n] \in Entries \cup {None}
             /\ redis'[n] # None => RedisEntry(n, redis'[n])
<3> DEFINE e == redis[n]
<3>1. e \in Entries \cup {None} /\ (e # None => RedisEntry(n, e)) /\ redis'[n] = Aged(e)
  BY DEF CacheInv, CacheTypeOK, RedisKept, Tick
<3> HIDE DEF e
<3>2. CASE e = None
  BY <3>1, <3>2 DEF Aged
<3>3. CASE e # None /\ Aged(e) # None
<4>1. /\ Aged(e) \in Entries /\ Aged(e).quota = e.quota /\ Aged(e).ttl > 0
      /\ Aged(e).age + Aged(e).ttl <= e.age + e.ttl
  BY <3>1, <3>3, AgedEntry DEF RedisEntry
<4>2. Aged(e).age \in Nat /\ Aged(e).ttl \in Nat /\ e.age \in Nat /\ e.ttl \in Nat
  BY <3>1, <3>3, <4>1 DEF RedisEntry, Entries
<4>3. Aged(e).age + Aged(e).ttl <= RedisTTL + MaxFetch
  BY <3>1, <3>3, <4>1, <4>2 DEF RedisEntry
<4> QED
  BY <3>1, <3>3, <4>1, <4>3 DEF RedisEntry
<3> QED
  BY <3>1, <3>2, <3>3
<2>2. redis' = [n \in Names |-> redis'[n]]
  BY DEF Tick
<2> QED
  BY <2>1, <2>2 DEF RedisTypes, RedisKept, RedisEntry
<1>2. MemoryTypes' /\ MemoryKept'
<2>1. ASSUME NEW c \in LruClients, NEW n \in Names
      PROVE  /\ memory'[c][n] \in Entries \cup {None}
             /\ memory'[c][n] # None => MemoryEntry(n, memory'[c][n])
<3> DEFINE e == memory[c][n]
<3>1. /\ e \in Entries \cup {None} /\ (e # None => MemoryEntry(n, e))
      /\ memory'[c][n] = Aged(e)
  BY DEF CacheInv, CacheTypeOK, MemoryKept, Tick, MemoryAged
<3> HIDE DEF e
<3>2. CASE e = None
  BY <3>1, <3>2 DEF Aged
<3>3. CASE e # None /\ Aged(e) # None
<4>1. /\ Aged(e) \in Entries /\ Aged(e).quota = e.quota /\ Aged(e).ttl > 0
      /\ Aged(e).age + Aged(e).ttl <= e.age + e.ttl
  BY <3>1, <3>3, AgedEntry DEF MemoryEntry
<4>2. Aged(e).age \in Nat /\ Aged(e).ttl \in Nat /\ e.age \in Nat /\ e.ttl \in Nat
  BY <3>1, <3>3, <4>1 DEF MemoryEntry, Entries
<4>3. Aged(e).age + Aged(e).ttl < RedisTTL + MemoryTTL + 2 * MaxFetch
  BY <3>1, <3>3, <4>1, <4>2 DEF MemoryEntry
<4> QED
  BY <3>1, <3>3, <4>1, <4>3 DEF MemoryEntry
<3> QED
  BY <3>1, <3>2, <3>3
<2>2. memory' = [c \in LruClients |-> [n \in Names |-> memory'[c][n]]]
  BY DEF Tick
<2> QED
  BY <2>1, <2>2 DEF MemoryTypes, MemoryKept, MemoryEntry
<1>3. FetchTypes' /\ FetchesKept'
<2>1. ASSUME NEW f \in Fetchers
      PROVE  /\ gotAge'[f] \in Nat /\ elapsed'[f] \in Nat
             /\ FetchIs(stage[f], want[f], got[f], gotAge'[f], elapsed'[f])
<3>1. /\ stage[f] \in Stages /\ got[f] \in Quota \cup {None}
      /\ gotAge[f] \in Nat /\ elapsed[f] \in Nat
      /\ FetchIs(stage[f], want[f], got[f], gotAge[f], elapsed[f])
  BY SameParts
<3>2. /\ elapsed'[f] = IF stage[f] # "idle" THEN elapsed[f] + 1 ELSE 0
      /\ stage[f] # "idle" => elapsed[f] < MaxFetch
      /\ gotAge'[f] = IF got[f] = None THEN 0 ELSE Older(got[f], gotAge[f])
  BY DEF Tick, Busy
<3>3. gotAge'[f] \in Nat /\ gotAge'[f] <= gotAge[f] + 1
  BY <3>1, <3>2, OlderByOne
<3>4. /\ elapsed'[f] \in Nat /\ elapsed'[f] <= MaxFetch
      /\ stage[f] # "idle" => elapsed'[f] = elapsed[f] + 1
      /\ stage[f] = "idle" => gotAge'[f] = 0
  BY <3>1, <3>2 DEF FetchIs
<3>5. stage[f] \in Reading => gotAge'[f] <= elapsed'[f]
  BY <3>1, <3>3, <3>4 DEF FetchIs
<3>6. stage[f] = "keep" => gotAge'[f] < RedisTTL + MaxFetch + elapsed'[f]
  BY <3>1, <3>3, <3>4 DEF FetchIs
<3>7. stage[f] = "serve" => gotAge'[f] < RedisTTL + MemoryTTL + 2 * MaxFetch + elapsed'[f]
  BY <3>1, <3>3, <3>4 DEF FetchIs
<3> QED
  BY <3>1, <3>3, <3>4, <3>5, <3>6, <3>7 DEF FetchIs
<2>2. gotAge' \in [Fetchers -> Nat] /\ elapsed' \in [Fetchers -> Nat]
<3>1. gotAge' = [f \in Fetchers |-> gotAge'[f]] /\ elapsed' = [f \in Fetchers |-> elapsed'[f]]
  BY DEF Tick
<3> QED
  BY <2>1, <3>1
<2>3. FetchTypes'
  BY <2>2 DEF Tick, CacheInv, CacheTypeOK, FetchTypes
<2> QED
  BY <2>1, <2>3 DEF FetchesKept, FetchIs, Tick
<1> QED
  BY <1>1, <1>2, <1>3, CachesMove DEF Tick, store

LEMMA PlansKeep ==
  ASSUME CacheInv, UNCHANGED keys, NEW p \in Projects, NEW v \in Plans,
         SetProjectInfo(p, v) \/ SetAccessLimit(p, v)
  PROVE  CacheInv'
<1>1. /\ KeysTypeOK' /\ info' \in [Projects -> Plans] /\ limit' \in [Projects -> Plans]
      /\ asks' \in Interests /\ deleting' \subseteq Names
  BY DEF SetProjectInfo, SetAccessLimit, CacheInv, KeysTypeOK, CacheTypeOK
<1> QED
  BY <1>1, RedisStays, MemoryStays, FetchesStay, Assembled DEF SetProjectInfo, SetAccessLimit

LEMMA KeysKeep ==
  ASSUME CacheInv, NEW k \in Keys, KeyChanged(k) \/ KeyPurged(k)
  PROVE  CacheInv'
<1>1. CASE KeyPurged(k)
<2>1. RedisTypes' /\ RedisKept'
  BY <1>1, RedisLosesEntry, NameTypes DEF KeyPurged
<2> QED
  BY <1>1, <2>1, CachesMove, MemoryStays, FetchesStay DEF KeyPurged
<1>2. CASE KeyChanged(k)
<2>1. KeysTypeOK'
  BY <1>2 DEF KeyChanged, Put, CacheInv, KeysTypeOK
<2>2. /\ info' \in [Projects -> Plans] /\ limit' \in [Projects -> Plans]
      /\ asks' \in Interests /\ deleting' \subseteq Names
  BY <1>2 DEF KeyChanged, cacheVars, CacheInv, CacheTypeOK
<2> QED
  BY <1>2, <2>1, <2>2, RedisStays, MemoryStays, FetchesStay, Assembled
     DEF KeyChanged, cacheVars
<1> QED
  BY <1>1, <1>2

LEMMA NextKeepsCache ==
  ASSUME CacheInv, [CacheNext]_<<keys, cacheVars>> PROVE CacheInv'
<1>1. CASE CacheStep /\ UNCHANGED keys
  BY <1>1, FetchStepKeeps, DeletionsKeep, TickKeeps DEF CacheStep
<1>2. CASE UNCHANGED <<keys, cacheVars>>
<2>1. UNCHANGED <<keys, store, asks, redis, memory, deleting>> /\ UNCHANGED fetches
  BY <1>2 DEF cacheVars, store
<2> QED
  BY <2>1, FetchesStay, OnlyFetches
<1> QED
  BY <1>1, <1>2, PlansKeep, KeysKeep DEF CacheNext

-----------------------------------------------------------------------------

(* The inductive invariant of the cache: every entry and every fetch is     *)
(* bounded in age by the time it has left or has taken.                     *)
THEOREM CacheInvCorrect == CacheSpec => []CacheInv
<1>1. KeysTypeOK /\ CacheInit => CacheInv
  BY InitCache
<1>2. CacheInv /\ [CacheNext]_<<keys, cacheVars>> => CacheInv'
  BY NextKeepsCache
<1> QED
  BY <1>1, <1>2, PTL DEF CacheSpec

(* No request is served, and no cache keeps, another name's quota           *)
(* (cache.go:297, client.go:119).                                           *)
THEOREM NamesAreKept == CacheSpec => []OwnName
  BY CacheInvCorrect, CacheInvImplies, PTL

(* The staleness of redis is bounded by its TTL and one fetch, however      *)
(* deletions and late writes are ordered (server.go:548).                   *)
THEOREM RedisIsFresh == CacheSpec => []RedisFresh
  BY CacheInvCorrect, CacheInvImplies, PTL

(* What is served, from the LRU, redis or the server, has been wrong for    *)
(* less than both TTLs and three fetches (cache.go:308).                    *)
THEOREM ServedIsFresh == CacheSpec => []ServedFresh
  BY CacheInvCorrect, CacheInvImplies, PTL
=============================================================================
