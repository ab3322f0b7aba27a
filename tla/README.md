# Verification of quotacontrol

TLA+ models of the quota control library: how clients spend compute units from
a shared usage counter, how the usage they record reaches the store, how quotas
and permissions are cached, how access keys are managed, how a request passes
the middlewares, and what each of these promises when processes interleave,
crash, and lose calls. TLC
checks the models on small instances, TLAPS proves the main theorems for every
instance. All references to files are relative to `src/`.

## 1. Inventory

| Component | State | Operations | Talks to |
|---|---|---|---|
| Client, spending (`client.go` 177-321) | none of its own | `SpendQuota`, `FetchUsage`, `EnsureUsage` | the usage key in redis, the server's `GetUsage`, the tracker, `NotifyEvent` |
| Usage counter (`cache.go` 183-237) | one redis key per project, service and cycle: absent, `-1` (being populated) or units given out; a TTL | `PeekUsage`, `SetUsage`, `SpendUsage`, `ClearUsage` | redis |
| Limits (`proto/proto.go` 86-147) | four thresholds per service | `Validate`, `GetSpendResult` | pure |
| Usage tracker (`internal/usage/usage.go`) | usage per request time and access key or project; two mutexes | `AddKeyUsage`, `AddProjectUsage`, `GetUpdates`, `SyncUsage` | the server's Sync handlers |
| Client, life cycle (`client.go` 344-396) | `running` 0/1/2, a ticker | `Run`, `Stop` | the tracker |
| Server, usage (`server.go` 88-196, 261-320, 556-614) | the usage store | `GetUsage`, `PrepareUsage`, `ClearUsage`, `GetProjectStatus`, `SyncProjectUsage`, `SyncAccessKeyUsage` | store, redis |
| Server, access keys (`server.go` 338-554) | keys with active and default flags | create, rotate, update, disable, set default | store, quota cache |
| Server, quotas (`server.go` 198-259, 321-336) | the stores of projects, limits and keys | `GetProjectQuota`, `GetAccessQuota`, `ClearAccessQuotaCache` | store, redis |
| Quota cache (`cache.go` 126-181, 277-345, `client.go` 113-174, 323-342) | quotas in redis by name, an LRU per process in front | `FetchKeyQuota`, `FetchProjectQuota`, get, set, delete | redis, server |
| Permission cache (`cache.go` 244-275, `client.go` 224-266) | permissions in redis for ten seconds | `CheckPermission`, `FetchPermission` | redis, server |
| Middleware (`middleware/`) | the request context | `VerifyQuota`, `EnsurePermission`, `SetCost`, `RateLimit`, `EnsureUsage`, `SpendUsage` | client |
| Rate limiter (`middleware_ratelimit.go`, `cache.go` 57-84) | a counter per bucket and window | check and increment | httprate, redis |

What is hard, component by component (PROJECT.json lists each hazard at its
line):

- *Spending*: any number of client processes share one redis key and no lock.
  `PeekUsage` is GET then SETNX; `SpendUsage` is a GET, a comparison and an
  INCRBY; whoever wins the SETNX populates the key from a store that lags behind
  the trackers. It is correct when no unit is billed twice or beyond the hard
  limit, none is left unsold below it, each threshold is notified once, a request
  is refused only at the limit and always ends, and no failure leaves the
  key marked for good.
- *Tracker and life cycle*: requests record usage while a tick's round and the
  round of `Stop` hand it to the server, two calls per request time, either of
  which may fail in part. It is correct when each recorded unit stays in
  exactly one place, `Stop` leaves no round behind, and usage settles in the end.
- *Access keys*: a handler reads, checks and writes in separate store calls, any
  of which may fail or be the last before a crash. They are correct when no failure
  leaves two default keys, an inactive default or a key that is active again, when
  only a rotation may leave a project without an active key, and when a success
  means what the call says.
- *Caches*: a fill that read the store before an update may be written after the
  deletion the update makes, by the server and again by the client; the LRU of a
  process is not reached by deletions elsewhere. They are correct when a name is
  answered with its own quota only, and when everything served has been out of date
  for no longer than a bound.
- *Middleware*: requests run concurrently, pass quota, cost and "spent" through
  the context, and go on without a quota when it cannot be fetched. The chain is
  correct when nobody is served uncharged, billed and refused (but for the request that
  crosses the limit), charged for another project, or let through for a project
  on a permission long gone.

## 2. Modules

| Module | Models | Uses |
|---|---|---|
| `SpendLimits` | `ServiceLimit.Validate`, `getOverThreshold`, `GetSpendResult` as operators | |
| `UsageLedger` | what the trackers and their synchronisation promise: usage is pending, stored or lost | |
| `QuotaBudget` | what a quota promises: units are sold once, within a hard limit, and billed as sold | `UsageLedger` |
| `SpendQuota` | the core: every redis command and RPC of spending on one key | `SpendLimits`, `UsageLedger`; implements `QuotaBudget` |
| `UsageTracker` | one client process: tracker, `Run`, `Stop`, the Sync handlers | implements `UsageLedger` |
| `KeyStore` | the store of access keys: a record per key, replaced as a whole | |
| `KeyRegistry` | what the key operations promise: keys never return, one active default | `KeyStore` |
| `AccessKeys` | the server's handlers on keys, one action per store call | `KeyStore`; implements `KeyRegistry` |
| `QuotaCache` | LRU, redis and the server's reads for quotas, with their ages | `KeyStore` |
| `AccessQuota` | both: the handlers of keys and the fetches of their quotas on one store and one redis | `AccessKeys`, `QuotaCache` |
| `PermissionCache` | `CheckPermission` and its cache | |
| `RequestPipeline` | requests on their way through the middlewares | `PermissionCache`, `SpendLimits` |
| `Sums` | lemmas about sums over a finite set, for the proofs | |
| `SpendLimitsProofs`, `SpendQuotaProofs`, `UsageTrackerProofs`, `QuotaCacheProofs`, `AccessKeysProofs`, `AccessQuotaProofs`, `RequestPipelineProofs` | theorems | |
| `MCSpendQuota`, `MCUsageTracker`, `MCAccessQuota`, `MCRequestPipeline` | constants and symmetry for TLC, and the properties of the findings | |

The composition of spending is in two layers. `SpendQuota` does not know how usage gets
from trackers to the store; it extends `UsageLedger`, whose actions charge,
settle and drop usage. `UsageTracker` shows that the real tracker, with its
mutexes, maps and partial results, keeps that ledger. Above them,
`QuotaBudget` says in a few lines what spending is for.

`AccessQuota` composes the two users of the key store that share redis. A handler's
update and the deletion of the cached quota are separate steps of the composition, and
each of the nine steps of a fetch may fall between, before or after them.
`RequestPipeline` runs on top of the permission cache, step by step; of the quota cache
it takes the outcomes (a quota, an error, or nothing when the fetch fails), since
a quota is fetched once and does not change within a request, and of
`SpendQuota` the two moments that matter to a request: the look at the counter, and the
addition, cut by `SpendLimits`' `UsageOf`.

### SpendQuota and the code

A process is a goroutine that serves one request at a time; `pc` is the command
it is about to issue.

| Action | Code |
|---|---|
| `StartSpend`, `SpendNothing`, `StartFetchUsage` | entry of `SpendQuota` and `FetchUsage`, and the early returns (no quota, no cost, no service limit) |
| `StartGetProjectStatus`, `StartPrepareUsage` | the server's handlers |
| `Peek`, `Claim` | GET and SETNX of the `PeekUsage` in `EnsureUsage` and in `GetProjectStatus` |
| `Retry` | the sleep between two of the three rounds, and `ErrTimeout` |
| `Fetch`, `Fill` | `GetUsage` on the server, then `SetUsage`, unconditional as in the code |
| `Recheck`, `Reclaim` | GET and SETNX of the second `PeekUsage`, the one inside `SpendUsage` |
| `Incr`, `Charge` | INCRBY; then `GetSpendResult`, the tracker, the answer and the event |
| `ExpireKey`, `ClearUsage`, `SyncUsage`, `Crash` | redis TTLs, the operator, the trackers, process death |

A unit has a number: a spend of `v` that takes the counter to `total` was given
the units `total - v + 1 .. total`. `sold` collects the units charged. It is a
history variable, as are `notified` and `lost`; nothing in the model reads them.
`reply` is the answer given in the last step, for properties about answers.

The constant `Faults` selects what the environment does: the counter's TTL ends
(`expire`), populating outlasts the two-second mark (`slow`), an operator clears
the counter (`clear`), the deprecated `PrepareUsage` is called on its own
(`prepare`), processes die (`crash`), RPCs fail (`rpc`), and redis commands fail
(`redis`).

`NewClient` leaves the redis client its default retries (client.go:32-36): a command whose
answer is lost is sent again, up to three times, after its first run and whatever others have
done since. `SendAgain` is such a run: the command has taken effect, the process is still about
to issue it, and `resent` counts. A repeated SETNX finds its own mark; the units of a repeated INCRBY
are nobody's; both belong to `redis`. A repeated SET of `SetUsage` is the fault `refill`: its first run replaces
the mark by a counter that others spend from, its second sets that counter back.

`expire`, `slow`, `clear`, `prepare` and `refill` drop or overwrite a populated counter;
`CounterKept` says that none of them happens. So `CounterKept` is more than a deployment can be
sure of: the retry of the SET is on by default, and section 4 shows that the limit fails with it.

### UsageTracker and the code

`tracked` is the tracker's map by slot, a request time with an access key or
project. `RunCheck`/`RunStart` and `StopCheck`/`StopTicker` split the atomic load
from the atomic store, as `client.go` does. `Lock`, `GetUpdates`, `NextTime`,
`SyncAccessKeyUsage`, `AddBackKeys`, `SyncProjectUsage`, `AddBackProjects`, `Unlock`
are the steps of `SyncUsage`. The actions of the two calls include the server's
handler: any subset of the slots may be stored (`done`), and some of them the handler is told of
(`told`); the rest is reported as
failed when the server is called in process (`Transport = "local"`, the `qc`
argument of `NewClient`), and is not reported over RPC, whose generated client
returns no result with an error. If the store is `Doubtful`, an insert may be done and fail all the
same (server.go:270 and 301 go by the error alone): it is reported as failed, added back, and inserted again in a
later round. `doubled` counts what is in the store once more for that reason. The ledger of `SpendQuota` leaves it
out: `SpendQuota` takes the usage of a cycle to be stored once. A key whose project cannot be told is neither
stored nor reported. Since Go 1.23 (`go.mod`) no tick arrives after the ticker is
stopped.

### AccessKeys and the code

`pc` is the store call a handler is about to make. `Start` is entered by
`CreateAccessKey`, `RotateAccessKey`, `UpdateAccessKey`, `DisableAccessKey` and
`SetDefaultAccessKey`; then

| Action | Code |
|---|---|
| `FindKey` | `FindAccessKey`, and each operation's checks on what it returns |
| `CountActive` | `ListAccessKeys` of the active keys in `DisableAccessKey`, `ErrAtLeastOneKey` |
| `ListActive`, `InsertKey` | `CreateAccessKey`, called alone or at the end of a rotation |
| `WriteKey`, `Purge` | `updateAccessKey`: the store, then the deletion of the cached quota (`PurgeQuota` of `AccessQuota`) |
| `GetDefault` | `GetDefaultAccessKey`, in `SetDefaultAccessKey` and in `DisableAccessKey` |
| `Promote` | the first active key becomes the default, or the panic if there is none |
| `StoreFails`, `Crash` | a store call that fails, done or not; the end of the process |

`copy` is the record a handler holds, `todo` the updates it will write, built from
that copy when the code builds them, `owed` and `second` the two flags a rotation or
a promotion carries past its first update. Random keys are fresh names, display names,
origins and services one value (`Settings`), `Invalid` those whose origins do not
parse.

### QuotaCache and the code

A quota is the record of a key (or none, for a project's), the project's info and its
limit, each as it was read. `StartFetch` looks in the LRU, `GetRedis` in redis, `Keep`
puts a redis hit into the LRU with a full TTL, `FindAccessKey`, `GetProjectInfo` and
`GetAccessLimit` are the server's reads, `RecordQuota` its SET, `Receive` and `CacheQuota` the
client's LRU and its SET, `Serve` the answer. A project's quota has no access key, so behind
an LRU the client's SET goes to the name "" (`Nameless`), which nobody looks up.
`ClearAccessQuotaCache`, `ClearQuotaCache` and `DeleteQuota` are the deletions. The *age* of
an entry or of a quota in hand counts the ticks it has differed from the store
without a break; it is a history variable that nothing in the model reads.

The code has no timeout on a fetch. Without one nothing bounds how late a SET
may come, so `MaxFetch` (and `MaxCheck` for permissions) is an assumption about the
deployment: `Tick` waits for fetches that have used it up.

### RequestPipeline and the code

A deployment is a chain of middlewares, the client's `Enabled`, the permission and
the base cost they are configured with, and the requests it gets. `at` is the
middleware a request has come to, `doing` the place in it where it may be
interrupted: the permission check in `VerifyQuota` (`VerifyRead`) and in
`EnsurePermission`, the access key after the session's project (`VerifyKey`),
and the addition after the look in `SpendUsage`. The redis client may send
that INCRBY again (`SpendAgain`, `repeated`), other requests coming in between. The usage counters are taken to be in place and
kept, in the sense of `CounterKept`: what becomes of them otherwise is `SpendQuota`'s subject. `quota`, `cost` and `spending` are the values of the
context. The second mismatch check of `VerifyQuota` (middleware_quota.go:95) is in
the model; the first one leaves it nothing to refuse.

`PipelineAssumption` says what the model takes for granted about a deployment. Chains are mounted as
in server_test.go (87-91, 369-371, 451-453): `VerifyQuota` first, costs before they are looked at, one
rate limit, `SpendUsage` last (`InOrder`). `EnsureUsage` before another `SetCost` would look for fewer units than
are spent later, so its bound would say nothing. Buckets of projects are not those of users, as their
keys have different prefixes (middleware_ratelimit.go 123-133). A session with a project and a
user is one whose permission the store may be asked for (`KnownSubject`).

## 3. Runs

| Run | Instance | Shows |
|---|---|---|
| `spend_exact` | 3 clients, 4 spends of 1 or 2 units, limit 4 with an event at each unit, no faults | every unit up to the limit is sold and billed once, whatever the race at the limit; each event at most once |
| `spend_safety` | 2 clients, a server, 3 spends, two limits in force, 2 units in the store, crashes, RPC and redis failures, SETNX and INCRBY sent again | the inductive invariant `KeptInv`, no unit sold twice, hard limit, monotone counter, refusals only at the limit, accepted spends charged in full, refinement of `QuotaBudget` |
| `spend_faults` | 1 client, a server, 2 spends of 1 unit, all faults, with fairness | types, the mark always expires; requests end and the mark clears |
| `spend_overshoot` | 1 client, expiry | finding: the hard limit does not hold over an expiry of the counter |
| `spend_refusal_total` | 2 clients | finding: a spend refused by `SpendUsage` reports usage 0 |
| `tracker_rounds` | 2 calls of `Run`, 1 of `Stop`, 2 times, a good and a bad key, a project, 2 units, 1 failing call, in process, a doubtful store | the inductive invariant `TrackerInv`, conservation per slot, `Stop` waits for rounds, refinement of `UsageLedger` |
| `tracker_clean` | 1 `Run`, 1 `Stop`, a good key and a project, 2 units, 2 failures, in process, a doubtful store, with fairness | nothing lost, `Stop` flushes, usage settles |
| `quota_ages` | one handler and 3 calls on 3 keys, a store that fails and crashes; two clients, one with an LRU, 2 projects, TTLs of 2 and 1 ticks, fetches of one tick, failing redis and RPC | keys stay a registry (refinement of `KeyRegistry`), an active key is kept, success means what it says; names are kept apart, ages bounded in redis, in the LRU and at the answer |
| `pipeline_safety` | 2 requests, four chains, every kind of session, three projects with limits of 3 units or none, 3 requests a minute; permissions change; quota, usage, redis, RPC and store fail, INCRBYs are sent again | who is served is charged, who is refused is not billed, each for their own project, permissions are honoured |
| `keys_disable_race` | 2 handlers, nothing failing | finding: two `DisableAccessKey` at once leave no active key |
| `tracker_rpc_loss` | RPC, one failing call | finding: usage of a failed call is not added back |
| `tracker_stop_early` | 2 calls of `Stop` | finding: the second returns while the first still synchronises |

Bounds. `MaxSpends`, `MaxRecorded`, `MaxFailures` and `Resends` are the only counters
capped; `attempt` is bounded by the code. The redis client sends a command again three times at most;
`Resends` is 1 with several processes, as one repetition lets others come in between two runs of a command, and 2 with one
client; the theorems hold for any number. Three clients are enough for a spend
that is cut, one that is refused after it and one still under way; costs 1 and 2
around a limit of 4 make a spend land below, on and across each threshold; two
limits cover a client whose cached limit is stale in either direction. In the
tracker two times make the loop of `SyncUsage` go round, and two units meet both
in one slot and in different ones.

In `quota_ages`, `Scenarios` bounds what happens in one behaviour: three operations
on keys without fetches; one operation while both clients fetch the key
it may be about; a project's quota whose plan changes; the quotas of two projects behind an LRU.
All scenarios run under all faults. `calls` counts the operations left, `Watched` keeps deletions to
names somebody asks for (the others change nothing). Two ticks of TTL let an entry be found
both fresh and about to expire. In `pipeline_safety` the requests of each of the four
deployments are listed in `MCRequestPipeline`: restricted chains, bad keys, keys of another
project, a project without the service, exemptions and clients turned off
occur; with 3 units of which one is used, two requests of 1 and 2 units
cut each other. Requests are symmetric; projects and keys are not, as
constants tell them apart. Time is bounded by TTLs: ages stop where entries expire
and fetches end.

Deadlock is checked in the spending runs, where a request can always start. In
`tracker_rounds` and `tracker_clean` it is not: after `Stop` the loop of
`Run` waits for ever on a ticker that has been stopped. Nor in `quota_ages`,
`keys_disable_race` and `pipeline_safety`, where a behaviour may end: calls are
bounded, a scenario may ask for nothing, and all requests are answered.

Fairness. In `SpendQuota` every goroutine that can take a step does (weak
fairness per process), and a TTL elapses (weak fairness of `ExpireKey`); nothing
makes a request start, a synchronisation happen or a fault occur. In
`UsageTracker` the ticker ticks and goroutines run; taking `syncMutex` is strongly fair, as
Go's mutexes hand over to a waiter that has starved for a millisecond. Nobody has to call
`Run` or `Stop`.

## 4. Findings

1. `spend_overshoot`: README.md:14 says a request over the hard limit fails. The
   counter's TTL is set by `SetUsage` and not renewed by INCRBY; after it, the
   counter is refilled from the store, without what is still in the trackers.
   With the default one hour against a five-minute synchronisation the excess is
   what is spent between the last synchronisation and the expiry.
2. `spend_refusal_total`: server_test.go:174-176 expects a denied request to
   report nothing remaining and the overage. When `SpendUsage` denies it,
   `SpendQuota` (client.go:301-304) drops the total, and the middleware reports the whole
   free quota as remaining.
3. `tracker_rpc_loss`: usage.go:85 and 98 say failed updates are added back. With the
   RPC client a failed call has no results, so its batch is gone.
4. `tracker_stop_early`: usage.go:40 says a `Stop` during a synchronisation
   waits for it. It does, unless it finds another `Stop` in progress.
5. `keys_disable_race`: the service has an error "You need at least one Access Key"
   (quotacontrol.gen.go:2645), which `DisableAccessKey` answers for the last active one. Two calls
   for the last two keys both count two, and both keys end up disabled; the second then promotes
   the first of an empty list (server.go:516).

The limit of README.md:14 fails for another reason too. The SET of `SetUsage` (cache.go:184) is unconditional. A populator
that outlasts its mark (`slow`), or whose SET is sent again by the redis client after its answer was
lost (`refill`), sets the counter back over what others have spent in the meantime, and their units are
sold again. TLC shows it with `SpendOvershoot.cfg` when its `Clients` are `TwoClients` and its `Faults`
`Refilling` or `Slow`: `HardLimit` is violated within 18 steps. `CounterKept` excludes both.

The properties of keys in `quota_ages` are for one handler at a time (`Orderly`).
What the model and the code do outside it, seen while modelling:

- `SetDefaultAccessKey` does not ask whether the key is active (server.go:476). A
  disabled key made default hides the default: `GetDefaultAccessKey` answers
  `ErrNoDefaultKey`, and so does any later `SetDefaultAccessKey`, which could have
  repaired it. It is the fault `disabled` of `AccessKeys`.
- With two handlers, `UpdateAccessKey` writes back the whole record it read: a
  key disabled or rotated meanwhile is active again (server.go:442).
- Disabling a key that is disabled already, in a project without active keys,
  passes the count (it is 0, not 1) and panics at server.go:516.
- A rotation whose insert fails leaves the project without that key (server.go:403); this
  is what `ActiveKeyKept` excepts. `DisableAccessKey` takes any error of `GetDefaultAccessKey` other than
  `ErrNoDefaultKey` for a default (server.go:510), which `SuccessMeans` excepts.
- `ErrMaxAccessKeys` exists, and nothing returns it: any number of keys can be created.

And in the other components:

- The comment at config.go:33 gives the TTL of the cache as one day; cache.go
  falls back to one hour. Permissions are kept for ten seconds whatever the
  configuration says.
- `VerifyQuota` goes on without a quota when it cannot be fetched, before it has checked
  the permission of the session's account; without a quota nothing downstream
  charges. The model has this as the failure `quota`, and `ServedIsCharged` and
  `PermissionHonoured` speak of requests that have one. Over RPC a wrapped error
  arrives as `WebrpcEndpoint` (quotacontrol.gen.go:2188), which is such a failure, even where a client in process,
  which unwraps it, refuses the request.
- `GetAccountUsage` and its siblings called without dates dereference nil: `SetInterval`
  assigns the interval to its own copies of the pointers (proto.go:190).
- With no quota, a project's session counts in its project's bucket but against
  the limit of an account or of the public (middleware_ratelimit.go:72 and 140).
- README.md:14 speaks of HTTP 429; `ErrQuotaExceeded` is answered with 423
  (quotacontrol.gen.go:2641).

## 5. Proofs

`SpendLimitsProofs`: `SpendResultIsCapped`, for every valid limit, cost and total,
`GetSpendResult` charges the part of the spend that lies within `OverMax`; the bounds
and the event lemmas that go with it.

`SpendQuotaProofs`, for any sets of clients and servers, costs, limits and bound:

- `TypeCorrect`: `Spec => []TypeOK`, under all faults.
- `KeptInvCorrect`, `NoUnitIsSoldTwice`, `HardLimitHolds`: under `CounterKept`.
  "Billed usage is within a limit" is not inductive: it needs to know that what is
  billed is the cardinality of `sold`, that `sold` lies in `InitialUsage+1 .. OverMax`
  of some limit, that the units of spends between INCRBY and tracker are disjoint
  from it and from each other, that the counter is ahead of all of them, and that
  only the holder of the mark writes the counter while nobody has spent yet.
  Those are the conjuncts of `KeptInv`; `CounterKept` is the hypothesis
  because the faults it excludes break `HardLimit`: the expiry in finding 1, the SET sent again
  where section 4 says. Crashes, failed calls, and SETNX and INCRBY sent again it allows: `SendAgain`
  moves the counter away from what is sold, never towards it.

  With it, too: `BilledIsAlwaysSold`.
- `AcceptedIsAlwaysCharged` and `MarkAlwaysExpires`, under all faults. The second
  needs that a counter is never below the mark and that a populator brings a natural
  number: else an addition or a fill could yield -1 with the long expiry.
- `RefusedWhenFull`, `CounterOnlyGrows`, under `CounterKept`, from `KeptInv`: `Fill` is
  an unconditional SET, and harmless, if run once, because nobody has spent while a
  populator holds the mark.
- `NothingIsWasted`, under `CounterKept`, with one limit in force and neither crashes nor redis
  failures, each of which does lose a unit between INCRBY and the tracker: the units sold or about to be are
  exactly those between the initial usage and the counter, cut at the limit.
- `EventsAreNotifiedOnce`, under `CounterKept`: the spend that raises an event is
  charged for the unit of its threshold (`EventMeetsThreshold`, `UsageOfBounds`), and
  a unit is charged once.
- `SpendsAreOneBudget`, under `CounterKept`: `SpendQuota` implements `QuotaBudget`; a
  charge maps to `Sell` (or a stutter if nothing is left), `SyncUsage` to `Settle` or
  `Drop`, all else to a stutter.

`UsageTrackerProofs`, for any sets of times, keys, projects and calls of `Run` and
`Stop`, and for either transport:

- `TrackerInvCorrect` and `UsageIsConserved`: for every slot, recorded usage equals
  tracked + stored + lost + what the holder of `syncMutex` has in hand, less what was stored by an insert reported as failed
  (`doubled`, nothing unless the store is doubtful). The invariant
  adds that rounds exclude one another, that a round still knows every time whose
  usage it holds (else `Unlock` would forget some), and that an answer is
  about its own call (else adding back would duplicate).

- `FailedUsageReturns`, in process and with known keys: nothing is lost, whichever calls fail. The invariant
  under it (`NothingDropped`) is that whatever is in hand when a call is answered, and was not stored, is
  reported as failed. Over RPC it is false (finding 3), and a key whose project cannot be told is
  dropped without a report; hence the two hypotheses.
- `StopIsAFlush`, over either transport, with known keys: as long as no call has failed, what was recorded before a
  `Stop` that went ahead is in the store when it returns. `StopInv` follows it: stored, or in the hands of
  the one that has `syncMutex`, which nobody else can be.
- `OneStopWaits`: `Stop` waits for rounds, in a process that calls it once. The hypothesis is finding 4.
- `TrackerKeepsLedger`, for finite sets of times, keys and projects: the tracker implements
  `UsageLedger`, with its sums over all slots as the ledger's amounts. Every step moves usage between at most
  two of the ledger's sides (`MovesOneWay`), which only grow (`OnceOnlyGrows`, `LostOnlyGrows`); the store counts with
  each unit once (`Once`); what is pending
  is what the other sides leave of the usage recorded (`TotalsAddUp`, from `EveryUnitAccounted`).

`QuotaCacheProofs`, for any keys, projects, clients with and without an LRU, TTLs and
failures:

- `CacheInvCorrect`: the inductive invariant. An entry of redis has its own name's
  quota and an age that adds up with the time it has left to at most
  `RedisTTL + MaxFetch`, an entry of an LRU with one more TTL and one more fetch; and a fetch
  holds, stage by stage, what it was asked for, no older than its own time if it comes from the store,
  or by that time more than the entry was if it comes from a cache (`FetchIs`).
- `NamesAreKept`, `RedisIsFresh`, `ServedIsFresh` follow from it.

`AccessKeysProofs`:

- For any number of handlers and any faults, `HandlersInv`: a handler is at a place of the
  operation it was called for, with the record and the updates that place needs, and the
  store changes only by records replaced by records (`HandlerStepKeeps`).
- `KeysKeepRegistry`, `KeysKeepActive`, for one handler (`Orderly`) that starts on a registry in
  order, whatever store calls fail and wherever it crashes. `KeysAsRegistry` alone is not
  inductive: what a handler writes was built from what it read some calls earlier. `SerialInv`
  adds what it may rely on, place by place (`Ready`): the record it read is still in the store;
  the project has no default key while a rotation or a promotion has one to give;
  the next update is one the registry allows in the present store (`Legal`), and
  one that does not take the last active key unless it is a rotation's (`Harmless`); and the
  first update of `SetDefaultAccessKey` makes the second one legal (`CrownsIn`). With two
  handlers the first of these is false, and so is `ActiveKeyKept` (finding 5).
- `SuccessIsTrue`, for one handler on a registry in order: an answer of success is true of the store. To `SerialInv` it adds what a
  handler has done so far (`Done`): from some place on the key of the call is retired, and once the last update
  is written and only the cache is left to purge, the new default is the project's only one.

`AccessQuotaProofs`, of the composition, for any number of fetches:

- `SystemInvCorrect`, `SystemTypesCorrect`, `SystemRefinesCache`: for any number of handlers and any faults,
  the composition implements `CacheSpec`, in which keys' operations are `KeyChanged` (any
  record is replaced by any) and `KeyPurged` (a quota is deleted); so the cache's bounds carry
  over (`SystemServesFresh`).
- `SystemKeepsRegistry`, `SystemKeepsActive`, `SystemSuccessIsTrue`: the results on keys carry over too, for one
  handler.

`RequestPipelineProofs`, first for the permission cache, for any numbers of requests and subjects, any TTL and any
failures:

- `PermInvCorrect`, `PermissionsAreFresh`: a permission acted on has been out of date for
  less than its TTL and one check. "Fresh" is not inductive; what is, is that an entry's
  age and the time it has left add up to at most the bound, and that what a check read
  from the store is no older than the check (`CheckAges`).

then for the middlewares, for any requests, deployments, projects and limits, and any failures:

- `PipelineInvCorrect`, `PipelineTypesCorrect`, and `PipelineUsesPermissions`: they implement `PermSpec`, so
  its bound holds for requests (`RequestsUseFreshPermissions`).
- `ServedAreCharged`, `RefusedAreNotBilled`, `PermissionsAreHonoured`, `CutsAreByOthers` are about the
  end of a request; `PipelineInv` says what is true of it on the way. Per request: where it may be interrupted and
  what it is waiting for there (`Places`); that a quota was put there by `VerifyQuota`, and has a service limit once that
  is past (`Verified`); that nothing is spent before `SpendUsage` and all of it after (`Charged`);
  that the usage `EnsureUsage` saw left room for its cost, which nobody changes any more (`Ensured`: here `InOrder`
  is needed). A request whose INCRBY was sent again can be cut by its own first run, so
  `CutsAreByOthers` excepts it, and what is billed is what the last run counted; and that the permissions of the middlewares behind it are held (`Permitted`).
- `RequestsPayForTheirOwn`, for finitely many requests of which only a project's session
  has a project, as in server_test.go (617-628): a project's counter is its initial usage plus what its own requests
  counted, and its rate limit has moved for them only. The quota of a request is its owner's
  (`Attributed`: this is the key check of `VerifyQuota`), so a step of one request moves one term of the sum and the
  counter by the same amount (`Booked`, `StepBalances`), an INCRBY sent again included.

`Sums`: what one term, or a term by term sum, does to `SumFunction` over a finite set. The induction over finite
sets (`GrowingSubsets`) is about sets, not operators: it comes from the well-foundedness of `<`
by a least counterexample.

Assumptions: only those the modules name (`ConstantsAssumption`,
`InitialUsageAssumption`, `TrackerAssumption`, `KeyStoreAssumption`, `QuotaCacheAssumption`,
`NoneAssumption`, `PermissionAssumption`, `PipelineAssumption`), evaluated by TLC in the runs of the
modules that extend them, and the hypotheses named above.

Only model-checked: liveness (`RequestsReturn`, `MarkClears`, `UsageSettles`), which the prover cannot treat.
Every safety and action property of a passing run is stated by a theorem; `NothingWasted`, `NoUsageLost`,
`StopFlushes`, `StopWaits`, `SuccessMeans`, `OwnProject` and the properties under `CounterKept` or `Orderly` are so
under the hypotheses above, which their runs satisfy or which the findings show to be needed.

## 6. Not modelled

- Two or more handlers on keys: `AccessKeys` takes any number, and `keys_disable_race` runs
  two; the other properties hold for one at a time only (section 4).
- Cycle arithmetic: each cycle has its own counter key, so the models take one
  cycle. Calendar computations are left out.
- Rate limiting: the counting over a sliding window is done by the httprate library, outside this
  repository; `RequestPipeline` has the choice of bucket and limit, and one minute of a
  counter that checks and counts in one step, as it does within a process.
- The wire: JSON and the generated RPC code. An RPC answers, fails before or fails
  after its effect; that an error drops the result is in `UsageTracker`, and the loss of
  an error's identity in the failures of `RequestPipeline`.
- Response headers, the content of origins and services (`Invalid`, `BadKeys`), resource access,
  which travels with a permission.
- Negative costs and overflow of `int64`: costs are positive.
- Redis itself: a command is atomic; on the usage key it may fail, be lost or be repeated, but a
  command delayed until after its caller has gone on is not modelled. In the caches of quotas and
  permissions a SET or DEL runs at most once, at any moment of its call: a repetition within the call writes
  what the call read, as late as its last run.
- Usage queries by date, configuration, tools. Of the mocks, the memory
  store is what the modules take the store to be.

## 7. Plan

1. Done: `SpendLimits`, `UsageLedger`, `QuotaBudget`, `SpendQuota`, `UsageTracker`,
   `KeyStore`, `KeyRegistry`, `AccessKeys`, `QuotaCache`, `AccessQuota`, `PermissionCache`,
   `RequestPipeline`, and the proofs above.
2. Done: `SuccessMeans`, the properties of `RequestPipeline`, `NothingWasted`, the tracker's safety and
   its refinement of the ledger.
3. Left: which weaker registry two handlers keep; `StopWaits` and `StopFlushes` in one statement about what a
   caller of `Stop` may rely on when others call it too.
