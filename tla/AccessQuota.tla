---------------------------- MODULE AccessQuota ----------------------------
(***************************************************************************)
(* The operations on access keys together with the cache of their quotas:   *)
(* they share the store of keys and redis.  A handler that has updated a    *)
(* key deletes its quota from redis, in a step of its own between which and *)
(* the update, before and after, clients fetch that quota.                  *)
(***************************************************************************)
EXTENDS AccessKeys, QuotaCache

CONSTANT Scenarios  \* bound: what the behaviours of an instance exercise:
                    \* the names asked for, the calls on keys, and what
                    \* the plans of the projects may become

ASSUME ScenariosAssumption ==
  Scenarios \subseteq [asks : Interests, calls : 0..MaxCalls, plans : SUBSET Plans]

systemVars == <<keyVars, cacheVars>>

SystemTypeOK == KeysTypeOK /\ HandlersTypeOK /\ CacheTypeOK

SystemInit ==
  /\ Init /\ CacheInit
  /\ \E s \in Scenarios : asks = s.asks /\ calls = s.calls

(* The second half of updateAccessKey. *)
PurgeQuota(h) ==
  /\ Purge(h)
  /\ MayDel(Head(todo[h]).key)
  /\ UNCHANGED <<store, asks, memory, fetches, deleting>>

PlanChanges ==
  \E s \in Scenarios :
    /\ s.asks = asks
    /\ \E n \in Watched, v \in s.plans :
         SetProjectInfo(ProjectNamed(n), v) \/ SetAccessLimit(ProjectNamed(n), v)

SystemNext ==
  \/ \E h \in Handlers : HandlerStep(h) /\ UNCHANGED cacheVars
  \/ \E h \in Handlers : PurgeQuota(h)
  \/ (CacheStep \/ PlanChanges) /\ reply' = NoReply
                               /\ UNCHANGED <<keys, pc, call, local, calls>>

SystemSpec == SystemInit /\ [][SystemNext]_systemVars
=============================================================================
