------------------------- MODULE AccessQuotaProofs -------------------------
(***************************************************************************)
(* The operations on keys and the cache of quotas together: what is proved  *)
(* of the cache on its own holds beside any number of handlers.             *)
(***************************************************************************)
EXTENDS AccessQuota, AccessKeysProofs, QuotaCacheProofs

SystemInv == HandlersInv /\ CacheInv

LEMMA PlanChangesProjects ==
  ASSUME CacheInv, PlanChanges
  PROVE  \E p \in Projects, v \in Plans : SetProjectInfo(p, v) \/ SetAccessLimit(p, v)
<1> PICK s \in Scenarios :
      \E n \in Watched, v \in s.plans :
        SetProjectInfo(ProjectNamed(n), v) \/ SetAccessLimit(ProjectNamed(n), v)
  BY DEF PlanChanges
<1>1. PICK n \in Watched, v \in s.plans :
        SetProjectInfo(ProjectNamed(n), v) \/ SetAccessLimit(ProjectNamed(n), v)
  OBVIOUS
<1>2. v \in Plans
  BY ScenariosAssumption
<1>3. n \in Keys \cup Projects
<2>1. PICK f \in Fetchers : n \in asks[f]
  BY DEF Watched
<2> QED
  BY <2>1, QuotaCacheAssumption DEF CacheInv, CacheTypeOK
<1>4. ProjectNamed(n) \in Projects
  BY <1>3, KeyStoreAssumption DEF ProjectNamed
<1> QED
  BY <1>1, <1>2, <1>4

LEMMA SystemSteps ==
  ASSUME SystemInv, [SystemNext]_systemVars
  PROVE  HandlersInv' /\ [CacheNext]_<<keys, cacheVars>>
<1>1. ASSUME NEW h \in Handlers, HandlerStep(h), UNCHANGED cacheVars
      PROVE  HandlersInv' /\ [CacheNext]_<<keys, cacheVars>>
  BY <1>1, HandlerStepKeeps DEF SystemInv, Replaces, CacheNext, KeyChanged
<1>2. ASSUME NEW h \in Handlers, PurgeQuota(h)
      PROVE  HandlersInv' /\ [CacheNext]_<<keys, cacheVars>>
<2> DEFINE k == Head(todo[h]).key
<2>1. HandlersInv' /\ UNCHANGED keys
  BY <1>2, PurgeKeeps DEF SystemInv, PurgeQuota
<2>2. k \in Keys
  BY <1>2, NextUpdate DEF SystemInv, PurgeQuota, Purge
<2>3. Del(k) \/ UNCHANGED redis
  BY <1>2 DEF PurgeQuota, MayDel
<2>4. UNCHANGED <<store, asks, memory, fetches, deleting>>
  BY <1>2 DEF PurgeQuota
<2> HIDE DEF k
<2>5. CASE Del(k)
  BY <2>1, <2>2, <2>4, <2>5 DEF CacheNext, KeyPurged
<2>6. CASE UNCHANGED redis
  BY <2>1, <2>4, <2>6 DEF cacheVars, store
<2> QED
  BY <2>1, <2>3, <2>5, <2>6
<1>3. ASSUME CacheStep \/ PlanChanges, reply' = NoReply, UNCHANGED <<keys, pc, call, local, calls>>
      PROVE  HandlersInv' /\ [CacheNext]_<<keys, cacheVars>>
<2>1. HandlersInv'
<3>1. KeysTypeOK' /\ reply' \in Replies
  BY <1>3, ReplyTypes DEF SystemInv, HandlersInv, KeysTypeOK
<3> QED
  BY <1>3, <3>1, IdleHandlers DEF SystemInv
<2>2. CacheNext
  BY <1>3, PlanChangesProjects DEF SystemInv, CacheNext
<2> QED
  BY <2>1, <2>2
<1>4. ASSUME UNCHANGED systemVars PROVE HandlersInv' /\ [CacheNext]_<<keys, cacheVars>>
<2>1. UNCHANGED <<keys, pc, call, local, calls, reply>> /\ UNCHANGED cacheVars
  BY <1>4 DEF systemVars, keyVars, handlers
<2>2. KeysTypeOK' /\ reply' \in Replies
  BY <2>1 DEF SystemInv, HandlersInv, HandlersTypeOK, KeysTypeOK, Replies
<2> QED
  BY <2>1, <2>2, IdleHandlers DEF SystemInv
<1> QED
  BY <1>1, <1>2, <1>3, <1>4 DEF SystemNext

LEMMA SystemStarts == SystemInit => SystemInv /\ KeysTypeOK /\ CacheInit
<1>1. SystemInit => HandlersInv
  BY InitHandlers DEF SystemInit
<1> QED
  BY <1>1, InitCache DEF SystemInit, SystemInv, HandlersInv

LEMMA SystemKeeps == SystemInv /\ [SystemNext]_systemVars => SystemInv'
  BY SystemSteps, NextKeepsCache DEF SystemInv

(* Both inductive invariants hold in the composition: the handlers' places  *)
(* and records, and the cache's names and ages.                             *)
THEOREM SystemInvCorrect == SystemSpec => []SystemInv
  BY SystemStarts, SystemKeeps, PTL DEF SystemSpec

(* The state of handlers and caches is well typed, under every fault.       *)
THEOREM SystemTypesCorrect == SystemSpec => []SystemTypeOK
<1>1. SystemInv => SystemTypeOK
  BY DEF SystemInv, HandlersInv, CacheInv, SystemTypeOK
<1> QED
  BY <1>1, SystemInvCorrect, PTL

(* Beside the cache, the operations on keys are changes and deletions that  *)
(* the cache allows at any time.                                            *)
THEOREM SystemRefinesCache == SystemSpec => CacheSpec
<1>1. SystemInv /\ [SystemNext]_systemVars => [CacheNext]_<<keys, cacheVars>>
  BY SystemSteps
<1>2. SystemInit => KeysTypeOK /\ CacheInit
  BY SystemStarts
<1> QED
  BY <1>1, <1>2, SystemInvCorrect, PTL DEF SystemSpec, CacheSpec

(* So what is served while keys are managed is as fresh as the cache says.  *)
THEOREM SystemServesFresh == SystemSpec => []OwnName /\ []RedisFresh /\ []ServedFresh
  BY SystemRefinesCache, NamesAreKept, RedisIsFresh, ServedIsFresh, PTL

LEMMA SystemSerial ==
  ASSUME Orderly, SerialInv, SystemInv, [SystemNext]_systemVars
  PROVE  SerialInv' /\ StepFine
<1>1. HandlersInv'
  BY SystemSteps
<1>2. ASSUME NEW h \in Handlers, HandlerStep(h) \/ PurgeQuota(h) PROVE SerialInv' /\ StepFine
  BY <1>2, SerialStep DEF PurgeQuota
<1>3. CASE UNCHANGED <<keys, pc, call, local>>
  BY <1>1, <1>3, SerialIdles, ReadingIsFine
<1> QED
  BY <1>2, <1>3 DEF SystemNext, systemVars, keyVars, handlers

(* With the caches beside them too, the operations of one handler at a time *)
(* keep the registry: at most one default key a project, an active one, and *)
(* no key comes back (server.go 342-554).                                   *)
THEOREM SystemKeepsRegistry ==
  ASSUME Orderly
  PROVE  Registry!RegistryInit /\ SystemSpec => KeysAsRegistry
<1>1. Registry!RegistryInit /\ SystemInit => SerialInv
  BY InitSerial DEF SystemInit
<1>2. SerialInv /\ SystemInv /\ [SystemNext]_systemVars =>
        SerialInv' /\ [Registry!RegistryNext]_keys
  BY SystemSerial DEF StepFine
<1> QED
  BY <1>1, <1>2, SystemInvCorrect, PTL DEF SystemSpec, KeysAsRegistry, Registry!RegistrySpec

(* The same of the active keys: only a rotation leaves a project without    *)
(* the one it had, at any step of handlers, fetches and changes of plans    *)
(* (server.go 488-501).                                                     *)
THEOREM SystemKeepsActive ==
  ASSUME Orderly
  PROVE  Registry!RegistryInit /\ SystemSpec => ActiveKeyKept
<1> DEFINE Kept ==
      \A p \in Projects :
        ActiveKeys(p) # {} /\ ActiveKeys(p)' = {} => \E h \in Handlers : call[h].op = "rotate"
<1>1. Registry!RegistryInit /\ SystemInit => SerialInv
  BY InitSerial DEF SystemInit
<1>2. SerialInv /\ SystemInv /\ [SystemNext]_systemVars => SerialInv' /\ [Kept]_keyVars
  BY SystemSerial DEF StepFine
<1>3. ActiveKeyKept <=> [][Kept]_keyVars
  BY PTL DEF ActiveKeyKept
<1> QED
  BY <1>1, <1>2, <1>3, SystemInvCorrect, PTL DEF SystemSpec

LEMMA SystemDone ==
  ASSUME Orderly, SerialInv, SerialInv', [SystemNext]_systemVars, \A h \in Handlers : Done(h)
  PROVE  (\A h \in Handlers : Done(h)') /\ [SuccessAll]_keyVars
<1>1. ASSUME NEW h \in Handlers, HandlerStep(h) \/ Purge(h)
      PROVE  (\A g \in Handlers : Done(g)') /\ SuccessAll
<2>1. \A g \in Handlers : g = h
  BY DEF Orderly, Serial
<2>2. Done(h)'
  BY <1>1, DoneStep
<2>3. ASSUME NEW p \in Projects, Answered(h, "none"), p = ProjectFor(h) PROVE Success(h, p)
  BY <1>1, <2>3, SuccessIs
<2> QED
  BY <2>1, <2>2, <2>3 DEF SuccessAll
<1>2. CASE UNCHANGED <<keys, pc, call, local>> /\ (reply' = NoReply \/ UNCHANGED keyVars)
<2>1. \A h \in Handlers : Done(h)'
  BY <1>2, DoneStays
<2>2. ASSUME reply' = NoReply, NEW h \in Handlers PROVE ~Answered(h, "none")
<3>1. Answered(h, "none") => reply'.to = {h}
  BY DEF Answered
<3> QED
  BY <2>2, <3>1 DEF NoReply
<2> QED
  BY <1>2, <2>1, <2>2 DEF SuccessAll
<1> QED
  BY <1>1, <1>2 DEF SystemNext, PurgeQuota, systemVars, keyVars, handlers

(* And of the answers: with one handler at a time, success means what it    *)
(* says also while clients fetch the quotas of the keys being changed       *)
(* (server.go 388-525).                                                     *)
THEOREM SystemSuccessIsTrue ==
  ASSUME Orderly
  PROVE  Registry!RegistryInit /\ SystemSpec => SuccessMeans
<1> DEFINE AllDone == \A h \in Handlers : Done(h)
<1>1. Registry!RegistryInit /\ SystemInit => SerialInv /\ AllDone
  BY InitSerial, InitDone DEF SystemInit
<1>2. SerialInv /\ SystemInv /\ [SystemNext]_systemVars => SerialInv'
  BY SystemSerial
<1>3. SerialInv /\ SerialInv' /\ AllDone /\ [SystemNext]_systemVars => AllDone' /\ [SuccessAll]_keyVars
  BY SystemDone
<1> HIDE DEF AllDone
<1> QED
  BY <1>1, <1>2, <1>3, SuccessMeansAll, SystemInvCorrect, PTL DEF SystemSpec
=============================================================================
