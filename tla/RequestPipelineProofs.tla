----------------------- MODULE RequestPipelineProofs -----------------------
(***************************************************************************)
(* How old a cached permission may be, and who is served, charged and let   *)
(* through, for any projects, keys, users, numbers of requests, and any     *)
(* deployment that mounts its middlewares in order, whatever fails.         *)
(***************************************************************************)
EXTENDS RequestPipeline, SpendLimitsProofs, Sums

(************************* The permission cache ****************************)

(* An entry that grants something has time left; a request holds nothing    *)
(* before it has asked, and then nothing older than its own check.          *)
CheckAges ==
  /\ \A s \in Subjects : cached[s].perm # 0 => cached[s].ttl > 0
  /\ \A r \in Requests :
       /\ Waiting(r) => waited[r] <= MaxCheck
       /\ stage[r] \in {"get", "ask"} => held[r] = 0
       /\ stage[r] = "set" => held[r] # 0
       /\ stage[r] \in {"set", "learn"} => heldAge[r] <= waited[r]

PermInv == PermTypeOK /\ CheckAges /\ PermissionFresh

LEMMA InitPerm == PermInit => PermInv
<1> SUFFICES ASSUME PermInit PROVE PermInv
  OBVIOUS
<1> USE PermissionAssumption
<1>1. PermTypeOK
  BY DEF PermInit, PermTypeOK, NoEntry, Perms, Stages
<1>2. CheckAges
  BY DEF PermInit, CheckAges, NoEntry, Waiting
<1>3. PermissionFresh
  BY DEF PermInit, PermissionFresh, NoEntry
<1> QED
  BY <1>1, <1>2, <1>3 DEF PermInv

(* What a request holds is written with the age it has: both ends of the    *)
(* call may write, and neither gives the entry more than its TTL.           *)
LEMMA WriteIsFresh ==
  ASSUME PermInv, NEW r \in Requests, stage[r] \in {"set", "learn"}, held[r] # 0, SetCached(r)
  PROVE  /\ cached' \in [Subjects -> [perm : Perms, ttl : 0..PermTTL, age : Nat]]
         /\ \A s \in Subjects : cached'[s].perm # 0 => cached'[s].ttl > 0
         /\ \A s \in Subjects : cached'[s].age + cached'[s].ttl <= PermTTL + MaxCheck
<1> USE PermissionAssumption
<1>1. CASE UNCHANGED cached
  BY <1>1 DEF PermInv, PermTypeOK, CheckAges, PermissionFresh
<1>2. CASE cached' = [cached EXCEPT ![subject[r]] =
                       [perm |-> held[r], ttl |-> EntryTTL(r), age |-> heldAge[r]]]
<2> DEFINE e == [perm |-> held[r], ttl |-> PermTTL, age |-> heldAge[r]]
<2>1. /\ e \in [perm : Perms, ttl : 0..PermTTL, age : Nat]
      /\ e.ttl > 0 /\ e.age + e.ttl <= PermTTL + MaxCheck
  BY DEF PermInv, PermTypeOK, CheckAges, Waiting
<2>2. cached' = [cached EXCEPT ![subject[r]] = e] /\ subject[r] \in Subjects
  BY <1>2 DEF EntryTTL, PermInv, PermTypeOK
<2>3. \A s \in Subjects : cached'[s] = IF s = subject[r] THEN e ELSE cached[s]
  BY <2>2 DEF PermInv, PermTypeOK
<2> HIDE DEF e
<2>4. cached' \in [Subjects -> [perm : Perms, ttl : 0..PermTTL, age : Nat]]
  BY <2>1, <2>2 DEF PermInv, PermTypeOK
<2> QED
  BY <2>1, <2>3, <2>4 DEF PermInv, CheckAges, PermissionFresh
<1> QED
  BY <1>1, <1>2 DEF SetCached

(* The steps of one check. *)
LEMMA CheckKeepsPerm ==
  ASSUME PermInv, NEW r \in Requests, CheckStep(r)
  PROVE  PermInv'
<1> USE PermissionAssumption
<1>0. /\ stage[r] \in Stages /\ held[r] \in Perms /\ heldAge[r] \in Nat
      /\ subject[r] \in Subjects /\ 0 \in Perms
  BY DEF PermInv, PermTypeOK, Perms
<1>1. CASE GetCached(r)
<2> DEFINE e == cached[subject[r]]
<2>1. /\ e.perm \in Perms /\ e.age \in Nat /\ e.ttl \in Nat
      /\ e.perm # 0 => e.age < PermTTL + MaxCheck
  BY <1>0 DEF PermInv, PermTypeOK, CheckAges, PermissionFresh
<2> HIDE DEF e
<2>2. CASE e.perm # 0 /\ To(r, AfterHit(r)) /\ Learn(r, e.perm, e.age)
<3>1. PermTypeOK'
  BY <1>1, <2>1, <2>2 DEF GetCached, PermInv, PermTypeOK, To, Learn, AfterHit, Stages
<3>2. CheckAges'
  BY <1>1, <2>1, <2>2 DEF GetCached, PermInv, PermTypeOK, To, Learn, AfterHit, CheckAges, Waiting
<3>3. PermissionFresh'
  BY <1>1, <2>1, <2>2 DEF GetCached, PermInv, PermTypeOK, To, Learn, PermissionFresh
<3> QED
  BY <3>1, <3>2, <3>3 DEF PermInv
<2>3. CASE To(r, "ask") /\ UNCHANGED <<held, heldAge>>
  BY <1>1, <2>3 DEF GetCached, PermInv, PermTypeOK, To, CheckAges, PermissionFresh, Waiting, Stages
<2> QED
  BY <1>1, <2>2, <2>3 DEF GetCached, e
<1>2. CASE AskServer(r)
<2>1. perm[subject[r]] \in Perms
  BY <1>0 DEF PermInv, PermTypeOK
<2>2. PermTypeOK'
  BY <1>2, <2>1 DEF AskServer, PermInv, PermTypeOK, To, Learn, Stages
<2>3. CheckAges'
  BY <1>2, <2>1 DEF AskServer, PermInv, PermTypeOK, To, Learn, CheckAges, Waiting
<2>4. PermissionFresh'
  BY <1>2 DEF AskServer, PermInv, PermTypeOK, Learn, PermissionFresh
<2> QED
  BY <2>2, <2>3, <2>4 DEF PermInv
<1>3. CASE ServerSet(r) \/ ClientSet(r)
<2>1. \/ UNCHANGED cached
      \/ stage[r] \in {"set", "learn"} /\ held[r] # 0 /\ SetCached(r)
  BY <1>3 DEF ServerSet, ClientSet, PermInv, CheckAges
<2>2. /\ cached' \in [Subjects -> [perm : Perms, ttl : 0..PermTTL, age : Nat]]
      /\ \A s \in Subjects : cached'[s].perm # 0 => cached'[s].ttl > 0
      /\ \A s \in Subjects : cached'[s].age + cached'[s].ttl <= PermTTL + MaxCheck
  BY <2>1, WriteIsFresh DEF PermInv, PermTypeOK, CheckAges, PermissionFresh
<2>3. PermTypeOK'
  BY <1>3, <2>2 DEF ServerSet, ClientSet, PermInv, PermTypeOK, To, Stages
<2>4. CheckAges'
  BY <1>3, <2>2 DEF ServerSet, ClientSet, PermInv, PermTypeOK, To, CheckAges, Waiting
<2>5. PermissionFresh'
  BY <1>3, <2>2 DEF ServerSet, ClientSet, PermInv, PermissionFresh
<2> QED
  BY <2>3, <2>4, <2>5 DEF PermInv
<1>4. CASE CheckFails(r)
  BY <1>4 DEF CheckFails, PermInv, PermTypeOK, To, CheckAges, PermissionFresh, Waiting, Stages
<1> QED
  BY <1>1, <1>2, <1>3, <1>4 DEF CheckStep

LEMMA OlderByOne ==
  ASSUME PermTypeOK, NEW s \in Subjects, NEW p \in Perms, NEW age \in Nat
  PROVE  Older(s, p, age) \in Nat /\ Older(s, p, age) <= age + 1
  BY DEF Older

(* Time: an entry loses as much of its TTL as it may gain in age. *)
LEMMA TickKeepsPerm ==
  ASSUME PermInv, PermTick
  PROVE  PermInv'
<1> USE PermissionAssumption
<1>1. ASSUME NEW s \in Subjects
      PROVE  /\ cached'[s] \in [perm : Perms, ttl : 0..PermTTL, age : Nat]
             /\ cached'[s].perm # 0 => cached'[s].ttl > 0
             /\ cached'[s].age + cached'[s].ttl <= PermTTL + MaxCheck
<2> DEFINE e == cached[s]
<2>1. /\ e.perm \in Perms /\ e.ttl \in 0..PermTTL /\ e.age \in Nat
      /\ e.age + e.ttl <= PermTTL + MaxCheck
  BY DEF PermInv, PermTypeOK, PermissionFresh
<2>2. /\ Older(s, e.perm, e.age) \in Nat
      /\ Older(s, e.perm, e.age) <= e.age + 1
  BY <2>1, OlderByOne DEF PermInv
<2>3. cached'[s] = IF e.ttl <= 1 THEN NoEntry
                   ELSE [perm |-> e.perm, ttl |-> e.ttl - 1, age |-> Older(s, e.perm, e.age)]
  BY DEF PermTick
<2> HIDE DEF e
<2> QED
  BY <2>1, <2>2, <2>3 DEF NoEntry, Perms
<1>2. ASSUME NEW r \in Requests
      PROVE  /\ heldAge'[r] \in Nat /\ waited'[r] \in Nat
             /\ heldAge'[r] < PermTTL + MaxCheck
             /\ Waiting(r) => waited'[r] <= MaxCheck
             /\ stage[r] \in {"set", "learn"} => heldAge'[r] <= waited'[r]
<2>1. /\ held[r] \in Perms /\ heldAge[r] \in Nat /\ waited[r] \in Nat
      /\ subject[r] \in Subjects /\ stage[r] \in Stages
  BY DEF PermInv, PermTypeOK
<2>2. /\ Older(subject[r], held[r], heldAge[r]) \in Nat
      /\ Older(subject[r], held[r], heldAge[r]) <= heldAge[r] + 1
  BY <2>1, OlderByOne DEF PermInv
<2>3. /\ waited'[r] = IF Waiting(r) THEN waited[r] + 1 ELSE waited[r]
      /\ heldAge'[r] = IF Waiting(r) /\ held[r] # 0
                         THEN Older(subject[r], held[r], heldAge[r]) ELSE heldAge[r]
      /\ Waiting(r) => waited[r] < MaxCheck
  BY DEF PermTick
<2>4. /\ heldAge[r] < PermTTL + MaxCheck
      /\ stage[r] \in {"set", "learn"} => heldAge[r] <= waited[r]
      /\ Waiting(r) /\ held[r] # 0 => stage[r] \in {"set", "learn"}
  BY DEF PermInv, PermissionFresh, CheckAges, Waiting
<2>5. stage[r] \in {"set", "learn"} => Waiting(r)
  BY DEF Waiting
<2> QED
  BY <2>1, <2>2, <2>3, <2>4, <2>5
<1>3. /\ cached' = [s \in Subjects |-> cached'[s]]
      /\ heldAge' = [r \in Requests |-> heldAge'[r]]
      /\ waited' = [r \in Requests |-> waited'[r]]
  BY DEF PermTick
<1>4. PermTypeOK'
<2>1. cached' \in [Subjects -> [perm : Perms, ttl : 0..PermTTL, age : Nat]]
  BY <1>1, <1>3
<2>2. heldAge' \in [Requests -> Nat] /\ waited' \in [Requests -> Nat]
  BY <1>2, <1>3
<2> QED
  BY <2>1, <2>2 DEF PermTick, PermInv, PermTypeOK
<1>5. CheckAges'
  BY <1>1, <1>2 DEF PermTick, PermInv, CheckAges, Waiting
<1>6. PermissionFresh'
  BY <1>1, <1>2 DEF PermissionFresh
<1> QED
  BY <1>4, <1>5, <1>6 DEF PermInv

LEMMA StartKeepsPerm ==
  ASSUME PermInv, NEW r \in Requests, NEW s \in Subjects, StartCheck(r, s)
  PROVE  PermInv'
<1> USE PermissionAssumption
<1>1. PermTypeOK'
  BY DEF StartCheck, To, Learn, PermInv, PermTypeOK, Stages, Perms
<1>2. CheckAges'
  BY DEF StartCheck, To, Learn, PermInv, PermTypeOK, CheckAges, Waiting
<1>3. PermissionFresh'
  BY DEF StartCheck, Learn, PermInv, PermTypeOK, PermissionFresh
<1> QED
  BY <1>1, <1>2, <1>3 DEF PermInv

LEMMA NextKeepsPerm == PermInv /\ [PermNext]_permVars => PermInv'
<1> SUFFICES ASSUME PermInv, [PermNext]_permVars PROVE PermInv'
  OBVIOUS
<1>1. CASE \E r \in Requests : CheckStep(r)
  BY <1>1, CheckKeepsPerm
<1>2. CASE \E r \in Requests : EndCheck(r)
  BY <1>2 DEF EndCheck, To, PermInv, PermTypeOK, CheckAges, PermissionFresh, Waiting, Stages
<1>3. CASE \E r \in Requests, s \in Subjects : StartCheck(r, s)
  BY <1>3, StartKeepsPerm
<1>4. CASE \E s \in Subjects, p \in Perms : SetUserPermission(s, p)
  BY <1>4 DEF SetUserPermission, checks, PermInv, PermTypeOK, CheckAges, PermissionFresh, Waiting
<1>5. CASE PermTick
  BY <1>5, TickKeepsPerm
<1>6. CASE UNCHANGED permVars
  BY <1>6 DEF permVars, checks, PermInv, PermTypeOK, CheckAges, PermissionFresh, Waiting
<1> QED
  BY <1>1, <1>2, <1>3, <1>4, <1>5, <1>6 DEF PermNext

(* The permission cache and the checks of all requests keep their types,    *)
(* and a check never holds anything older than itself before it writes.     *)
THEOREM PermInvCorrect == PermSpec => []PermInv
  BY InitPerm, NextKeepsPerm, PTL DEF PermSpec

(* A permission is acted on for at most its entry's TTL and one check after *)
(* it has changed (FetchPermission, GetUserPermission).                     *)
THEOREM PermissionsAreFresh == PermSpec => []PermissionFresh
<1>1. PermInv => PermissionFresh
  BY DEF PermInv
<1> QED
  BY <1>1, PermInvCorrect, PTL

(***************************** The pipeline ********************************)

Before(r) == {deployed.chain[i] : i \in {j \in DOMAIN deployed.chain : j < at[r]}}

(* Where a request may be interrupted, and what it then knows. *)
Places(r) ==
  /\ req[r] = None => doing[r] = "enter"
  /\ Running(r) /\ doing[r] # "enter" =>
       /\ at[r] \in DOMAIN deployed.chain
       /\ doing[r] \in {"key", "admit"} => deployed.chain[at[r]] = "verify"
       /\ doing[r] = "check" => deployed.chain[at[r]] \in {"verify", "permission"}
       /\ doing[r] = "incr" => deployed.chain[at[r]] = "spend" /\ Metered(r)
  /\ at[r] > Len(deployed.chain) => ~Refused(r) /\ doing[r] = "enter"
  /\ Served(r) => at[r] > Len(deployed.chain)
  /\ stage[r] # "idle" => Running(r) /\ doing[r] = "check"

(* A quota comes from VerifyQuota; past it, it has the service's limit. *)
Verified(r) ==
  quota[r] # None =>
    /\ req[r] # None /\ Len(deployed.chain) > 0 /\ deployed.chain[1] = "verify"
    /\ at[r] > 1 => LimitOf[quota[r].project] # None
    /\ quota[r].key = None =>
         /\ req[r].session = "project" /\ req[r].project # None
         /\ quota[r].project = req[r].project

(* Nothing is spent on the way to SpendUsage, and past it all is. *)
Charged(r) ==
  /\ at[r] <= Len(deployed.chain) /\ ~Refused(r) => billed[r] = 0 /\ ~spending[r]
  /\ at[r] > Len(deployed.chain) /\ "spend" \in Chain /\ Metered(r) =>
       spending[r] /\ billed[r] = Units(r)
  /\ spending[r] => quota[r] # None /\ counted[r] = billed[r] /\ billed[r] > 0
  /\ Refused(r) /\ billed[r] > 0 =>
       /\ quota[r] # None /\ LimitOf[quota[r].project] # None
       /\ outcome[r] = "exceeded" /\ billed[r] < counted[r] /\ Used(r) > OverMax(r)

(* Until it spends, a request has room above the usage EnsureUsage saw. *)
Ensured(r) ==
  seen[r] # None =>
    "ensure" \in Before(r) /\ Metered(r) /\ seen[r] + Units(r) <= OverMax(r)

(* What a user was asked for is held while no check is under way. *)
Permitted(r) ==
  ByUser(r) /\ doing[r] # "check" /\ ~Refused(r) =>
    /\ held[r] >= READ
    /\ "permission" \in Before(r) /\ deployed.enabled => held[r] >= deployed.least

Fine(r) == Places(r) /\ Verified(r) /\ Charged(r) /\ Ensured(r) /\ Permitted(r)

PipelineInv == PipelineTypeOK /\ PermInv /\ \A r \in Requests : Fine(r)
-----------------------------------------------------------------------------
(* The deployment, its requests and their quotas. *)

LEMMA DeploymentIs ==
  ASSUME PipelineTypeOK
  PROVE  /\ deployed.chain \in Seq(Middlewares) /\ InOrder(deployed.chain)
         /\ Len(deployed.chain) \in Nat /\ DOMAIN deployed.chain = 1..Len(deployed.chain)
         /\ deployed.enabled \in BOOLEAN /\ deployed.least \in READ..Top
         /\ deployed.baseCost \in Nat /\ deployed.gets \subseteq Kind
         /\ \A kind \in deployed.gets : KnownSubject(kind)
  BY PipelineAssumption DEF PipelineTypeOK, Deployment

LEMMA RequestIs ==
  ASSUME PipelineTypeOK, NEW r \in Requests, req[r] # None
  PROVE  /\ req[r] \in deployed.gets /\ req[r] \in Kind /\ KnownSubject(req[r])
         /\ req[r].user \in Users \cup {None} /\ req[r].project \in Projects \cup {None}
         /\ req[r].key \in Keys \cup {None} /\ req[r].cost \in Nat \cup {None}
<1>1. req[r] \in deployed.gets
  BY DEF PipelineTypeOK
<1>2. req[r] \in Kind /\ KnownSubject(req[r])
  BY <1>1, DeploymentIs
<1> QED
  BY <1>1, <1>2 DEF Kind

LEMMA PlaceIs ==
  ASSUME PipelineTypeOK, NEW r \in Requests
  PROVE  /\ at[r] \in 1..Len(deployed.chain) + 1 /\ at[r] \in Nat
         /\ \A m \in Middlewares, d \in Doing : In(r, m, d) =>
              /\ Running(r) /\ at[r] \in DOMAIN deployed.chain /\ at[r] <= Len(deployed.chain)
              /\ deployed.chain[at[r]] = m /\ doing[r] = d
              /\ m = "verify" => at[r] = 1
              /\ m = "spend" => at[r] = Len(deployed.chain)
<1>1. at[r] \in 1..Len(deployed.chain) + 1 /\ at[r] \in Nat
  BY DeploymentIs DEF PipelineTypeOK
<1>2. ASSUME NEW m \in Middlewares, NEW d \in Doing, In(r, m, d)
      PROVE  /\ Running(r) /\ at[r] \in DOMAIN deployed.chain /\ at[r] <= Len(deployed.chain)
             /\ deployed.chain[at[r]] = m /\ doing[r] = d
  BY <1>1, <1>2, DeploymentIs DEF In
<1>3. ASSUME NEW m \in Middlewares, NEW d \in Doing, In(r, m, d), m = "verify"
      PROVE  at[r] = 1
  BY <1>1, <1>2, <1>3, DeploymentIs DEF InOrder
<1>4. ASSUME NEW m \in Middlewares, NEW d \in Doing, In(r, m, d), m = "spend"
      PROVE  at[r] = Len(deployed.chain)
  BY <1>1, <1>2, <1>4, DeploymentIs DEF InOrder
<1> QED
  BY <1>1, <1>2, <1>3, <1>4

LEMMA QuotaIs ==
  ASSUME PipelineTypeOK, NEW r \in Requests, quota[r] # None
  PROVE  /\ quota[r] \in Quota /\ quota[r].project \in Projects
         /\ Used(r) \in Nat
         /\ LimitOf[quota[r].project] # None =>
              ValidLimit(LimitOf[quota[r].project]) /\ OverMax(r) \in Int
<1>1. quota[r] \in Quota /\ quota[r].project \in Projects
  BY DEF PipelineTypeOK, Quota
<1> QED
  BY <1>1, PipelineAssumption DEF PipelineTypeOK, Used, OverMax, ValidLimit, ServiceLimits

LEMMA UnitsAre ==
  ASSUME PipelineTypeOK, NEW r \in Requests
  PROVE  Units(r) \in Nat
  BY PipelineAssumption DEF PipelineTypeOK, Units

(* The permission a step asks for is that of a subject of the store. *)
LEMMA StepAsksPermission ==
  ASSUME PipelineTypeOK, NEW r \in Requests, Verified(r), Step(r)
  PROVE  \/ UNCHANGED permVars
         \/ EndCheck(r)
         \/ \E s \in Subjects : StartCheck(r, s)
<1>1. CASE VerifyProject(r)
<2>1. Running(r)
  BY <1>1 DEF VerifyProject, In
<2>2. /\ req[r].user \in Users \cup {None} /\ req[r].project \in Projects \cup {None}
      /\ KnownSubject(req[r])
  BY <2>1, RequestIs DEF Running
<2>3. CASE req[r].session = "project" /\ req[r].project # None /\ req[r].user # None
  BY <1>1, <2>2, <2>3 DEF VerifyProject, KnownSubject
<2> QED
  BY <1>1, <2>3 DEF VerifyProject
<1>2. CASE EnsurePermission(r)
<2>1. CASE ByUser(r) /\ StartCheck(r, <<quota[r].project, req[r].user>>)
<3>1. /\ req[r] # None /\ req[r].session = "project" /\ quota[r].project = req[r].project
      /\ req[r].project # None /\ req[r].user # None
  BY <2>1, QuotaIs DEF ByUser, Verified
<3>2. KnownSubject(req[r])
  BY <3>1, RequestIs
<3> QED
  BY <2>1, <3>1, <3>2 DEF KnownSubject
<2> QED
  BY <1>2, <2>1 DEF EnsurePermission
<1>3. CASE VerifyRead(r)
  BY <1>3 DEF VerifyRead
<1>4. CASE \/ Arrive(r) \/ Serve(r) \/ VerifyKey(r) \/ VerifyLimit(r) \/ SetCost(r)
           \/ RateLimit(r) \/ EnsureUsage(r) \/ StartSpending(r) \/ SpendUsage(r) \/ SpendAgain(r)
  BY <1>4 DEF Arrive, Serve, VerifyKey, VerifyLimit, SetCost, RateLimit, EnsureUsage,
       StartSpending, SpendUsage, SpendAgain, Shared
<1> QED
  BY <1>1, <1>2, <1>3, <1>4 DEF Step
-----------------------------------------------------------------------------
(* Types. *)

LEMMA CostIs ==
  ASSUME PipelineTypeOK, NEW r \in Requests, Running(r)
  PROVE  (IF req[r].cost = None THEN AtLeastOne(deployed.baseCost) ELSE req[r].cost) \in Nat
  BY RequestIs, DeploymentIs DEF Running, AtLeastOne

LEMMA BucketIs ==
  ASSUME PipelineTypeOK, NEW r \in Requests, Running(r)
  PROVE  BucketOf(r) \in Buckets
<1>1. req[r].user \in Users \cup {None} /\ req[r].project \in Projects \cup {None}
  BY RequestIs DEF Running
<1>2. quota[r] # None => quota[r].project \in Projects
  BY QuotaIs
<1> QED
  BY <1>1, <1>2 DEF BucketOf, Buckets

LEMMA BilledIs ==
  ASSUME PipelineTypeOK, NEW r \in Requests, Metered(r), LimitOf[quota[r].project] # None
  PROVE  LET units == UsageOf(LimitOf[quota[r].project], Units(r), Used(r) + Units(r))
         IN  /\ Units(r) \in Nat \ {0} /\ units \in 0..Units(r)
             /\ units < Units(r) => Used(r) + Units(r) > OverMax(r)
<1>1. Units(r) \in Nat \ {0} /\ Used(r) \in Nat /\ ValidLimit(LimitOf[quota[r].project])
  BY UnitsAre, QuotaIs DEF Metered
<1>2. Used(r) + Units(r) \in Int
  BY <1>1
<1>3. UsageOf(LimitOf[quota[r].project], Units(r), Used(r) + Units(r)) \in 0..Units(r)
  BY <1>1, <1>2, UsageOfBounds
<1>4. /\ LimitOf[quota[r].project].OverMax \in Int /\ LimitOf[quota[r].project].FreeMax \in Int
      /\ LimitOf[quota[r].project].FreeMax <= LimitOf[quota[r].project].OverMax
  BY <1>1 DEF ValidLimit, ServiceLimits
<1>5. UsageOf(LimitOf[quota[r].project], Units(r), Used(r) + Units(r)) < Units(r)
        => Used(r) + Units(r) > OverMax(r)
  BY <1>1, <1>4 DEF UsageOf, GetOverThreshold, OverMax
<1> QED
  BY <1>1, <1>3, <1>5

(* A request that moves on stays within its chain. *)
LEMMA MoveTypes ==
  ASSUME PipelineTypeOK, NEW r \in Requests,
         \/ Pass(r) /\ at[r] <= Len(deployed.chain)
         \/ \E err \in Errors : Refuse(r, err)
         \/ \E step \in Doing : Continue(r, step)
  PROVE  /\ UNCHANGED req /\ at' \in [Requests -> 1..Len(deployed.chain) + 1]
         /\ doing' \in [Requests -> Doing]
         /\ outcome' \in [Requests -> Errors \cup {"served", None}]
<1>1. /\ at \in [Requests -> 1..Len(deployed.chain) + 1] /\ doing \in [Requests -> Doing]
      /\ outcome \in [Requests -> Errors \cup {"served", None}]
      /\ Len(deployed.chain) \in Nat
  BY DeploymentIs DEF PipelineTypeOK
<1>2. CASE Pass(r) /\ at[r] <= Len(deployed.chain)
<2>1. at[r] + 1 \in 1..Len(deployed.chain) + 1
  BY <1>1, <1>2
<2>2. /\ UNCHANGED <<req, outcome>> /\ at' = [at EXCEPT ![r] = at[r] + 1]
      /\ doing' = [doing EXCEPT ![r] = "enter"]
  BY <1>2 DEF Pass, Set
<2> QED
  BY <1>1, <2>1, <2>2 DEF Doing
<1>3. CASE \E err \in Errors : Refuse(r, err)
  BY <1>1, <1>3 DEF Refuse, Set
<1>4. CASE \E step \in Doing : Continue(r, step)
  BY <1>1, <1>4 DEF Continue, Set
<1> QED
  BY <1>2, <1>3, <1>4

LEMMA StepTypes ==
  ASSUME PipelineTypeOK, PermTypeOK', NEW r \in Requests, Fine(r), Step(r)
  PROVE  PipelineTypeOK'
<1> DEFINE Moved == /\ UNCHANGED req /\ at' \in [Requests -> 1..Len(deployed.chain) + 1]
                    /\ doing' \in [Requests -> Doing]
                    /\ outcome' \in [Requests -> Errors \cup {"served", None}]
<1>1. CASE Arrive(r)
  BY <1>1 DEF Arrive, PipelineTypeOK, Shared, context, Set
<1>2. CASE Serve(r)
  BY <1>2 DEF Serve, PipelineTypeOK, Shared, context, Set
<1>3. CASE VerifyProject(r)
<2>1. In(r, "verify", "enter")
  BY <1>3 DEF VerifyProject
<2>2. Moved
<3>1. \/ \E err \in Errors : Refuse(r, err)
      \/ \E step \in Doing : Continue(r, step)
  BY <1>3 DEF VerifyProject, Errors, Doing
<3> QED
  BY <3>1, MoveTypes
<2>3. /\ quota' \in [Requests -> Quota \cup {None}]
      /\ UNCHANGED <<deployed, usage, rate, cost, seen, counted, billed, repeated, spending>>
<3>1. CASE UNCHANGED context
  BY <1>3, <3>1 DEF VerifyProject, context, PipelineTypeOK
<3>2. CASE SetQuota(r, req[r].project, None) /\ req[r].project # None
<4>1. [project |-> req[r].project, key |-> None] \in Quota
  BY <2>1, <3>2, RequestIs DEF In, Running, Quota
<4> QED
  BY <1>3, <3>2, <4>1 DEF VerifyProject, SetQuota, Set, PipelineTypeOK
<3> QED
  BY <1>3, <3>1, <3>2 DEF VerifyProject
<2> QED
  BY <2>2, <2>3 DEF PipelineTypeOK
<1>4. CASE VerifyRead(r) \/ VerifyLimit(r)
<2>1. at[r] <= Len(deployed.chain)
  BY <1>4 DEF VerifyRead, VerifyLimit, In
<2>2. Moved
<3>1. \/ Pass(r)
      \/ \E err \in Errors : Refuse(r, err)
      \/ \E step \in Doing : Continue(r, step)
  BY <1>4 DEF VerifyRead, VerifyLimit, Errors, Doing
<3> QED
  BY <2>1, <3>1, MoveTypes
<2> QED
  BY <1>4, <2>2 DEF VerifyRead, VerifyLimit, Shared, context, PipelineTypeOK
<1>5. CASE VerifyKey(r)
<2>1. In(r, "verify", "key")
  BY <1>5 DEF VerifyKey
<2>2. Moved
<3>1. \/ \E err \in Errors : Refuse(r, err)
      \/ \E step \in Doing : Continue(r, step)
  BY <1>5 DEF VerifyKey, Errors, Doing
<3> QED
  BY <3>1, MoveTypes
<2>3. /\ quota' \in [Requests -> Quota \cup {None}]
      /\ UNCHANGED <<deployed, usage, rate, cost, seen, counted, billed, repeated, spending>>
<3>1. CASE UNCHANGED context
  BY <1>5, <3>1 DEF VerifyKey, Shared, context, PipelineTypeOK
<3>2. CASE req[r].key # None /\ SetQuota(r, ProjectOf[req[r].key], req[r].key)
<4>1. [project |-> ProjectOf[req[r].key], key |-> req[r].key] \in Quota
  BY <2>1, <3>2, RequestIs, PipelineAssumption DEF In, Running, Quota
<4> QED
  BY <1>5, <3>2, <4>1 DEF VerifyKey, Shared, SetQuota, Set, PipelineTypeOK
<3> QED
  BY <1>5, <3>1, <3>2 DEF VerifyKey
<2> QED
  BY <2>2, <2>3 DEF PipelineTypeOK
<1>6. CASE EnsurePermission(r)
<2>1. at[r] <= Len(deployed.chain)
  BY <1>6 DEF EnsurePermission, In
<2>2. Moved
<3>1. \/ Pass(r)
      \/ \E err \in Errors : Refuse(r, err)
      \/ \E step \in Doing : Continue(r, step)
  BY <1>6 DEF EnsurePermission, Errors, Doing
<3> QED
  BY <2>1, <3>1, MoveTypes
<2> QED
  BY <1>6, <2>2 DEF EnsurePermission, context, PipelineTypeOK
<1>7. CASE SetCost(r)
<2>1. Running(r) /\ at[r] <= Len(deployed.chain)
  BY <1>7 DEF SetCost, In
<2>2. cost' \in [Requests -> Nat \cup {None}]
  BY <1>7, <2>1, CostIs DEF SetCost, Set, PipelineTypeOK
<2>3. Moved
  BY <1>7, <2>1, MoveTypes DEF SetCost
<2> QED
  BY <1>7, <2>2, <2>3 DEF SetCost, Shared, PipelineTypeOK
<1>8. CASE RateLimit(r)
<2>1. Running(r) /\ at[r] <= Len(deployed.chain)
  BY <1>8 DEF RateLimit, In
<2>2. Moved
<3>1. Pass(r) \/ \E err \in Errors : Refuse(r, err)
  BY <1>8 DEF RateLimit, Errors
<3> QED
  BY <2>1, <3>1, MoveTypes
<2>3. rate' \in [Buckets -> Nat]
<3> DEFINE increment == IF cost[r] = None THEN 1 ELSE cost[r]
<3>1. increment \in Nat /\ BucketOf(r) \in Buckets
  BY <2>1, BucketIs DEF PipelineTypeOK
<3>2. rate' = rate \/ rate' = [rate EXCEPT ![BucketOf(r)] = rate[BucketOf(r)] + increment]
  BY <1>8 DEF RateLimit, Set
<3>3. rate \in [Buckets -> Nat]
  BY DEF PipelineTypeOK
<3> HIDE DEF increment
<3> QED
  BY <3>1, <3>2, <3>3
<2> QED
  BY <1>8, <2>2, <2>3 DEF RateLimit, context, PipelineTypeOK
<1>9. CASE EnsureUsage(r)
<2>1. Running(r) /\ at[r] <= Len(deployed.chain)
  BY <1>9 DEF EnsureUsage, In
<2>2. Moved
<3>1. Pass(r) \/ \E err \in Errors : Refuse(r, err)
  BY <1>9 DEF EnsureUsage, Errors
<3> QED
  BY <2>1, <3>1, MoveTypes
<2>3. seen' \in [Requests -> Nat \cup {None}]
<3>1. Metered(r) => Used(r) \in Nat
  BY QuotaIs DEF Metered
<3>2. \/ UNCHANGED seen
      \/ Metered(r) /\ seen' = [seen EXCEPT ![r] = Used(r)]
<4>1. UNCHANGED seen \/ (Metered(r) /\ seen' = Set(seen, r, Used(r)))
  BY <1>9 DEF EnsureUsage
<4> QED
  BY <4>1 DEF Set
<3>3. seen \in [Requests -> Nat \cup {None}]
  BY DEF PipelineTypeOK
<3> QED
  BY <3>1, <3>2, <3>3
<2> QED
  BY <1>9, <2>2, <2>3 DEF EnsureUsage, Shared, PipelineTypeOK
<1>10. CASE StartSpending(r)
<2>1. at[r] <= Len(deployed.chain)
  BY <1>10 DEF StartSpending, In
<2>2. Moved
<3>1. \/ Pass(r)
      \/ \E err \in Errors : Refuse(r, err)
      \/ \E step \in Doing : Continue(r, step)
  BY <1>10 DEF StartSpending, Errors, Doing
<3> QED
  BY <2>1, <3>1, MoveTypes
<2> QED
  BY <1>10, <2>2 DEF StartSpending, Shared, context, PipelineTypeOK
<1>11. CASE SpendUsage(r)
<2>1. /\ In(r, "spend", "incr") /\ Running(r) /\ at[r] <= Len(deployed.chain)
      /\ at[r] = Len(deployed.chain) /\ Metered(r) /\ deployed.chain[at[r]] = "spend"
  BY <1>11, PlaceIs DEF SpendUsage, Fine, Places, Doing, Middlewares
<2>2. quota[r] # None /\ quota[r].project \in Projects /\ Used(r) \in Nat /\ Units(r) \in Nat
  BY <2>1, QuotaIs, UnitsAre DEF Metered
<2>3. LimitOf[quota[r].project] # None
<3>1. deployed.chain[1] = "verify" /\ (at[r] > 1 => LimitOf[quota[r].project] # None)
  BY <2>2 DEF Fine, Verified
<3>2. at[r] > 1
  BY <2>1, <3>1, PlaceIs
<3> QED
  BY <3>1, <3>2
<2> DEFINE units == UsageOf(LimitOf[quota[r].project], Units(r), Used(r) + Units(r))
<2>4. units \in Nat
  BY <2>1, <2>2, <2>3, BilledIs
<2>5. /\ \/ /\ usage' = [usage EXCEPT ![quota[r].project] = Used(r) + Units(r)]
            /\ counted' = [counted EXCEPT ![r] = Units(r)]
         \/ UNCHANGED <<usage, counted>>
      /\ \/ billed' = [billed EXCEPT ![r] = units] /\ Answer(r, units)
         \/ Refuse(r, "endpoint") /\ UNCHANGED <<billed, spending>>
      /\ UNCHANGED <<deployed, rate, quota, cost, seen, repeated>>
  BY <1>11 DEF SpendUsage, CountUnits, Set, Billed
<2> HIDE DEF units
<2>6. usage' \in [Projects -> Nat] /\ counted' \in [Requests -> Nat]
<3>1. usage \in [Projects -> Nat] /\ counted \in [Requests -> Nat] /\ Used(r) + Units(r) \in Nat
  BY <2>2 DEF PipelineTypeOK
<3>2. CASE UNCHANGED <<usage, counted>>
  BY <3>1, <3>2
<3>3. CASE /\ usage' = [usage EXCEPT ![quota[r].project] = Used(r) + Units(r)]
           /\ counted' = [counted EXCEPT ![r] = Units(r)]
  BY <2>2, <3>1, <3>3
<3> QED
  BY <2>5, <3>2, <3>3
<2>7. billed' \in [Requests -> Nat]
  BY <2>4, <2>5 DEF PipelineTypeOK
<2>8. spending' \in [Requests -> BOOLEAN]
  BY <2>5 DEF Answer, Set, PipelineTypeOK
<2>9. Moved
<3>1. Pass(r) \/ \E err \in Errors : Refuse(r, err)
  BY <2>5 DEF Answer, Errors
<3> QED
  BY <2>1, <3>1, MoveTypes
<2> QED
  BY <2>5, <2>6, <2>7, <2>8, <2>9 DEF PipelineTypeOK
<1>12. CASE SpendAgain(r)
<2>1. In(r, "spend", "incr") /\ Metered(r)
  BY <1>12, PlaceIs DEF SpendAgain, Middlewares, Doing, Fine, Places
<2>2. quota[r].project \in Projects /\ Used(r) \in Nat /\ Units(r) \in Nat
  BY <2>1, QuotaIs, UnitsAre DEF Metered
<2>3. /\ usage' = [usage EXCEPT ![quota[r].project] = Used(r) + Units(r)]
      /\ repeated' = [repeated EXCEPT ![r] = repeated[r] + Units(r)]
      /\ UNCHANGED <<req, at, doing, outcome, deployed, rate, quota, cost, seen, counted, billed, spending>>
  BY <1>12 DEF SpendAgain, CountUnits, Set
<2>4. usage' \in [Projects -> Nat]
<3>1. usage \in [Projects -> Nat] /\ Used(r) + Units(r) \in Nat
  BY <2>2 DEF PipelineTypeOK
<3> QED
  BY <2>3, <3>1
<2>5. repeated' \in [Requests -> Nat]
<3>1. repeated \in [Requests -> Nat] /\ repeated[r] + Units(r) \in Nat
  BY <2>2 DEF PipelineTypeOK
<3> QED
  BY <2>3, <3>1
<2> QED
  BY <2>3, <2>4, <2>5 DEF PipelineTypeOK
<1> QED
  BY <1>1, <1>2, <1>3, <1>4, <1>5, <1>6, <1>7, <1>8, <1>9, <1>10, <1>11, <1>12 DEF Step
-----------------------------------------------------------------------------
(* How a request moves, and what that leaves true of it. *)

LEMMA PassIs ==
  ASSUME PipelineTypeOK, NEW r \in Requests, Pass(r), Running(r)
  PROVE  /\ req' = req /\ Running(r)' /\ outcome'[r] = None
         /\ at'[r] = at[r] + 1 /\ doing'[r] = "enter"
  BY DEF PipelineTypeOK, Pass, Set, Running

LEMMA RefuseIs ==
  ASSUME PipelineTypeOK, NEW r \in Requests, NEW err \in Errors, Refuse(r, err)
  PROVE  /\ req' = req /\ outcome'[r] = err /\ Refused(r)' /\ ~Running(r)' /\ ~Served(r)'
         /\ at'[r] = at[r] /\ doing'[r] = doing[r]
<1>1. outcome'[r] = err /\ UNCHANGED <<req, at, doing>>
  BY DEF PipelineTypeOK, Refuse, Set
<1>2. err # None /\ err # "served"
  BY PipelineAssumption DEF Errors
<1> QED
  BY <1>1, <1>2 DEF Refused, Running, Served

LEMMA ContinueIs ==
  ASSUME PipelineTypeOK, NEW r \in Requests, NEW step \in Doing, Continue(r, step), Running(r)
  PROVE  /\ req' = req /\ Running(r)' /\ outcome'[r] = None
         /\ at'[r] = at[r] /\ doing'[r] = step
  BY DEF PipelineTypeOK, Continue, Set, Running

LEMMA RunningIs ==
  ASSUME PipelineTypeOK, NEW r \in Requests, outcome[r] = None
  PROVE  ~Refused(r) /\ ~Served(r)
  BY PipelineAssumption DEF Refused, Served

LEMMA BeforeGrows ==
  ASSUME PipelineTypeOK, NEW r \in Requests, NEW n \in Nat, at'[r] = n, deployed' = deployed
  PROVE  /\ n = at[r] => Before(r)' = Before(r)
         /\ n = at[r] + 1 /\ at[r] \in DOMAIN deployed.chain =>
              Before(r)' = Before(r) \cup {deployed.chain[at[r]]}
<1>1. at[r] \in Nat /\ DOMAIN deployed.chain \subseteq Nat
  BY PlaceIs, DeploymentIs
<1>2. Before(r)' = {deployed.chain[i] : i \in {j \in DOMAIN deployed.chain : j < n}}
  BY DEF Before
<1>3. ASSUME n = at[r] + 1, at[r] \in DOMAIN deployed.chain
      PROVE  {j \in DOMAIN deployed.chain : j < n}
               = {j \in DOMAIN deployed.chain : j < at[r]} \cup {at[r]}
  BY <1>1, <1>3
<1> QED
  BY <1>2, <1>3 DEF Before

(* Refused with what it has: nothing more is asked of it. *)
LEMMA RefusedIsFine ==
  ASSUME PipelineTypeOK, PipelineTypeOK', NEW r \in Requests, Fine(r), Running(r),
         at[r] <= Len(deployed.chain), NEW err \in Errors, Refuse(r, err),
         UNCHANGED <<deployed, usage, context>>, stage'[r] = "idle"
  PROVE  Fine(r)'
<1>1. /\ req' = req /\ outcome'[r] = err /\ Refused(r)' /\ ~Running(r)' /\ ~Served(r)'
      /\ at'[r] = at[r] /\ doing'[r] = doing[r]
  BY RefuseIs
<1>2. /\ at[r] \in Nat /\ Len(deployed.chain) \in Nat
      /\ Before(r)' = Before(r)
  BY <1>1, PlaceIs, DeploymentIs, BeforeGrows
<1>3. ~Refused(r) /\ ~Served(r)
  BY RunningIs DEF Running
<1>4. Places(r)'
  BY <1>1, <1>2 DEF Places, Running
<1>5. Verified(r)'
  BY <1>1 DEF Fine, Verified, context
<1>6. Charged(r)'
  BY <1>1, <1>2, <1>3 DEF Fine, Charged, context
<1>7. Ensured(r)'
  BY <1>1, <1>2 DEF Fine, Ensured, context, Metered, Units, OverMax
<1>8. Permitted(r)'
  BY <1>1 DEF Permitted
<1> QED
  BY <1>4, <1>5, <1>6, <1>7, <1>8 DEF Fine

(* Going on in the middleware it has come to. *)
LEMMA ContinuedIsFine ==
  ASSUME PipelineTypeOK, PipelineTypeOK', NEW r \in Requests, Fine(r), Running(r),
         at[r] \in DOMAIN deployed.chain, NEW step \in Doing, Continue(r, step),
         UNCHANGED <<deployed, usage, context>>, step # "enter",
         step \in {"key", "admit"} => deployed.chain[at[r]] = "verify",
         step = "check" => deployed.chain[at[r]] \in {"verify", "permission"},
         step = "incr" => deployed.chain[at[r]] = "spend" /\ Metered(r),
         stage'[r] = "idle" \/ step = "check",
         step # "check" /\ ByUser(r) => Permitted(r)'
  PROVE  Fine(r)'
<1>1. /\ req' = req /\ Running(r)' /\ outcome'[r] = None
      /\ at'[r] = at[r] /\ doing'[r] = step
  BY ContinueIs
<1>2. /\ at[r] \in Nat /\ Len(deployed.chain) \in Nat /\ at[r] <= Len(deployed.chain)
      /\ Before(r)' = Before(r)
  BY <1>1, PlaceIs, DeploymentIs, BeforeGrows
<1>3. ~Refused(r) /\ ~Refused(r)' /\ ~Served(r)' /\ outcome[r] = None
  BY <1>1, RunningIs, PipelineAssumption DEF Running, Refused, Served
<1>4. Metered(r)' = Metered(r) /\ Units(r)' = Units(r)
  BY <1>1 DEF Metered, Units, context
<1>5. Places(r)'
  BY <1>1, <1>2, <1>3, <1>4 DEF Places, Running
<1>6. Verified(r)'
  BY <1>1 DEF Fine, Verified, context
<1>7. Charged(r)'
  BY <1>1, <1>2, <1>3 DEF Fine, Charged, context
<1>8. Ensured(r)'
  BY <1>1, <1>2, <1>4 DEF Fine, Ensured, context, OverMax
<1>9. Permitted(r)'
<2>1. CASE step = "check"
  BY <1>1, <2>1 DEF Permitted
<2>2. CASE step # "check" /\ ~ByUser(r)
  BY <1>1, <2>2 DEF Permitted, ByUser, context
<2> QED
  BY <2>1, <2>2
<1> QED
  BY <1>5, <1>6, <1>7, <1>8, <1>9 DEF Fine
(* Passed on to the next middleware, or to the handler. *)
LEMMA PassedIsFine ==
  ASSUME PipelineTypeOK, PipelineTypeOK', NEW r \in Requests, Fine(r), Running(r),
         at[r] \in DOMAIN deployed.chain, Pass(r),
         UNCHANGED <<deployed, quota>>, stage'[r] = "idle",
         Charged(r)', Ensured(r)',
         quota[r] # None => at[r] > 1 \/ LimitOf[quota[r].project] # None,
         ByUser(r) => /\ held'[r] >= READ
                      /\ deployed.enabled /\ "permission" \in Before(r) \cup {deployed.chain[at[r]]} =>
                           held'[r] >= deployed.least
  PROVE  Fine(r)'
<1>1. /\ req' = req /\ Running(r)' /\ outcome'[r] = None
      /\ at'[r] = at[r] + 1 /\ doing'[r] = "enter"
  BY PassIs
<1>2. /\ at[r] \in Nat /\ Len(deployed.chain) \in Nat /\ at[r] <= Len(deployed.chain)
      /\ at[r] >= 1
  BY PlaceIs, DeploymentIs
<1>3. Before(r)' = Before(r) \cup {deployed.chain[at[r]]}
  BY <1>1, <1>2, BeforeGrows
<1>4. ~Refused(r)' /\ ~Served(r)'
  BY <1>1, PipelineAssumption DEF Refused, Served
<1>5. Places(r)'
  BY <1>1, <1>2, <1>4 DEF Places
<1>6. Verified(r)'
  BY <1>1, <1>2 DEF Fine, Verified
<1>7. ByUser(r)' = ByUser(r)
  BY <1>1 DEF ByUser
<1>8. Permitted(r)'
  BY <1>1, <1>3, <1>7 DEF Permitted
<1> QED
  BY <1>5, <1>6, <1>8 DEF Fine

(* Before SpendUsage, or when there is nothing to spend. *)
LEMMA PassedUnspent ==
  ASSUME PipelineTypeOK, PipelineTypeOK', NEW r \in Requests, Fine(r), Running(r),
         at[r] \in DOMAIN deployed.chain, Pass(r),
         UNCHANGED <<deployed, quota, counted, billed, spending>>,
         \/ deployed.chain[at[r]] # "spend"
         \/ ~Metered(r) /\ UNCHANGED cost
  PROVE  Charged(r)'
<1>1. /\ req' = req /\ Running(r)' /\ outcome'[r] = None
      /\ at'[r] = at[r] + 1 /\ doing'[r] = "enter"
  BY PassIs
<1>2. /\ at[r] \in Nat /\ Len(deployed.chain) \in Nat /\ at[r] <= Len(deployed.chain)
      /\ at[r] >= 1
  BY PlaceIs, DeploymentIs
<1>3. ~Refused(r) /\ ~Refused(r)'
  BY <1>1, RunningIs, PipelineAssumption DEF Running, Refused
<1>4. billed[r] = 0 /\ ~spending[r]
  BY <1>2, <1>3 DEF Fine, Charged
<1>5. ASSUME at'[r] > Len(deployed.chain), "spend" \in Chain, Metered(r)'
      PROVE  FALSE
<2>1. at[r] = Len(deployed.chain)
  BY <1>1, <1>2, <1>5
<2>2. PICK i \in DOMAIN deployed.chain : deployed.chain[i] = "spend"
  BY <1>5 DEF Chain
<2>3. i = at[r]
  BY <1>2, <2>1, <2>2, DeploymentIs DEF InOrder
<2>4. ~Metered(r) /\ UNCHANGED cost
  BY <2>2, <2>3
<2> QED
  BY <1>5, <2>4 DEF Metered, Units
<1>6. Chain' = Chain
  BY DEF Chain
<1> QED
  BY <1>1, <1>2, <1>3, <1>4, <1>5, <1>6 DEF Charged

LEMMA PassedUnseen ==
  ASSUME PipelineTypeOK, PipelineTypeOK', NEW r \in Requests, Fine(r), Running(r),
         at[r] \in DOMAIN deployed.chain, Pass(r), UNCHANGED <<deployed, quota, cost, seen>>
  PROVE  Ensured(r)'
<1>1. at'[r] = at[r] + 1 /\ at[r] \in Nat
  BY PassIs, PlaceIs
<1>2. Before(r)' = Before(r) \cup {deployed.chain[at[r]]}
  BY <1>1, BeforeGrows
<1> QED
  BY <1>2 DEF Fine, Ensured, Metered, Units, OverMax

(* What others do: they leave a request alone but for the counters, which   *)
(* only grow, and a check of its own that may be under way.                 *)
LEMMA LeftAloneIsFine ==
  ASSUME PipelineTypeOK, PipelineTypeOK', NEW q \in Requests, Fine(q), deployed' = deployed,
         /\ req'[q] = req[q] /\ at'[q] = at[q] /\ doing'[q] = doing[q]
         /\ outcome'[q] = outcome[q] /\ quota'[q] = quota[q] /\ cost'[q] = cost[q]
         /\ seen'[q] = seen[q] /\ counted'[q] = counted[q] /\ billed'[q] = billed[q]
         /\ spending'[q] = spending[q],
         \A p \in Projects : usage'[p] >= usage[p],
         stage[q] = "idle" => stage'[q] = "idle" /\ held'[q] = held[q]
  PROVE  Fine(q)'
<1>1. /\ at[q] \in Nat /\ Len(deployed.chain) \in Nat /\ Before(q)' = Before(q)
  BY PlaceIs, DeploymentIs, BeforeGrows
<1>2. /\ Running(q)' = Running(q) /\ Refused(q)' = Refused(q) /\ Served(q)' = Served(q)
      /\ ByUser(q)' = ByUser(q) /\ Metered(q)' = Metered(q) /\ Units(q)' = Units(q)
  BY DEF Running, Refused, Served, ByUser, Metered, Units
<1>3. Places(q)'
  BY <1>2 DEF Fine, Places
<1>4. Verified(q)'
  BY DEF Fine, Verified
<1>5. Charged(q)'
<2>1. Chain' = Chain
  BY DEF Chain
<2>2. ASSUME Refused(q), billed[q] > 0
      PROVE  Used(q)' > OverMax(q)' /\ outcome[q] = "exceeded" /\ billed[q] < counted[q]
<3>1. Used(q) > OverMax(q) /\ outcome[q] = "exceeded" /\ billed[q] < counted[q]
  BY <2>2 DEF Fine, Charged
<3>2. quota[q] # None /\ LimitOf[quota[q].project] # None
  BY <2>2 DEF Fine, Charged
<3> QED
  BY <3>1, <3>2, QuotaIs DEF Used, OverMax, PipelineTypeOK
<2> QED
  BY <1>2, <2>1, <2>2 DEF Fine, Charged
<1>6. Ensured(q)'
  BY <1>1, <1>2 DEF Fine, Ensured, OverMax
<1>7. Permitted(q)'
<2>1. Permitted(q) /\ Places(q)
  BY DEF Fine
<2>2. doing[q] # "check" => stage[q] = "idle"
  BY <2>1 DEF Places
<2> QED
  BY <1>1, <1>2, <2>1, <2>2 DEF Permitted
<1> QED
  BY <1>3, <1>4, <1>5, <1>6, <1>7 DEF Fine
-----------------------------------------------------------------------------
(* Each step of a request. *)

LEMMA ArriveIsFine ==
  ASSUME PipelineTypeOK, PipelineTypeOK', NEW r \in Requests, Fine(r), Arrive(r)
  PROVE  Fine(r)'
<1>1. /\ req[r] = None /\ UNCHANGED <<at, doing, outcome, context, deployed, usage, permVars>>
  BY DEF Arrive, Shared
<1>2. ~Running(r) /\ quota[r] = None /\ stage[r] = "idle" /\ doing[r] = "enter"
  BY <1>1 DEF Running, Fine, Verified, Places
<1>3. /\ UNCHANGED <<quota, cost, seen, counted, billed, spending, stage, held>>
      /\ Before(r)' = Before(r) /\ Chain' = Chain
  BY <1>1 DEF Before, Chain, context, permVars, checks
<1>4. Places(r)'
  BY <1>1, <1>2, <1>3 DEF Fine, Places, Refused, Served
<1>5. Verified(r)' /\ Permitted(r)'
  BY <1>2, <1>3 DEF Verified, Permitted, ByUser
<1>6. Charged(r)'
  BY <1>1, <1>2, <1>3 DEF Fine, Charged, Metered, Refused
<1>7. Ensured(r)'
  BY <1>2, <1>3 DEF Fine, Ensured, Metered
<1> QED
  BY <1>4, <1>5, <1>6, <1>7 DEF Fine

LEMMA ServeIsFine ==
  ASSUME PipelineTypeOK, PipelineTypeOK', NEW r \in Requests, Fine(r), Serve(r)
  PROVE  Fine(r)'
<1>1. /\ Running(r) /\ at[r] > Len(deployed.chain) /\ outcome'[r] = "served"
      /\ UNCHANGED <<req, at, doing, context, deployed, usage, permVars>>
  BY DEF Serve, Shared, Set, PipelineTypeOK
<1>2. /\ UNCHANGED <<quota, cost, seen, counted, billed, spending, stage, held>>
      /\ Before(r)' = Before(r) /\ Chain' = Chain
  BY <1>1 DEF Before, Chain, context, permVars, checks
<1>3. ~Refused(r) /\ ~Refused(r)' /\ doing[r] = "enter" /\ stage[r] = "idle"
  BY <1>1, RunningIs DEF Running, Refused, Errors, Fine, Places
<1>4. Places(r)'
  BY <1>1, <1>2, <1>3 DEF Places, Fine, Running
<1>5. Verified(r)'
  BY <1>1, <1>2 DEF Fine, Verified
<1>6. Charged(r)'
  BY <1>1, <1>2, <1>3 DEF Fine, Charged, Metered, Units
<1>7. Ensured(r)'
  BY <1>1, <1>2 DEF Fine, Ensured, Metered, Units, OverMax
<1>8. Permitted(r)'
  BY <1>1, <1>2, <1>3 DEF Fine, Permitted, ByUser
<1> QED
  BY <1>4, <1>5, <1>6, <1>7, <1>8 DEF Fine

LEMMA VerifyReadIsFine ==
  ASSUME PipelineTypeOK, PipelineTypeOK', NEW r \in Requests, Fine(r), VerifyRead(r),
         stage'[r] = "idle" /\ held' = held
  PROVE  Fine(r)'
<1>1. /\ In(r, "verify", "check") /\ Running(r) /\ at[r] \in DOMAIN deployed.chain
      /\ at[r] <= Len(deployed.chain) /\ deployed.chain[at[r]] = "verify" /\ at[r] = 1
      /\ UNCHANGED <<deployed, usage, context>>
  BY PlaceIs DEF VerifyRead, Middlewares, Doing
<1>2. CASE \E err \in {"unauthorized", "endpoint"} : Refuse(r, err)
  BY <1>1, <1>2, RefusedIsFine DEF Errors
<1>3. CASE Granted(r, READ) /\ Continue(r, "key")
<2>1. /\ Running(r)' /\ at'[r] = at[r] /\ doing'[r] = "key"
  BY <1>1, <1>3, ContinueIs DEF Doing
<2>2. Before(r)' = {}
  BY <1>1, <2>1, DeploymentIs DEF Before
<2>3. Permitted(r)'
  BY <1>3, <2>2 DEF Permitted, Granted
<2> QED
  BY <1>1, <1>3, <2>3, ContinuedIsFine DEF Doing
<1> QED
  BY <1>2, <1>3 DEF VerifyRead

LEMMA VerifyLimitIsFine ==
  ASSUME PipelineTypeOK, PipelineTypeOK', NEW r \in Requests, Fine(r), VerifyLimit(r),
         stage'[r] = "idle" /\ held' = held
  PROVE  Fine(r)'
<1>1. /\ In(r, "verify", "admit") /\ Running(r) /\ at[r] \in DOMAIN deployed.chain
      /\ at[r] <= Len(deployed.chain) /\ deployed.chain[at[r]] = "verify" /\ at[r] = 1
      /\ doing[r] = "admit"
      /\ UNCHANGED <<deployed, usage, context>>
  BY PlaceIs DEF VerifyLimit, Middlewares, Doing, Shared
<1>2. CASE Refuse(r, "invalid_service")
  BY <1>1, <1>2, RefusedIsFine DEF Errors
<1>3. CASE Pass(r) /\ (quota[r] # None => LimitOf[quota[r].project] # None)
<2>1. UNCHANGED <<quota, cost, seen, counted, billed, spending>>
  BY <1>1 DEF context
<2>2. Charged(r)' /\ Ensured(r)'
  BY <1>1, <1>3, <2>1, PassedUnspent, PassedUnseen
<2>3. "permission" \notin Before(r) \cup {deployed.chain[at[r]]}
  BY <1>1, DeploymentIs DEF Before
<2>4. ByUser(r) => held[r] >= READ
  BY <1>1, RunningIs DEF Fine, Permitted, Running
<2> QED
  BY <1>1, <1>3, <2>1, <2>2, <2>3, <2>4, PassedIsFine
<1> QED
  BY <1>2, <1>3 DEF VerifyLimit
LEMMA VerifyProjectIsFine ==
  ASSUME PipelineTypeOK, PipelineTypeOK', NEW r \in Requests, Fine(r), VerifyProject(r)
  PROVE  Fine(r)'
<1>1. /\ In(r, "verify", "enter") /\ Running(r) /\ at[r] \in DOMAIN deployed.chain
      /\ at[r] <= Len(deployed.chain) /\ deployed.chain[at[r]] = "verify" /\ at[r] = 1
      /\ doing[r] = "enter" /\ stage[r] = "idle"
      /\ UNCHANGED <<deployed, usage, rate>>
  BY PlaceIs DEF VerifyProject, Middlewares, Doing, Fine, Places
<1>2. CASE (\E err \in Errors : Refuse(r, err)) /\ UNCHANGED <<context, permVars>>
<2>1. stage'[r] = "idle"
  BY <1>1, <1>2 DEF permVars, checks
<2> QED
  BY <1>1, <1>2, <2>1, RefusedIsFine
<1>3. CASE Continue(r, "key") /\ UNCHANGED <<context, permVars>>
<2>1. UNCHANGED <<stage, held, quota>> /\ stage'[r] = "idle"
  BY <1>1, <1>3 DEF permVars, checks, context
<2>2. at'[r] = at[r] /\ outcome'[r] = None /\ UNCHANGED req
  BY <1>1, <1>3, ContinueIs DEF Doing
<2>3. Before(r)' = {}
  BY <1>1, <2>2, DeploymentIs DEF Before
<2>4. ByUser(r) => held[r] >= READ
  BY <1>1, RunningIs DEF Fine, Permitted, Running
<2>5. Permitted(r)'
  BY <2>1, <2>2, <2>3, <2>4 DEF Permitted, ByUser
<2> QED
  BY <1>1, <1>3, <2>1, <2>5, ContinuedIsFine DEF Doing
<1>4. ASSUME NEW step \in {"key", "check"}, Continue(r, step),
             req[r].session = "project", req[r].project # None,
             SetQuota(r, req[r].project, None),
             step = "key" => req[r].user = None /\ UNCHANGED permVars
      PROVE  Fine(r)'
<2>1. /\ req' = req /\ Running(r)' /\ outcome'[r] = None
      /\ at'[r] = at[r] /\ doing'[r] = step
  BY <1>1, <1>4, ContinueIs DEF Doing
<2>2. /\ quota'[r] = [project |-> req[r].project, key |-> None]
      /\ UNCHANGED <<cost, seen, counted, billed, spending>>
  BY <1>4 DEF SetQuota, Set, PipelineTypeOK
<2>3. /\ ~Refused(r) /\ ~Refused(r)' /\ ~Served(r)' /\ outcome[r] = None
      /\ Len(deployed.chain) \in Nat /\ DOMAIN deployed.chain = 1..Len(deployed.chain)
      /\ Before(r) = {}
  BY <1>1, <2>1, RunningIs, PipelineAssumption, DeploymentIs DEF Running, Refused, Served, Before
<2>4. seen[r] = None
  BY <2>3 DEF Fine, Ensured
<2>5. Places(r)'
<3>1. stage'[r] # "idle" => step = "check"
  BY <1>1, <1>4 DEF permVars, checks
<3> QED
  BY <1>1, <2>1, <2>3, <3>1 DEF Places, Running
<2>6. Verified(r)'
  BY <1>1, <1>4, <2>1, <2>2, <2>3 DEF Verified, Running
<2>7. Charged(r)'
  BY <1>1, <2>1, <2>2, <2>3 DEF Fine, Charged
<2>8. Ensured(r)'
  BY <2>2, <2>4 DEF Ensured
<2>9. Permitted(r)'
  BY <1>4, <2>1, <2>2 DEF Permitted, ByUser
<2> QED
  BY <2>5, <2>6, <2>7, <2>8, <2>9 DEF Fine
<1> QED
  BY <1>2, <1>3, <1>4 DEF VerifyProject, Errors

LEMMA VerifyKeyIsFine ==
  ASSUME PipelineTypeOK, PipelineTypeOK', NEW r \in Requests, Fine(r), VerifyKey(r)
  PROVE  Fine(r)'
<1>1. /\ In(r, "verify", "key") /\ Running(r) /\ at[r] \in DOMAIN deployed.chain
      /\ at[r] <= Len(deployed.chain) /\ deployed.chain[at[r]] = "verify" /\ at[r] = 1
      /\ doing[r] = "key" /\ stage[r] = "idle"
      /\ UNCHANGED <<deployed, usage, rate, stage, held>>
  BY PlaceIs DEF VerifyKey, Middlewares, Doing, Fine, Places, Shared, permVars, checks
<1>2. CASE (\E err \in Errors : Refuse(r, err)) /\ UNCHANGED context
  BY <1>1, <1>2, RefusedIsFine
<1>3. CASE Continue(r, "admit") /\ UNCHANGED context
<2>1. at'[r] = at[r] /\ outcome'[r] = None /\ UNCHANGED <<req, quota>>
  BY <1>1, <1>3, ContinueIs DEF Doing, context
<2>2. Before(r)' = {}
  BY <1>1, <2>1, DeploymentIs DEF Before
<2>3. ByUser(r) => held[r] >= READ
  BY <1>1, RunningIs DEF Fine, Permitted, Running
<2>4. Permitted(r)'
  BY <1>1, <2>1, <2>2, <2>3 DEF Permitted, ByUser
<2> QED
  BY <1>1, <1>3, <2>4, ContinuedIsFine DEF Doing
<1>4. CASE /\ Continue(r, "admit") /\ req[r].key # None
           /\ SetQuota(r, ProjectOf[req[r].key], req[r].key)
<2>1. /\ req' = req /\ Running(r)' /\ outcome'[r] = None
      /\ at'[r] = at[r] /\ doing'[r] = "admit"
  BY <1>1, <1>4, ContinueIs DEF Doing
<2>2. /\ quota'[r] = [project |-> ProjectOf[req[r].key], key |-> req[r].key]
      /\ UNCHANGED <<cost, seen, counted, billed, spending>>
  BY <1>4 DEF SetQuota, Set, PipelineTypeOK
<2>3. /\ ~Refused(r) /\ ~Refused(r)' /\ ~Served(r)' /\ outcome[r] = None
      /\ Len(deployed.chain) \in Nat /\ DOMAIN deployed.chain = 1..Len(deployed.chain)
      /\ Before(r) = {}
  BY <1>1, <2>1, RunningIs, PipelineAssumption, DeploymentIs DEF Running, Refused, Served, Before
<2>4. seen[r] = None
  BY <2>3 DEF Fine, Ensured
<2>5. Places(r)'
  BY <1>1, <2>1, <2>3 DEF Places, Running
<2>6. Verified(r)'
  BY <1>1, <1>4, <2>1, <2>2, <2>3 DEF Verified, Running
<2>7. Charged(r)'
  BY <1>1, <2>1, <2>2, <2>3 DEF Fine, Charged
<2>8. Ensured(r)'
  BY <2>2, <2>4 DEF Ensured
<2>9. Permitted(r)'
  BY <1>4, <2>2 DEF Permitted, ByUser
<2> QED
  BY <2>5, <2>6, <2>7, <2>8, <2>9 DEF Fine
<1> QED
  BY <1>2, <1>3, <1>4 DEF VerifyKey, Errors
(* A request that passes a middleware that asks for no permission. *)
LEMMA HeldStays ==
  ASSUME PipelineTypeOK, NEW r \in Requests, Fine(r), Running(r), doing[r] # "check",
         held' = held, deployed.chain[at[r]] # "permission" \/ ~deployed.enabled
  PROVE  ByUser(r) => /\ held'[r] >= READ
                      /\ deployed.enabled /\ "permission" \in Before(r) \cup {deployed.chain[at[r]]} =>
                           held'[r] >= deployed.least
  BY RunningIs DEF Fine, Permitted, Running

(* VerifyQuota comes first: whoever has a quota elsewhere is past it. *)
LEMMA PastVerify ==
  ASSUME PipelineTypeOK, NEW r \in Requests, Fine(r), at[r] \in DOMAIN deployed.chain,
         deployed.chain[at[r]] # "verify", quota[r] # None
  PROVE  at[r] > 1 /\ LimitOf[quota[r].project] # None
<1>1. deployed.chain[1] = "verify" /\ (at[r] > 1 => LimitOf[quota[r].project] # None)
  BY DEF Fine, Verified
<1>2. at[r] # 1 /\ at[r] \in Nat /\ at[r] >= 1
  BY <1>1, PlaceIs, DeploymentIs
<1> QED
  BY <1>1, <1>2

LEMMA EnsurePermissionIsFine ==
  ASSUME PipelineTypeOK, PipelineTypeOK', NEW r \in Requests, Fine(r), EnsurePermission(r)
  PROVE  Fine(r)'
<1>1. /\ Running(r) /\ at[r] \in DOMAIN deployed.chain
      /\ at[r] <= Len(deployed.chain) /\ deployed.chain[at[r]] = "permission"
      /\ UNCHANGED <<deployed, usage, context>>
  BY PlaceIs DEF EnsurePermission, Middlewares, Doing
<1>2. UNCHANGED <<quota, cost, seen, counted, billed, spending>>
  BY <1>1 DEF context
<1>3. quota[r] # None => at[r] > 1
  BY <1>1, PastVerify
<1>4. ASSUME Pass(r)
      PROVE  Charged(r)' /\ Ensured(r)'
  BY <1>1, <1>2, <1>4, PassedUnspent, PassedUnseen
<1>5. CASE In(r, "permission", "enter")
<2>1. doing[r] = "enter" /\ stage[r] = "idle"
  BY <1>5 DEF In, Fine, Places
<2>2. CASE ~deployed.enabled /\ Pass(r) /\ UNCHANGED permVars
<3>1. stage' = stage /\ held' = held
  BY <2>2 DEF permVars, checks
<3> QED
  BY <1>1, <1>2, <1>3, <1>4, <2>1, <2>2, <3>1, HeldStays, PassedIsFine
<2>3. CASE Refuse(r, "unauthorized") /\ UNCHANGED permVars
<3>1. stage' = stage
  BY <2>3 DEF permVars, checks
<3> QED
  BY <1>1, <2>1, <2>3, <3>1, RefusedIsFine DEF Errors
<2>4. CASE Continue(r, "check")
  BY <1>1, <2>4, ContinuedIsFine DEF Doing
<2> QED
  BY <1>5, <2>2, <2>3, <2>4 DEF EnsurePermission, In
<1>6. CASE In(r, "permission", "check")
<2>1. /\ EndCheck(r)
      /\ \/ Granted(r, deployed.least) /\ Pass(r)
         \/ Refuse(r, "unauthorized")
  BY <1>6 DEF EnsurePermission, In
<2>2. stage'[r] = "idle" /\ held' = held
  BY <2>1 DEF EndCheck, To, PipelineTypeOK, PermTypeOK
<2>3. CASE Refuse(r, "unauthorized")
  BY <1>1, <2>2, <2>3, RefusedIsFine DEF Errors
<2>4. CASE Granted(r, deployed.least) /\ Pass(r)
<3>1. held'[r] >= deployed.least
  BY <2>2, <2>4 DEF Granted
<3>2. held'[r] \in 0..Top /\ deployed.least \in READ..Top
  BY <2>2, DeploymentIs DEF PipelineTypeOK, PermTypeOK, Perms
<3>3. held'[r] >= READ
  BY <3>1, <3>2, PermissionAssumption DEF READ
<3> QED
  BY <1>1, <1>2, <1>3, <1>4, <2>2, <2>4, <3>1, <3>3, PassedIsFine
<2> QED
  BY <2>1, <2>3, <2>4
<1> QED
  BY <1>5, <1>6 DEF EnsurePermission

LEMMA SetCostIsFine ==
  ASSUME PipelineTypeOK, PipelineTypeOK', NEW r \in Requests, Fine(r), SetCost(r),
         stage' = stage /\ held' = held
  PROVE  Fine(r)'
<1>1. /\ Running(r) /\ at[r] \in DOMAIN deployed.chain /\ at[r] <= Len(deployed.chain)
      /\ deployed.chain[at[r]] = "cost" /\ doing[r] = "enter" /\ stage[r] = "idle"
      /\ Pass(r) /\ UNCHANGED <<deployed, usage, quota, seen, counted, billed, spending>>
  BY PlaceIs DEF SetCost, Middlewares, Doing, Fine, Places, Shared
<1>2. Charged(r)'
  BY <1>1, PassedUnspent
<1>3. seen[r] = None
<2>1. ASSUME "ensure" \in Before(r)
      PROVE  FALSE
<3>1. PICK i \in DOMAIN deployed.chain : i < at[r] /\ deployed.chain[i] = "ensure"
  BY <2>1 DEF Before
<3> QED
  BY <1>1, <3>1, DeploymentIs DEF InOrder
<2> QED
  BY <2>1 DEF Fine, Ensured
<1>4. Ensured(r)'
  BY <1>1, <1>3 DEF Ensured
<1>5. quota[r] # None => at[r] > 1
  BY <1>1, PastVerify
<1> QED
  BY <1>1, <1>2, <1>4, <1>5, HeldStays, PassedIsFine

LEMMA RateLimitIsFine ==
  ASSUME PipelineTypeOK, PipelineTypeOK', NEW r \in Requests, Fine(r), RateLimit(r)
  PROVE  Fine(r)'
<1>1. /\ Running(r) /\ at[r] \in DOMAIN deployed.chain /\ at[r] <= Len(deployed.chain)
      /\ deployed.chain[at[r]] = "rate" /\ doing[r] = "enter" /\ stage[r] = "idle"
      /\ UNCHANGED <<deployed, usage, context, stage, held>>
  BY PlaceIs DEF RateLimit, Middlewares, Doing, Fine, Places, permVars, checks
<1>2. UNCHANGED <<quota, cost, seen, counted, billed, spending>>
  BY <1>1 DEF context
<1>3. CASE \E err \in Errors : Refuse(r, err)
  BY <1>1, <1>3, RefusedIsFine
<1>4. CASE Pass(r)
<2>1. Charged(r)' /\ Ensured(r)' /\ (quota[r] # None => at[r] > 1)
  BY <1>1, <1>2, <1>4, PassedUnspent, PassedUnseen, PastVerify
<2> QED
  BY <1>1, <1>2, <1>4, <2>1, HeldStays, PassedIsFine
<1> QED
  BY <1>3, <1>4 DEF RateLimit, Errors

LEMMA EnsureUsageIsFine ==
  ASSUME PipelineTypeOK, PipelineTypeOK', NEW r \in Requests, Fine(r), EnsureUsage(r),
         stage' = stage /\ held' = held
  PROVE  Fine(r)'
<1>1. /\ Running(r) /\ at[r] \in DOMAIN deployed.chain /\ at[r] <= Len(deployed.chain)
      /\ deployed.chain[at[r]] = "ensure" /\ doing[r] = "enter" /\ stage[r] = "idle"
      /\ UNCHANGED <<deployed, usage, quota, cost, counted, billed, repeated, spending>>
  BY PlaceIs DEF EnsureUsage, Middlewares, Doing, Fine, Places, Shared
<1>2. ASSUME NEW err \in Errors, Refuse(r, err), UNCHANGED seen
      PROVE  Fine(r)'
<2>1. UNCHANGED context
  BY <1>1, <1>2 DEF context
<2> QED
  BY <1>1, <1>2, <2>1, RefusedIsFine
<1>3. CASE /\ Pass(r)
           /\ \/ UNCHANGED seen
              \/ Metered(r) /\ EnoughFor(r) /\ seen' = Set(seen, r, Used(r))
<2>1. Charged(r)' /\ (quota[r] # None => at[r] > 1)
  BY <1>1, <1>3, PassedUnspent, PastVerify
<2>2. Ensured(r)'
<3>1. CASE UNCHANGED seen
  BY <1>1, <1>3, <3>1, PassedUnseen
<3>2. CASE Metered(r) /\ EnoughFor(r) /\ seen' = Set(seen, r, Used(r))
<4>1. seen'[r] = Used(r) /\ Used(r) + Units(r) <= OverMax(r)
  BY <3>2 DEF Set, PipelineTypeOK, EnoughFor
<4>2. at'[r] = at[r] + 1 /\ at[r] \in Nat
  BY <1>1, <1>3, PassIs, PlaceIs
<4>3. "ensure" \in Before(r)'
  BY <1>1, <4>2, BeforeGrows
<4>4. Metered(r)' /\ Units(r)' = Units(r) /\ OverMax(r)' = OverMax(r)
  BY <1>1, <3>2 DEF Metered, Units, OverMax
<4> QED
  BY <4>1, <4>3, <4>4 DEF Ensured
<3> QED
  BY <1>3, <3>1, <3>2
<2> QED
  BY <1>1, <1>3, <2>1, <2>2, HeldStays, PassedIsFine
<1>4. \/ Refuse(r, "endpoint") /\ UNCHANGED seen
      \/ Refuse(r, "exceeded") /\ UNCHANGED seen
      \/ Pass(r) /\ UNCHANGED seen
      \/ Pass(r) /\ Metered(r) /\ EnoughFor(r) /\ seen' = Set(seen, r, Used(r))
  BY DEF EnsureUsage
<1>5. "endpoint" \in Errors /\ "exceeded" \in Errors
  BY DEF Errors
<1>6. CASE Refuse(r, "endpoint") /\ UNCHANGED seen
  BY <1>2, <1>5, <1>6
<1>7. CASE Refuse(r, "exceeded") /\ UNCHANGED seen
  BY <1>2, <1>5, <1>7
<1>8. CASE Pass(r) /\ UNCHANGED seen
  BY <1>3, <1>8
<1>9. CASE Pass(r) /\ Metered(r) /\ EnoughFor(r) /\ seen' = Set(seen, r, Used(r))
  BY <1>3, <1>9
<1> QED
  BY <1>4, <1>6, <1>7, <1>8, <1>9

LEMMA StartSpendingIsFine ==
  ASSUME PipelineTypeOK, PipelineTypeOK', NEW r \in Requests, Fine(r), StartSpending(r),
         stage' = stage /\ held' = held
  PROVE  Fine(r)'
<1>1. /\ Running(r) /\ at[r] \in DOMAIN deployed.chain /\ at[r] <= Len(deployed.chain)
      /\ deployed.chain[at[r]] = "spend" /\ doing[r] = "enter" /\ stage[r] = "idle"
      /\ UNCHANGED <<deployed, usage, context>>
  BY PlaceIs DEF StartSpending, Middlewares, Doing, Fine, Places, Shared
<1>2. UNCHANGED <<quota, cost, seen, counted, billed, spending>>
  BY <1>1 DEF context
<1>3. CASE \E err \in Errors : Refuse(r, err)
  BY <1>1, <1>3, RefusedIsFine
<1>4. CASE Pass(r) /\ ~Metered(r)
<2>1. Charged(r)' /\ Ensured(r)' /\ (quota[r] # None => at[r] > 1)
  BY <1>1, <1>2, <1>4, PassedUnspent, PassedUnseen, PastVerify
<2> QED
  BY <1>1, <1>2, <1>4, <2>1, HeldStays, PassedIsFine
<1>5. CASE Continue(r, "incr") /\ Metered(r)
<2>1. Permitted(r)'
<3>1. /\ at'[r] = at[r] /\ at[r] \in Nat /\ req' = req /\ outcome'[r] = None
  BY <1>1, <1>5, ContinueIs, PlaceIs DEF Doing
<3>2. Before(r)' = Before(r) /\ ByUser(r)' = ByUser(r)
  BY <1>1, <1>2, <3>1, BeforeGrows DEF ByUser
<3> QED
  BY <1>1, <3>2, RunningIs DEF Fine, Permitted, Running
<2> QED
  BY <1>1, <1>5, <2>1, ContinuedIsFine DEF Doing
<1> QED
  BY <1>3, <1>4, <1>5 DEF StartSpending, Errors
(* The INCRBY of a request that is done and answered, or done and failed. *)
LEMMA CountedIsFine ==
  ASSUME PipelineTypeOK, PipelineTypeOK', NEW r \in Requests, Fine(r), SpendUsage(r),
         CountUnits(r)
  PROVE  Fine(r)' /\ \A p \in Projects : usage'[p] >= usage[p]
<1> DEFINE units == UsageOf(LimitOf[quota[r].project], Units(r), Used(r) + Units(r))
<1>1. /\ In(r, "spend", "incr") /\ Running(r) /\ at[r] \in DOMAIN deployed.chain
      /\ at[r] = Len(deployed.chain) /\ deployed.chain[at[r]] = "spend" /\ doing[r] = "incr"
      /\ Metered(r) /\ stage[r] = "idle"
      /\ UNCHANGED <<deployed, quota, cost, seen, stage, held>>
  BY PlaceIs DEF SpendUsage, Middlewares, Doing, Fine, Places, permVars, checks
<1>2. quota[r] # None /\ at[r] > 1 /\ LimitOf[quota[r].project] # None
  BY <1>1, PastVerify DEF Metered
<1>3. /\ quota[r].project \in Projects /\ Used(r) \in Nat /\ Units(r) \in Nat \ {0}
      /\ units \in 0..Units(r) /\ (units < Units(r) => Used(r) + Units(r) > OverMax(r))
      /\ OverMax(r) \in Int
  BY <1>1, <1>2, QuotaIs, BilledIs
<1>4. /\ usage' = [usage EXCEPT ![quota[r].project] = Used(r) + Units(r)]
      /\ counted'[r] = Units(r)
      /\ \/ billed'[r] = units /\ Answer(r, units)
         \/ Refuse(r, "endpoint") /\ UNCHANGED <<billed, spending>>
<2>1. \/ /\ counted' = Set(counted, r, Units(r))
         /\ \/ billed' = Set(billed, r, units) /\ Answer(r, units)
            \/ Refuse(r, "endpoint") /\ UNCHANGED <<billed, spending>>
      \/ UNCHANGED usage
  BY DEF SpendUsage, Billed
<2>2. usage' # usage
  BY <1>3 DEF CountUnits, Set, Used, PipelineTypeOK
<2> QED
  BY <2>1, <2>2 DEF CountUnits, Set, PipelineTypeOK
<1> HIDE DEF units
<1>5. Used(r)' = Used(r) + Units(r) /\ OverMax(r)' = OverMax(r)
  BY <1>1, <1>3, <1>4 DEF Used, OverMax, PipelineTypeOK
<1>6. \A p \in Projects : usage'[p] >= usage[p]
<2>1. usage \in [Projects -> Nat]
  BY DEF PipelineTypeOK
<2> QED
  BY <1>3, <1>4, <2>1 DEF Used
<1>7. Units(r)' = Units(r) /\ Metered(r)' = Metered(r)
  BY <1>1 DEF Units, Metered
<1>8. ~Refused(r) /\ Len(deployed.chain) \in Nat /\ billed[r] = 0 /\ ~spending[r]
  BY <1>1, RunningIs, DeploymentIs DEF Running, Fine, Charged
<1>9. CASE \E err \in Errors : /\ Refuse(r, err) /\ UNCHANGED spending
                              /\ \/ billed'[r] = 0
                                 \/ err = "exceeded" /\ billed'[r] = units /\ units < Units(r)
<2>1. PICK err \in Errors : /\ Refuse(r, err) /\ UNCHANGED spending
                            /\ \/ billed'[r] = 0
                               \/ err = "exceeded" /\ billed'[r] = units /\ units < Units(r)
  BY <1>9
<2>2. /\ req' = req /\ outcome'[r] = err /\ Refused(r)' /\ ~Running(r)' /\ ~Served(r)'
      /\ at'[r] = at[r] /\ doing'[r] = doing[r]
  BY <2>1, RefuseIs
<2>3. Before(r)' = Before(r)
  BY <1>1, <2>2, PlaceIs, BeforeGrows
<2>4. Places(r)'
  BY <1>1, <1>8, <2>2 DEF Places, Running
<2>5. Verified(r)'
  BY <1>1, <2>2 DEF Fine, Verified
<2>6. Charged(r)'
  BY <1>1, <1>2, <1>3, <1>4, <1>5, <1>8, <2>1, <2>2 DEF Charged
<2>7. Ensured(r)'
  BY <1>1, <1>5, <1>7, <2>3 DEF Fine, Ensured
<2>8. Permitted(r)'
  BY <2>2 DEF Permitted
<2> QED
  BY <1>6, <2>4, <2>5, <2>6, <2>7, <2>8 DEF Fine
<1>10. CASE Pass(r) /\ billed'[r] = Units(r) /\ spending'[r] = TRUE
<2>1. at'[r] = at[r] + 1 /\ at[r] \in Nat /\ outcome'[r] = None
  BY <1>1, <1>10, PassIs, PlaceIs
<2>2. ~Refused(r)'
  BY <2>1, PipelineAssumption DEF Refused
<2>3. Charged(r)'
  BY <1>1, <1>2, <1>3, <1>4, <1>7, <1>8, <1>10, <2>1, <2>2 DEF Charged
<2>4. Ensured(r)'
  BY <1>1, <1>10, PassedUnseen
<2> QED
  BY <1>1, <1>2, <1>6, <1>10, <2>3, <2>4, HeldStays, PassedIsFine
<1>11. \/ Refuse(r, "endpoint") /\ UNCHANGED <<billed, spending>>
       \/ Refuse(r, "exceeded") /\ UNCHANGED spending /\ billed'[r] = units /\ units < Units(r)
       \/ Pass(r) /\ billed'[r] = Units(r) /\ spending'[r] = TRUE
<2>1. ASSUME Answer(r, units), ~(units < Units(r))
      PROVE  Pass(r) /\ spending'[r] = TRUE /\ units = Units(r)
  BY <1>3, <2>1 DEF Answer, Set, PipelineTypeOK
<2>2. ASSUME Answer(r, units), units < Units(r)
      PROVE  Refuse(r, "exceeded") /\ UNCHANGED spending
<3>1. ~(units >= Units(r))
  BY <1>3, <2>2
<3> QED
  BY <2>2, <3>1 DEF Answer
<2>3. CASE billed'[r] = units /\ Answer(r, units) /\ units < Units(r)
  BY <2>2, <2>3
<2>4. CASE billed'[r] = units /\ Answer(r, units) /\ ~(units < Units(r))
  BY <2>1, <2>4
<2> QED
  BY <1>4, <2>3, <2>4
<1> QED
  BY <1>8, <1>9, <1>10, <1>11 DEF Errors

LEMMA SpendUsageIsFine ==
  ASSUME PipelineTypeOK, PipelineTypeOK', NEW r \in Requests, Fine(r), SpendUsage(r)
  PROVE  Fine(r)' /\ \A p \in Projects : usage'[p] >= usage[p]
<1>1. CASE CountUnits(r)
  BY <1>1, CountedIsFine
<1>2. CASE ~CountUnits(r)
<2>1. /\ Running(r) /\ at[r] <= Len(deployed.chain) /\ stage[r] = "idle"
      /\ UNCHANGED <<deployed, stage>>
  BY PlaceIs DEF SpendUsage, Middlewares, Doing, Fine, Places, permVars, checks
<2>2. Refuse(r, "endpoint") /\ UNCHANGED <<usage, context>>
  BY <1>2 DEF SpendUsage, context
<2>3. Fine(r)'
  BY <2>1, <2>2, RefusedIsFine DEF Errors
<2> QED
  BY <2>2, <2>3 DEF PipelineTypeOK
<1> QED
  BY <1>1, <1>2

(* An INCRBY that is sent again leaves the request where it is. *)
LEMMA SpendAgainIsFine ==
  ASSUME PipelineTypeOK, PipelineTypeOK', NEW r \in Requests, Fine(r), SpendAgain(r)
  PROVE  Fine(r)' /\ \A p \in Projects : usage'[p] >= usage[p]
<1>1. In(r, "spend", "incr") /\ Metered(r)
  BY PlaceIs DEF SpendAgain, Middlewares, Doing, Fine, Places
<1>2. quota[r].project \in Projects /\ Used(r) \in Nat /\ Units(r) \in Nat
  BY <1>1, QuotaIs, UnitsAre DEF Metered
<1>3. \A p \in Projects : usage'[p] >= usage[p]
<2>1. usage \in [Projects -> Nat]
  BY DEF PipelineTypeOK
<2> QED
  BY <1>2, <2>1 DEF SpendAgain, CountUnits, Set, Used
<1>4. /\ UNCHANGED <<deployed, req, at, doing, outcome, quota, cost, seen, counted, billed, spending>>
      /\ UNCHANGED <<stage, held>>
  BY DEF SpendAgain, permVars, checks
<1> QED
  BY <1>3, <1>4, LeftAloneIsFine
-----------------------------------------------------------------------------
(* Every step of every request, and what goes on beside them. *)

(* A request's step is its own: of the others it changes nothing. *)
LEMMA OthersAreAlone ==
  ASSUME PipelineTypeOK, NEW r \in Requests, NEW q \in Requests, q # r, Verified(r), Step(r)
  PROVE  /\ deployed' = deployed
         /\ req'[q] = req[q] /\ at'[q] = at[q] /\ doing'[q] = doing[q]
         /\ outcome'[q] = outcome[q] /\ quota'[q] = quota[q] /\ cost'[q] = cost[q]
         /\ seen'[q] = seen[q] /\ counted'[q] = counted[q] /\ billed'[q] = billed[q]
         /\ repeated'[q] = repeated[q] /\ spending'[q] = spending[q]
         /\ stage'[q] = stage[q] /\ held'[q] = held[q]
<1> DEFINE Moved == req'[q] = req[q] /\ at'[q] = at[q] /\ doing'[q] = doing[q]
                    /\ outcome'[q] = outcome[q]
           Kept == quota'[q] = quota[q] /\ cost'[q] = cost[q] /\ seen'[q] = seen[q]
                   /\ counted'[q] = counted[q] /\ billed'[q] = billed[q]
                   /\ repeated'[q] = repeated[q] /\ spending'[q] = spending[q]
<1>1. /\ \A err : Refuse(r, err) => Moved
      /\ \A step : Continue(r, step) => Moved
      /\ Pass(r) => Moved
  BY DEF Refuse, Continue, Pass, Set, PipelineTypeOK
<1>2. UNCHANGED context => Kept
  BY DEF context
<1>3. Arrive(r) \/ Serve(r) => Moved /\ Kept /\ deployed' = deployed
  BY <1>2 DEF Arrive, Serve, Set, PipelineTypeOK, Shared
<1>4. ASSUME VerifyProject(r)
      PROVE  Moved /\ Kept /\ deployed' = deployed
<2>1. Moved
  BY <1>1, <1>4 DEF VerifyProject
<2>2. UNCHANGED context \/ SetQuota(r, req[r].project, None)
  BY <1>4 DEF VerifyProject
<2>3. SetQuota(r, req[r].project, None) => Kept
  BY DEF SetQuota, Set, PipelineTypeOK
<2> QED
  BY <1>2, <1>4, <2>1, <2>2, <2>3 DEF VerifyProject
<1>5. ASSUME VerifyKey(r)
      PROVE  Moved /\ Kept /\ deployed' = deployed
<2>1. Moved
  BY <1>1, <1>5 DEF VerifyKey
<2>2. UNCHANGED context \/ SetQuota(r, ProjectOf[req[r].key], req[r].key)
  BY <1>5 DEF VerifyKey
<2>3. SetQuota(r, ProjectOf[req[r].key], req[r].key) => Kept
  BY DEF SetQuota, Set, PipelineTypeOK
<2> QED
  BY <1>2, <1>5, <2>1, <2>2, <2>3 DEF VerifyKey, Shared
<1>6. ASSUME VerifyRead(r) \/ VerifyLimit(r) \/ EnsurePermission(r) \/ RateLimit(r) \/ StartSpending(r)
      PROVE  Moved /\ Kept /\ deployed' = deployed
  BY <1>1, <1>2, <1>6 DEF VerifyRead, VerifyLimit, EnsurePermission, RateLimit, StartSpending, Shared
<1>7. ASSUME SetCost(r)
      PROVE  Moved /\ Kept /\ deployed' = deployed
  BY <1>1, <1>7 DEF SetCost, Shared, Set, PipelineTypeOK
<1>8. ASSUME EnsureUsage(r)
      PROVE  Moved /\ Kept /\ deployed' = deployed
<2>1. Moved /\ UNCHANGED <<quota, cost, counted, billed, repeated, spending>> /\ deployed' = deployed
  BY <1>1, <1>8 DEF EnsureUsage, Shared
<2>2. UNCHANGED seen \/ seen' = Set(seen, r, Used(r))
  BY <1>8 DEF EnsureUsage
<2> QED
  BY <2>1, <2>2 DEF Set, PipelineTypeOK
<1>9. ASSUME SpendUsage(r)
      PROVE  Moved /\ Kept /\ deployed' = deployed
<2> DEFINE units == UsageOf(LimitOf[quota[r].project], Units(r), Used(r) + Units(r))
<2>1. /\ UNCHANGED counted \/ counted' = Set(counted, r, Units(r))
      /\ \/ billed' = Set(billed, r, Billed(r, units)) /\ Answer(r, units)
         \/ Refuse(r, "endpoint") /\ UNCHANGED <<billed, spending>>
      /\ UNCHANGED <<deployed, quota, cost, seen, repeated>>
  BY <1>9 DEF SpendUsage
<2> HIDE DEF units
<2>2. Moved
  BY <1>1, <2>1 DEF Answer
<2>3. UNCHANGED spending \/ spending' = Set(spending, r, TRUE)
  BY <2>1 DEF Answer
<2>4. UNCHANGED billed \/ billed' = Set(billed, r, Billed(r, units))
  BY <2>1
<2> QED
  BY <2>1, <2>2, <2>3, <2>4 DEF Set, PipelineTypeOK
<1>10. ASSUME SpendAgain(r)
       PROVE  Moved /\ Kept /\ deployed' = deployed
  BY <1>10 DEF SpendAgain, Set, PipelineTypeOK
<1>11. stage'[q] = stage[q] /\ held'[q] = held[q]
<2>1. stage \in [Requests -> Stages] /\ held \in [Requests -> Perms]
  BY DEF PipelineTypeOK, PermTypeOK
<2>2. CASE UNCHANGED permVars
  BY <2>2 DEF permVars, checks
<2>3. CASE EndCheck(r)
  BY <2>1, <2>3 DEF EndCheck, To
<2>4. CASE \E s \in Subjects : StartCheck(r, s)
  BY <2>1, <2>4 DEF StartCheck, To, Learn
<2> QED
  BY <2>2, <2>3, <2>4, StepAsksPermission
<1> QED
  BY <1>3, <1>4, <1>5, <1>6, <1>7, <1>8, <1>9, <1>10, <1>11 DEF Step

LEMMA StepIsFine ==
  ASSUME PipelineInv, PipelineTypeOK', NEW r \in Requests, Step(r)
  PROVE  Fine(r)' /\ \A p \in Projects : usage'[p] >= usage[p]
<1>0. PipelineTypeOK /\ Fine(r) /\ Verified(r)
  BY DEF PipelineInv, Fine
<1>1. CASE SpendUsage(r)
  BY <1>0, <1>1, SpendUsageIsFine
<1>2. ASSUME usage' = usage
      PROVE  \A p \in Projects : usage'[p] >= usage[p]
  BY <1>0, <1>2 DEF PipelineTypeOK
<1>3. UNCHANGED permVars => stage' = stage /\ held' = held
  BY DEF permVars, checks
<1>4. EndCheck(r) => stage'[r] = "idle" /\ held' = held
  BY <1>0 DEF EndCheck, To, PipelineTypeOK, PermTypeOK
<1>5. CASE Arrive(r)
  BY <1>0, <1>2, <1>5, ArriveIsFine DEF Arrive, Shared
<1>6. CASE Serve(r)
  BY <1>0, <1>2, <1>6, ServeIsFine DEF Serve, Shared
<1>7. CASE VerifyProject(r)
  BY <1>0, <1>2, <1>7, VerifyProjectIsFine DEF VerifyProject
<1>8. CASE VerifyRead(r)
  BY <1>0, <1>2, <1>4, <1>8, VerifyReadIsFine DEF VerifyRead
<1>9. CASE VerifyKey(r)
  BY <1>0, <1>2, <1>9, VerifyKeyIsFine DEF VerifyKey, Shared
<1>10. CASE VerifyLimit(r)
<2>1. stage[r] = "idle"
  BY <1>0, <1>10 DEF VerifyLimit, In, Fine, Places
<2> QED
  BY <1>0, <1>2, <1>3, <1>10, <2>1, VerifyLimitIsFine DEF VerifyLimit, Shared
<1>11. CASE EnsurePermission(r)
  BY <1>0, <1>2, <1>11, EnsurePermissionIsFine DEF EnsurePermission
<1>12. CASE SetCost(r)
  BY <1>0, <1>2, <1>3, <1>12, SetCostIsFine DEF SetCost, Shared
<1>13. CASE RateLimit(r)
  BY <1>0, <1>2, <1>13, RateLimitIsFine DEF RateLimit
<1>14. CASE EnsureUsage(r)
  BY <1>0, <1>2, <1>3, <1>14, EnsureUsageIsFine DEF EnsureUsage, Shared
<1>15. CASE StartSpending(r)
  BY <1>0, <1>2, <1>3, <1>15, StartSpendingIsFine DEF StartSpending, Shared
<1>16. CASE SpendAgain(r)
  BY <1>0, <1>16, SpendAgainIsFine
<1> QED
  BY <1>1, <1>5, <1>6, <1>7, <1>8, <1>9, <1>10, <1>11, <1>12, <1>13, <1>14, <1>15, <1>16 DEF Step

(* In the cache of permissions, a step of the pipeline is one of its own. *)
LEMMA PipelineStepsPermissions ==
  PipelineInv /\ [PipelineNext]_pipeVars => [PermNext]_permVars
<1> SUFFICES ASSUME PipelineInv, [PipelineNext]_pipeVars PROVE [PermNext]_permVars
  OBVIOUS
<1>1. CASE \E r \in Requests : Step(r)
<2>1. PICK r \in Requests : Step(r)
  BY <1>1
<2>2. UNCHANGED permVars \/ EndCheck(r) \/ \E s \in Subjects : StartCheck(r, s)
  BY <2>1, StepAsksPermission DEF PipelineInv, Fine
<2> QED
  BY <2>2 DEF PermNext
<1>2. CASE Background
  BY <1>2 DEF Background, PermNext
<1>3. CASE UNCHANGED pipeVars
  BY <1>3 DEF pipeVars
<1> QED
  BY <1>1, <1>2, <1>3 DEF PipelineNext

LEMMA BackgroundIsFine ==
  ASSUME PipelineInv, PipelineTypeOK', NEW q \in Requests, Background \/ UNCHANGED pipeVars
  PROVE  Fine(q)'
<1>0. PipelineTypeOK /\ Fine(q)
  BY DEF PipelineInv
<1>1. UNCHANGED <<deployed, usage, req, at, doing, outcome, quota, cost, seen, counted, billed, spending>>
  BY DEF Background, pipeVars, context
<1>2. \A p \in Projects : usage'[p] >= usage[p]
  BY <1>0, <1>1 DEF PipelineTypeOK
<1>3. ASSUME stage[q] = "idle"
      PROVE  stage'[q] = "idle" /\ held'[q] = held[q]
<2>1. CASE \E r \in Requests : CheckStep(r)
<3>1. PICK r \in Requests : CheckStep(r)
  BY <2>1
<3>2. r # q
  BY <1>3, <3>1 DEF CheckStep, GetCached, AskServer, ServerSet, ClientSet, CheckFails
<3> QED
  BY <1>0, <1>3, <3>1, <3>2 DEF CheckStep, GetCached, AskServer, ServerSet, ClientSet, CheckFails, To,
       Learn, PipelineTypeOK, PermTypeOK
<2>2. CASE PermTick \/ (\E s \in Subjects, p \in Perms : SetUserPermission(s, p))
  BY <1>3, <2>2 DEF PermTick, SetUserPermission, checks
<2>3. CASE UNCHANGED pipeVars
  BY <1>3, <2>3 DEF pipeVars, permVars, checks
<2> QED
  BY <2>1, <2>2, <2>3 DEF Background
<1> QED
  BY <1>0, <1>1, <1>2, <1>3, LeftAloneIsFine

LEMMA PipelineInitInv == PipelineInit => PipelineInv
<1> SUFFICES ASSUME PipelineInit PROVE PipelineInv
  OBVIOUS
<1>1. PermInv
  BY InitPerm DEF PipelineInit
<1>2. deployed \in Deployments /\ deployed.chain \in Seq(Middlewares)
  BY PipelineAssumption DEF PipelineInit, Deployment
<1>3. 1 \in 1..Len(deployed.chain) + 1
  BY <1>2
<1>4. PipelineTypeOK
  BY <1>1, <1>2, <1>3, PipelineAssumption DEF PipelineInit, PipelineTypeOK, PermInv, Doing
<1>5. ASSUME NEW r \in Requests
      PROVE  Fine(r)
<2>1. /\ req[r] = None /\ at[r] = 1 /\ doing[r] = "enter" /\ quota[r] = None /\ seen[r] = None
      /\ outcome[r] = None /\ billed[r] = 0 /\ spending[r] = FALSE /\ stage[r] = "idle"
  BY DEF PipelineInit, PermInit
<2>2. ~Refused(r) /\ ~Served(r)
  BY <1>4, <2>1, RunningIs
<2> QED
  BY <2>1, <2>2 DEF Fine, Places, Verified, Charged, Ensured, Permitted, Running, ByUser, Metered
<1> QED
  BY <1>1, <1>4, <1>5 DEF PipelineInv

LEMMA PipelineNextInv == PipelineInv /\ [PipelineNext]_pipeVars => PipelineInv'
<1> SUFFICES ASSUME PipelineInv, [PipelineNext]_pipeVars PROVE PipelineInv'
  OBVIOUS
<1>1. PermInv' /\ PermTypeOK'
  BY PipelineStepsPermissions, NextKeepsPerm DEF PipelineInv, PermInv
<1>2. PipelineTypeOK /\ \A q \in Requests : Fine(q)
  BY DEF PipelineInv
<1>3. CASE \E r \in Requests : Step(r)
<2>1. PICK r \in Requests : Step(r)
  BY <1>3
<2>2. PipelineTypeOK'
  BY <1>1, <1>2, <2>1, StepTypes
<2>3. Fine(r)' /\ \A p \in Projects : usage'[p] >= usage[p]
  BY <2>1, <2>2, StepIsFine
<2>4. ASSUME NEW q \in Requests, q # r
      PROVE  Fine(q)'
  BY <1>2, <2>1, <2>2, <2>3, <2>4, OthersAreAlone, LeftAloneIsFine DEF Fine
<2> QED
  BY <1>1, <2>2, <2>3, <2>4 DEF PipelineInv
<1>4. CASE Background \/ UNCHANGED pipeVars
<2>1. PipelineTypeOK'
  BY <1>1, <1>2, <1>4 DEF Background, pipeVars, context, PipelineTypeOK
<2> QED
  BY <1>1, <1>4, <2>1, BackgroundIsFine DEF PipelineInv
<1> QED
  BY <1>3, <1>4 DEF PipelineNext

(* A request is where its chain, its quota and its answers say: the         *)
(* inductive invariant of the middlewares (middleware_quota.go,             *)
(* middleware_permission.go, middleware_usage.go).                          *)
THEOREM PipelineInvCorrect == PipelineSpec => []PipelineInv
  BY PipelineInitInv, PipelineNextInv, PTL DEF PipelineSpec

(* The pipeline's requests, contexts and counters keep their types. *)
THEOREM PipelineTypesCorrect == PipelineSpec => []PipelineTypeOK
<1>1. PipelineInv => PipelineTypeOK
  BY DEF PipelineInv
<1> QED
  BY <1>1, PipelineInvCorrect, PTL

(* The middlewares use CheckPermission as the permission cache expects, so  *)
(* its bound holds for them too (client.go:224).                            *)
THEOREM PipelineUsesPermissions == PipelineSpec => PermSpec
<1>1. PipelineInit => PermInit
  BY DEF PipelineInit
<1> QED
  BY <1>1, PipelineStepsPermissions, PipelineInvCorrect, PTL DEF PipelineSpec, PermSpec

(* So no request is served or refused on a permission that is older than    *)
(* an entry's TTL and one check (FetchPermission, EnsurePermission).        *)
THEOREM RequestsUseFreshPermissions == PipelineSpec => []PermissionFresh
  BY PipelineUsesPermissions, PermissionsAreFresh, PTL

(* Who is served is charged in full (SpendUsage, middleware_usage.go:73). *)
THEOREM ServedAreCharged == PipelineSpec => []ServedIsCharged
<1>1. PipelineInv => ServedIsCharged
<2> SUFFICES ASSUME PipelineInv, NEW r \in Requests
             PROVE  /\ Served(r) /\ "spend" \in Chain /\ Metered(r) =>
                         spending[r] /\ billed[r] = Units(r)
                    /\ spending[r] => quota[r] # None /\ counted[r] = billed[r] /\ billed[r] > 0
  BY DEF ServedIsCharged
<2> QED
  BY DEF PipelineInv, Fine, Places, Charged
<1> QED
  BY <1>1, PipelineInvCorrect, PTL

(* Who is refused is not billed, but for the request that crosses the       *)
(* limit, up to the limit (SpendQuota, client.go:306).                      *)
THEOREM RefusedAreNotBilled == PipelineSpec => []RefusedNotBilled
<1>1. PipelineInv => RefusedNotBilled
  BY DEF PipelineInv, Fine, Charged, RefusedNotBilled
<1> QED
  BY <1>1, PipelineInvCorrect, PTL

(* Whoever acts for a project as its user had the permission each           *)
(* middleware asks for, no longer ago than the bound of the cache           *)
(* (EnsurePermission, middleware_permission.go:12; VerifyQuota).            *)
THEOREM PermissionsAreHonoured == PipelineSpec => []PermissionHonoured
<1>1. PipelineInv => PermissionHonoured
<2> SUFFICES ASSUME PipelineInv, NEW r \in Requests, Served(r), ByUser(r)
             PROVE  /\ "verify" \in Chain => held[r] >= READ
                    /\ "permission" \in Chain /\ deployed.enabled => held[r] >= deployed.least
                    /\ heldAge[r] < PermTTL + MaxCheck
  BY DEF PermissionHonoured
<2>1. PipelineTypeOK /\ Fine(r) /\ PermissionFresh
  BY DEF PipelineInv, PermInv
<2>2. at[r] > Len(deployed.chain) /\ doing[r] = "enter" /\ ~Refused(r)
  BY <2>1 DEF Fine, Places
<2>3. Before(r) = Chain
<3>1. {j \in DOMAIN deployed.chain : j < at[r]} = DOMAIN deployed.chain
  BY <2>1, <2>2, DeploymentIs, PlaceIs
<3> QED
  BY <3>1 DEF Before, Chain
<2> QED
  BY <2>1, <2>2, <2>3 DEF Fine, Permitted, PermissionFresh
<1> QED
  BY <1>1, PipelineInvCorrect, PTL

(* Whoever is refused for its cost found too little left for it. *)
LEMMA ExceededIs ==
  ASSUME PipelineTypeOK, NEW r \in Requests, Fine(r), Step(r), outcome[r] # "exceeded",
         outcome'[r] = "exceeded"
  PROVE  Metered(r) /\ LimitOf[quota[r].project] # None /\ Used(r) + Units(r) > OverMax(r)
<1>1. ASSUME NEW err, Refuse(r, err)
      PROVE  err = "exceeded"
  BY <1>1 DEF Refuse, Set, PipelineTypeOK
<1>2. ASSUME Pass(r) \/ \E step : Continue(r, step)
      PROVE  FALSE
  BY <1>2 DEF Pass, Continue
<1>3. ASSUME NEW m \in Middlewares, NEW d \in Doing, In(r, m, d), m # "verify", Metered(r)
      PROVE  /\ LimitOf[quota[r].project] # None /\ Used(r) \in Nat /\ OverMax(r) \in Int
             /\ Units(r) \in Nat \ {0}
<2>1. LimitOf[quota[r].project] # None /\ quota[r] # None
  BY <1>3, PlaceIs, PastVerify DEF Metered
<2> QED
  BY <1>3, <2>1, QuotaIs, UnitsAre DEF Metered
<1>4. CASE \/ Arrive(r) \/ Serve(r) \/ VerifyProject(r) \/ VerifyRead(r) \/ VerifyKey(r)
           \/ VerifyLimit(r) \/ EnsurePermission(r) \/ SetCost(r) \/ RateLimit(r)
<2>1. CASE Arrive(r) \/ Serve(r)
  BY <2>1 DEF Arrive, Serve, Set, PipelineTypeOK
<2>2. CASE VerifyProject(r)
  BY <1>1, <1>2, <2>2 DEF VerifyProject
<2>3. CASE VerifyRead(r) \/ VerifyLimit(r)
  BY <1>1, <1>2, <2>3 DEF VerifyRead, VerifyLimit
<2>4. CASE VerifyKey(r)
  BY <1>1, <1>2, <2>4 DEF VerifyKey
<2>5. CASE EnsurePermission(r) \/ SetCost(r)
  BY <1>1, <1>2, <2>5 DEF EnsurePermission, SetCost
<2>6. CASE RateLimit(r)
  BY <1>1, <1>2, <2>6 DEF RateLimit
<2> QED
  BY <1>4, <2>1, <2>2, <2>3, <2>4, <2>5, <2>6
<1>5. CASE EnsureUsage(r)
<2>1. In(r, "ensure", "enter") /\ Metered(r) /\ ~EnoughFor(r)
  BY <1>1, <1>2, <1>5 DEF EnsureUsage
<2> QED
  BY <1>3, <2>1 DEF EnoughFor, Middlewares, Doing
<1>6. CASE StartSpending(r)
<2>1. In(r, "spend", "enter") /\ Metered(r) /\ Used(r) >= OverMax(r)
  BY <1>1, <1>2, <1>6 DEF StartSpending
<2> QED
  BY <1>3, <2>1 DEF Middlewares, Doing
<1>7. CASE SpendUsage(r)
<2> DEFINE units == UsageOf(LimitOf[quota[r].project], Units(r), Used(r) + Units(r))
<2>1. In(r, "spend", "incr") /\ Metered(r)
  BY <1>7, PlaceIs DEF SpendUsage, Middlewares, Doing, Fine, Places
<2>2. LimitOf[quota[r].project] # None
  BY <1>3, <2>1 DEF Middlewares, Doing
<2>3. units < Units(r) => Used(r) + Units(r) > OverMax(r)
  BY <2>1, <2>2, BilledIs
<2>4. Answer(r, units) \/ Refuse(r, "endpoint")
  BY <1>7 DEF SpendUsage
<2> HIDE DEF units
<2>5. Answer(r, units)
  BY <1>1, <2>4
<2>6. units < Units(r)
  BY <1>2, <2>5 DEF Answer
<2> QED
  BY <2>1, <2>2, <2>3, <2>6
<1>8. CASE SpendAgain(r)
  BY <1>8 DEF SpendAgain
<1> QED
  BY <1>4, <1>5, <1>6, <1>7, <1>8 DEF Step

(* EnsureUsage and then SpendUsage cut a request short only when others     *)
(* have spent in between (middleware_usage.go:60), or when its own INCRBY   *)
(* was sent more than once.                                                 *)
THEOREM CutsAreByOthers == PipelineSpec => CutOnlyByOthers
<1> DEFINE Cut(r) == seen[r] # None /\ repeated[r] = 0 /\ ~Refused(r) /\ outcome'[r] = "exceeded"
                       => Used(r) > seen[r]
           A == \A r \in Requests : Cut(r)
<1>1. PipelineInv /\ [PipelineNext]_pipeVars => [A]_pipeVars
<2> SUFFICES ASSUME PipelineInv, PipelineNext, NEW r \in Requests, seen[r] # None, ~Refused(r),
                    outcome'[r] = "exceeded"
             PROVE  Used(r) > seen[r]
  OBVIOUS
<2>1. PipelineTypeOK /\ Fine(r) /\ Verified(r)
  BY DEF PipelineInv, Fine
<2>2. outcome[r] # "exceeded"
  BY DEF Refused, Errors
<2>3. Step(r)
<3>1. CASE Background
  BY <2>2, <3>1 DEF Background
<3>2. ASSUME NEW q \in Requests, Step(q), q # r
      PROVE  FALSE
  BY <2>1, <2>2, <3>2, OthersAreAlone DEF PipelineInv, Fine
<3> QED
  BY <3>1, <3>2 DEF PipelineNext
<2>4. Metered(r) /\ seen[r] + Units(r) <= OverMax(r)
  BY <2>1 DEF Fine, Ensured
<2>5. /\ LimitOf[quota[r].project] # None /\ Used(r) + Units(r) > OverMax(r)
  BY <2>1, <2>2, <2>3, ExceededIs
<2>6. Used(r) \in Nat /\ Units(r) \in Nat /\ OverMax(r) \in Int /\ seen[r] \in Nat
  BY <2>1, <2>4, <2>5, QuotaIs, UnitsAre DEF Metered, PipelineTypeOK
<2> QED
  BY <2>4, <2>5, <2>6
<1>2. CutOnlyByOthers <=> [][A]_pipeVars
  BY PTL DEF CutOnlyByOthers
<1> QED
  BY <1>1, <1>2, PipelineInvCorrect, PTL DEF PipelineSpec

-----------------------------------------------------------------------------
(* What each request adds to the sums of OwnProject. *)

Counts(r, p) == IF Own(r, p) THEN counted[r] + repeated[r] ELSE 0
Limited(r, p) == IF Own(r, p) /\ "rate" \in Before(r) THEN Weight(r) ELSE 0

(* The quota of a request is its owner's, and it counts at its end only. *)
Attributed(r) ==
  /\ req[r] = None => at[r] = 1 /\ counted[r] = 0 /\ repeated[r] = 0
  /\ at[r] <= Len(deployed.chain) /\ ~Refused(r) => counted[r] = 0
  /\ quota[r] # None => req[r] # None /\ Owner(req[r]) = quota[r].project

(* One request moves a counter by what it adds to the sum, and a rate limit *)
(* by no more.                                                              *)
Booked(r) ==
  \A p \in Projects :
    /\ usage'[p] = usage[p] + (Counts(r, p)' - Counts(r, p))
    /\ rate'[p] <= rate[p] + (Limited(r, p)' - Limited(r, p))

(* Only the session of a project has one (server_test.go 617-628). *)
ProjectSessions ==
  \A d \in Deployments : \A kind \in d.gets : kind.project # None => kind.session = "project"

LEMMA WeightIs ==
  ASSUME PipelineTypeOK, NEW r \in Requests, NEW p \in Projects
  PROVE  /\ Weight(r) \in Nat /\ Counts(r, p) \in Nat /\ Limited(r, p) \in Nat
         /\ usage[p] \in Nat /\ rate[p] \in Nat
  BY DEF PipelineTypeOK, Weight, Counts, Limited, Buckets

(* A step that neither counts nor passes the rate limiter. *)
LEMMA NothingBooked ==
  ASSUME PipelineTypeOK, NEW r \in Requests, req'[r] = req[r], deployed' = deployed,
         UNCHANGED <<usage, rate>>, counted'[r] = counted[r], repeated'[r] = repeated[r],
         Weight(r)' = Weight(r) \/ "rate" \notin Before(r),
         \/ at'[r] = at[r]
         \/ at'[r] = at[r] + 1 /\ at[r] \in DOMAIN deployed.chain /\ deployed.chain[at[r]] # "rate"
  PROVE  Booked(r)
<1>1. "rate" \in Before(r)' <=> "rate" \in Before(r)
  BY BeforeGrows, PlaceIs
<1>2. ASSUME NEW p \in Projects
      PROVE  Counts(r, p)' = Counts(r, p) /\ Limited(r, p)' = Limited(r, p)
  BY <1>1 DEF Counts, Limited, Own
<1>3. ASSUME NEW p \in Projects
      PROVE  /\ usage'[p] = usage[p] + (Counts(r, p)' - Counts(r, p))
             /\ rate'[p] <= rate[p] + (Limited(r, p)' - Limited(r, p))
<2>1. /\ Counts(r, p) \in Nat /\ Limited(r, p) \in Nat
      /\ usage[p] \in Nat /\ rate[p] \in Nat
  BY WeightIs
<2> QED
  BY <1>2, <2>1
<1> QED
  BY <1>3 DEF Booked

(* A request that goes on, is passed on or refused with the quota it has. *)
LEMMA StaysAttributed ==
  ASSUME PipelineTypeOK, NEW r \in Requests, Running(r), Attributed(r), deployed' = deployed,
         at[r] <= Len(deployed.chain), counted'[r] = counted[r], quota'[r] = quota[r],
         \/ Pass(r)
         \/ \E err \in Errors : Refuse(r, err)
         \/ \E step \in Doing : Continue(r, step)
  PROVE  Attributed(r)' /\ req'[r] = req[r]
         /\ (at'[r] = at[r] \/ (at'[r] = at[r] + 1 /\ Pass(r)))
<1>1. req'[r] = req[r] /\ (at'[r] = at[r] \/ (at'[r] = at[r] + 1 /\ Pass(r)))
<2>1. CASE Pass(r)
  BY <2>1, PassIs
<2>2. CASE \E err \in Errors : Refuse(r, err)
  BY <2>2, RefuseIs
<2>3. CASE \E step \in Doing : Continue(r, step)
  BY <2>3, ContinueIs
<2> QED
  BY <2>1, <2>2, <2>3
<1>2. counted[r] = 0 /\ req[r] # None
  BY RunningIs DEF Attributed, Running
<1> QED
  BY <1>1, <1>2 DEF Attributed

LEMMA PassingBooks ==
  ASSUME PipelineTypeOK, NEW r \in Requests, Attributed(r),
         \/ VerifyRead(r) \/ VerifyLimit(r) \/ EnsurePermission(r) \/ EnsureUsage(r)
         \/ StartSpending(r)
  PROVE  Attributed(r)' /\ Booked(r)
<1>1. PICK m \in {"verify", "permission", "ensure", "spend"}, d \in Doing : In(r, m, d)
  BY DEF VerifyRead, VerifyLimit, EnsurePermission, EnsureUsage, StartSpending, Doing
<1>2. /\ Running(r) /\ at[r] \in DOMAIN deployed.chain /\ at[r] <= Len(deployed.chain)
      /\ deployed.chain[at[r]] # "rate"
  BY <1>1, PlaceIs DEF Middlewares
<1>3. \/ Pass(r)
      \/ \E err \in Errors : Refuse(r, err)
      \/ \E step \in Doing : Continue(r, step)
  BY DEF VerifyRead, VerifyLimit, EnsurePermission, EnsureUsage, StartSpending, Errors, Doing
<1>4. UNCHANGED <<deployed, usage, rate, counted, repeated, cost, quota>>
  BY DEF VerifyRead, VerifyLimit, EnsurePermission, EnsureUsage, StartSpending, Shared, context
<1>5. Attributed(r)' /\ req'[r] = req[r]
      /\ (at'[r] = at[r] \/ (at'[r] = at[r] + 1 /\ Pass(r)))
  BY <1>2, <1>3, <1>4, StaysAttributed
<1>6. Weight(r)' = Weight(r)
  BY <1>4 DEF Weight
<1> QED
  BY <1>2, <1>4, <1>5, <1>6, NothingBooked

(* VerifyQuota takes the quota of the session's project, then the key's. *)
LEMMA VerifyBooks ==
  ASSUME PipelineTypeOK, NEW r \in Requests, Attributed(r), VerifyProject(r) \/ VerifyKey(r)
  PROVE  Attributed(r)' /\ Booked(r)
<1>1. PICK d \in Doing : In(r, "verify", d)
  BY DEF VerifyProject, VerifyKey, Doing
<1>2. Running(r) /\ at[r] <= Len(deployed.chain)
  BY <1>1, PlaceIs DEF Middlewares
<1>3. \/ \E err \in Errors : Refuse(r, err)
      \/ \E step \in Doing : Continue(r, step)
  BY DEF VerifyProject, VerifyKey, Errors, Doing
<1>4. UNCHANGED <<deployed, usage, rate, counted, repeated, cost>>
  BY DEF VerifyProject, VerifyKey, SetQuota, Shared, context
<1>5. req'[r] = req[r] /\ at'[r] = at[r]
  BY <1>2, <1>3, RefuseIs, ContinueIs
<1>6. counted[r] = 0 /\ req[r] # None
  BY <1>2, RunningIs DEF Attributed, Running
<1>7. quota'[r] # None => Owner(req[r]) = quota'[r].project
<2>1. CASE UNCHANGED context
  BY <2>1 DEF context, Attributed
<2>2. CASE req[r].session = "project" /\ SetQuota(r, req[r].project, None)
  BY <2>2 DEF SetQuota, Set, Owner, PipelineTypeOK
<2>3. CASE req[r].key # None /\ KeyOfProject(r) /\ SetQuota(r, ProjectOf[req[r].key], req[r].key)
  BY <2>3 DEF SetQuota, Set, Owner, KeyOfProject, PipelineTypeOK
<2> QED
  BY <2>1, <2>2, <2>3 DEF VerifyProject, VerifyKey
<1>8. Attributed(r)'
  BY <1>4, <1>5, <1>6, <1>7 DEF Attributed
<1>9. Weight(r)' = Weight(r)
  BY <1>4 DEF Weight
<1> QED
  BY <1>4, <1>5, <1>8, <1>9, NothingBooked

LEMMA ArriveBooks ==
  ASSUME PipelineTypeOK, NEW r \in Requests, Attributed(r), Arrive(r) \/ Serve(r)
  PROVE  Attributed(r)' /\ Booked(r)
<1>1. UNCHANGED <<deployed, usage, rate, counted, repeated, cost, quota, at>>
  BY DEF Arrive, Serve, Shared, context
<1>2. CASE Serve(r)
<2>1. Running(r) /\ req'[r] = req[r] /\ at[r] > Len(deployed.chain)
  BY <1>2 DEF Serve
<2>2. Weight(r)' = Weight(r)
  BY <1>1 DEF Weight
<2>3. ~(at[r] <= Len(deployed.chain))
  BY <2>1, PlaceIs, DeploymentIs
<2> QED
  BY <1>1, <2>1, <2>2, <2>3, NothingBooked DEF Attributed
<1>3. CASE Arrive(r)
<2>1. req[r] = None /\ at[r] = 1 /\ counted[r] = 0 /\ repeated[r] = 0 /\ quota[r] = None
  BY <1>3 DEF Arrive, Attributed
<2>2. Attributed(r)'
  BY <1>1, <2>1 DEF Attributed
<2>3. "rate" \notin Before(r) /\ "rate" \notin Before(r)'
  BY <1>1, <2>1, DeploymentIs DEF Before
<2>4. ASSUME NEW p \in Projects
      PROVE  /\ Counts(r, p) = 0 /\ Counts(r, p)' = 0 /\ Limited(r, p) = 0 /\ Limited(r, p)' = 0
  BY <1>1, <2>1, <2>3 DEF Counts, Limited
<2>5. ASSUME NEW p \in Projects
      PROVE  /\ usage'[p] = usage[p] + (Counts(r, p)' - Counts(r, p))
             /\ rate'[p] <= rate[p] + (Limited(r, p)' - Limited(r, p))
  BY <1>1, <2>4, WeightIs
<2> QED
  BY <2>2, <2>5 DEF Booked
<1> QED
  BY <1>2, <1>3

(* The cost is set before the rate limiter looks at it (InOrder). *)
LEMMA SetCostBooks ==
  ASSUME PipelineTypeOK, NEW r \in Requests, Attributed(r), SetCost(r)
  PROVE  Attributed(r)' /\ Booked(r)
<1>1. /\ Running(r) /\ at[r] \in DOMAIN deployed.chain /\ at[r] <= Len(deployed.chain)
      /\ deployed.chain[at[r]] = "cost"
  BY PlaceIs DEF SetCost, Middlewares, Doing
<1>2. UNCHANGED <<deployed, usage, rate, counted, repeated, quota>> /\ Pass(r)
  BY DEF SetCost, Shared
<1>3. "rate" \notin Before(r)
  BY <1>1, DeploymentIs DEF Before, InOrder
<1>4. Attributed(r)' /\ req'[r] = req[r]
      /\ (at'[r] = at[r] \/ (at'[r] = at[r] + 1 /\ Pass(r)))
  BY <1>1, <1>2, StaysAttributed
<1> QED
  BY <1>1, <1>2, <1>3, <1>4, NothingBooked

LEMMA BucketIsOwn ==
  ASSUME PipelineTypeOK, ProjectSessions, NEW r \in Requests, Running(r), Attributed(r),
         BucketOf(r) \in Projects
  PROVE  Own(r, BucketOf(r))
<1>1. /\ req[r] # None /\ req[r] \in deployed.gets /\ deployed \in Deployments
      /\ req[r].user \in Users \cup {None}
  BY RequestIs DEF Running, PipelineTypeOK
<1>2. req[r].project # None => req[r].session = "project"
  BY <1>1 DEF ProjectSessions
<1>3. "service" \notin Projects /\ "public" \notin Projects /\ Projects \cap Users = {}
  BY PipelineAssumption
<1>4. CASE req[r].project # None
<2>1. BucketOf(r) = req[r].project /\ Owner(req[r]) = req[r].project
  BY <1>2, <1>4 DEF BucketOf, Owner
<2> QED
  BY <1>1, <2>1 DEF Own
<1>5. CASE req[r].project = None
<2>1. req[r].session # "service"
  BY <1>3 DEF BucketOf
<2>2. CASE quota[r] # None
  BY <1>1, <1>5, <2>1, <2>2 DEF BucketOf, Own, Attributed
<2>3. CASE quota[r] = None
<3>1. BucketOf(r) = IF req[r].user # None THEN req[r].user ELSE "public"
  BY <1>5, <2>1, <2>3 DEF BucketOf
<3> QED
  BY <1>1, <1>3, <3>1
<2> QED
  BY <2>2, <2>3
<1> QED
  BY <1>4, <1>5

(* The limiter counts in the bucket of the request's own project, once. *)
LEMMA RateLimitBooks ==
  ASSUME PipelineTypeOK, PipelineTypeOK', ProjectSessions, NEW r \in Requests, Attributed(r),
         RateLimit(r)
  PROVE  Attributed(r)' /\ Booked(r)
<1>1. /\ Running(r) /\ at[r] \in DOMAIN deployed.chain /\ at[r] <= Len(deployed.chain)
      /\ deployed.chain[at[r]] = "rate"
  BY PlaceIs DEF RateLimit, Middlewares, Doing
<1>2. UNCHANGED <<deployed, usage, counted, repeated, quota, cost>>
  BY DEF RateLimit, context
<1>3. Pass(r) \/ \E err \in Errors : Refuse(r, err)
  BY DEF RateLimit, Errors
<1>4. Attributed(r)' /\ req'[r] = req[r]
      /\ (at'[r] = at[r] \/ (at'[r] = at[r] + 1 /\ Pass(r)))
  BY <1>1, <1>2, <1>3, StaysAttributed
<1>5. "rate" \notin Before(r)
  BY <1>1, DeploymentIs DEF Before, InOrder
<1>6. Weight(r)' = Weight(r) /\ Weight(r) \in Nat
  BY <1>2 DEF Weight, PipelineTypeOK
<1>7. ASSUME NEW p \in Projects
      PROVE  Limited(r, p) = 0 /\ Counts(r, p)' = Counts(r, p)
  BY <1>2, <1>4, <1>5 DEF Limited, Counts, Own
<1>8. ASSUME NEW p \in Projects
      PROVE  rate'[p] <= rate[p] + Limited(r, p)'
<2>1. rate[p] \in Nat /\ Limited(r, p)' \in Nat
  BY <1>6, WeightIs DEF Limited
<2>2. CASE UNCHANGED rate
  BY <2>1, <2>2
<2>3. CASE Pass(r) /\ rate' = Set(rate, BucketOf(r), rate[BucketOf(r)] + Weight(r))
<3>1. rate \in [Buckets -> Nat] /\ BucketOf(r) \in Buckets
  BY <1>1, BucketIs DEF PipelineTypeOK
<3>2. CASE p # BucketOf(r)
  BY <2>1, <2>3, <3>1, <3>2 DEF Set, Buckets
<3>3. CASE p = BucketOf(r)
<4>1. rate'[p] = rate[p] + Weight(r)
  BY <2>3, <3>1, <3>3 DEF Set
<4>2. Own(r, p)' /\ "rate" \in Before(r)'
<5>1. Own(r, p)
  BY <1>1, <3>3, BucketIsOwn
<5>2. at'[r] = at[r] + 1
  BY <1>1, <2>3, PassIs
<5> QED
  BY <1>1, <1>2, <1>4, <5>1, <5>2, BeforeGrows, PlaceIs DEF Own
<4>3. Limited(r, p)' = Weight(r)
  BY <1>6, <4>2 DEF Limited
<4> QED
  BY <1>6, <2>1, <4>1, <4>3
<3> QED
  BY <3>2, <3>3
<2> QED
  BY <2>2, <2>3 DEF RateLimit, Weight
<1>9. ASSUME NEW p \in Projects
      PROVE  /\ usage'[p] = usage[p] + (Counts(r, p)' - Counts(r, p))
             /\ rate'[p] <= rate[p] + (Limited(r, p)' - Limited(r, p))
<2>1. /\ usage[p] \in Nat /\ Counts(r, p) \in Nat /\ rate[p] \in Nat /\ Limited(r, p)' \in Nat
  BY <1>6, WeightIs DEF Limited
<2> QED
  BY <1>2, <1>7, <1>8, <2>1
<1> QED
  BY <1>4, <1>9 DEF Booked

(* SpendUsage adds to the counter of the quota's project, the owner's. *)
LEMMA CountedBooks ==
  ASSUME PipelineTypeOK, PipelineTypeOK', NEW r \in Requests, Places(r), Attributed(r),
         SpendUsage(r), CountUnits(r), counted' = Set(counted, r, Units(r))
  PROVE  Attributed(r)' /\ Booked(r)
<1>1. /\ Running(r) /\ at[r] \in DOMAIN deployed.chain /\ at[r] = Len(deployed.chain)
      /\ deployed.chain[at[r]] = "spend" /\ doing[r] = "incr"
  BY PlaceIs DEF SpendUsage, Middlewares, Doing
<1>2. /\ UNCHANGED <<deployed, rate, quota, cost, repeated>>
      /\ usage' = Set(usage, quota[r].project, Used(r) + Units(r))
      /\ counted' = Set(counted, r, Units(r))
  BY DEF SpendUsage, CountUnits
<1>3. Pass(r) \/ \E err \in Errors : Refuse(r, err)
  BY DEF SpendUsage, Answer, Errors
<1>4. req'[r] = req[r] /\ ((at'[r] = at[r] /\ Refused(r)') \/ (at'[r] = at[r] + 1 /\ Pass(r)))
<2>1. CASE Pass(r)
  BY <1>1, <2>1, PassIs
<2>2. CASE \E err \in Errors : Refuse(r, err)
  BY <2>2, RefuseIs
<2> QED
  BY <1>3, <2>1, <2>2
<1>5. counted[r] = 0 /\ req[r] # None
  BY <1>1, RunningIs, PlaceIs, DeploymentIs DEF Attributed, Running
<1>6. quota[r] # None
  BY <1>1 DEF Places, Metered
<1>7. Owner(req[r]) = quota[r].project /\ quota[r].project \in Projects
  BY <1>6, QuotaIs DEF Attributed
<1>8. Attributed(r)'
  BY <1>1, <1>2, <1>4, <1>5, <1>6, <1>7, DeploymentIs DEF Attributed
<1>9. /\ Units(r) \in Nat /\ usage \in [Projects -> Nat] /\ counted'[r] = Units(r)
      /\ repeated[r] \in Nat
  BY <1>2, UnitsAre DEF PipelineTypeOK, Set
<1>10. ASSUME NEW p \in Projects
       PROVE  usage'[p] = usage[p] + (Counts(r, p)' - Counts(r, p))
<2>1. Own(r, p) <=> p = quota[r].project
  BY <1>5, <1>7 DEF Own
<2>2. Own(r, p)' <=> Own(r, p)
  BY <1>4 DEF Own
<2>3. CASE p = quota[r].project
  BY <1>2, <1>5, <1>9, <2>1, <2>2, <2>3 DEF Counts, Set, Used
<2>4. CASE p # quota[r].project
  BY <1>2, <1>9, <2>1, <2>2, <2>4 DEF Counts, Set
<2> QED
  BY <2>3, <2>4
<1>11. "rate" \in Before(r)' <=> "rate" \in Before(r)
  BY <1>1, <1>2, <1>4, BeforeGrows, PlaceIs
<1>12. ASSUME NEW p \in Projects
       PROVE  rate'[p] <= rate[p] + (Limited(r, p)' - Limited(r, p))
<2>1. Limited(r, p)' = Limited(r, p)
  BY <1>2, <1>4, <1>11 DEF Limited, Own, Weight
<2>2. rate[p] \in Nat /\ Limited(r, p) \in Nat
  BY WeightIs
<2> QED
  BY <1>2, <2>1, <2>2
<1> QED
  BY <1>8, <1>10, <1>12 DEF Booked

LEMMA SpendUsageBooks ==
  ASSUME PipelineTypeOK, PipelineTypeOK', NEW r \in Requests, Places(r), Attributed(r),
         SpendUsage(r)
  PROVE  Attributed(r)' /\ Booked(r)
<1>1. CASE CountUnits(r) /\ counted' = Set(counted, r, Units(r))
  BY <1>1, CountedBooks
<1>2. CASE ~(CountUnits(r) /\ counted' = Set(counted, r, Units(r)))
<2>1. Running(r) /\ at[r] <= Len(deployed.chain)
  BY PlaceIs DEF SpendUsage, Middlewares, Doing
<2>2. /\ UNCHANGED <<deployed, usage, rate, quota, cost, counted, repeated>>
      /\ \E err \in Errors : Refuse(r, err)
  BY <1>2 DEF SpendUsage, Errors
<2>3. Attributed(r)' /\ req'[r] = req[r] /\ at'[r] = at[r]
  BY <2>1, <2>2, StaysAttributed, RefuseIs
<2>4. Weight(r)' = Weight(r)
  BY <2>2 DEF Weight
<2> QED
  BY <2>2, <2>3, <2>4, NothingBooked
<1> QED
  BY <1>1, <1>2

(* So does its INCRBY when it is sent again. *)
LEMMA SpendAgainBooks ==
  ASSUME PipelineTypeOK, NEW r \in Requests, Places(r), Attributed(r), SpendAgain(r)
  PROVE  Attributed(r)' /\ Booked(r)
<1>1. Running(r) /\ Metered(r) /\ doing[r] = "incr"
  BY PlaceIs DEF SpendAgain, In, Places
<1>2. /\ UNCHANGED <<deployed, rate, quota, cost, counted, req, at, outcome>>
      /\ usage' = Set(usage, quota[r].project, Used(r) + Units(r))
      /\ repeated' = Set(repeated, r, repeated[r] + Units(r))
  BY DEF SpendAgain, CountUnits
<1>3. quota[r] # None /\ req[r] # None
  BY <1>1 DEF Metered, Running
<1>4. Owner(req[r]) = quota[r].project /\ quota[r].project \in Projects
  BY <1>3, QuotaIs DEF Attributed
<1>5. Attributed(r)'
  BY <1>2, <1>3 DEF Attributed, Refused
<1>6. /\ Units(r) \in Nat /\ usage \in [Projects -> Nat]
      /\ repeated'[r] = repeated[r] + Units(r) /\ repeated[r] \in Nat /\ counted[r] \in Nat
  BY <1>2, UnitsAre DEF PipelineTypeOK, Set
<1>7. ASSUME NEW p \in Projects
      PROVE  /\ usage'[p] = usage[p] + (Counts(r, p)' - Counts(r, p))
             /\ rate'[p] <= rate[p] + (Limited(r, p)' - Limited(r, p))
<2>1. (Own(r, p) <=> p = quota[r].project) /\ (Own(r, p)' <=> Own(r, p))
  BY <1>2, <1>3, <1>4 DEF Own
<2>2. usage'[p] = usage[p] + (Counts(r, p)' - Counts(r, p))
<3>1. CASE p = quota[r].project
  BY <1>2, <1>6, <2>1, <3>1 DEF Counts, Set, Used
<3>2. CASE p # quota[r].project
  BY <1>2, <1>6, <2>1, <3>2 DEF Counts, Set
<3> QED
  BY <3>1, <3>2
<2>3. Limited(r, p)' = Limited(r, p)
  BY <1>2, <2>1 DEF Limited, Before, Weight
<2>4. rate[p] \in Nat /\ Limited(r, p) \in Nat
  BY WeightIs
<2> QED
  BY <1>2, <2>2, <2>3, <2>4
<1> QED
  BY <1>5, <1>7 DEF Booked

LEMMA StepBooks ==
  ASSUME PipelineTypeOK, PipelineTypeOK', ProjectSessions, NEW r \in Requests, Places(r),
         Attributed(r), Step(r)
  PROVE  Attributed(r)' /\ Booked(r)
  BY ArriveBooks, PassingBooks, VerifyBooks, SetCostBooks, RateLimitBooks, SpendUsageBooks,
     SpendAgainBooks DEF Step

(* The sums over all requests. *)
Balanced ==
  \A p \in Projects :
    /\ usage[p] = InitialUsage + SumFunction([r \in Requests |-> Counts(r, p)])
    /\ rate[p] <= SumFunction([r \in Requests |-> Limited(r, p)])

LEMMA StepBalances ==
  ASSUME IsFiniteSet(Requests), PipelineInv, PipelineTypeOK', Balanced, NEW r \in Requests, Booked(r), Step(r)
  PROVE  Balanced'
<1> SUFFICES ASSUME NEW p \in Projects
             PROVE  /\ usage'[p] = InitialUsage + SumFunction([q \in Requests |-> Counts(q, p)'])
                    /\ rate'[p] <= SumFunction([q \in Requests |-> Limited(q, p)'])
  BY DEF Balanced
<1> DEFINE c == [q \in Requests |-> Counts(q, p)]
           cc == [q \in Requests |-> Counts(q, p)']
           l == [q \in Requests |-> Limited(q, p)]
           ll == [q \in Requests |-> Limited(q, p)']
<1>1. \A q \in Requests : /\ Counts(q, p) \in Nat /\ Limited(q, p) \in Nat
                          /\ Counts(q, p)' \in Nat /\ Limited(q, p)' \in Nat
<2>1. \A q \in Requests : Counts(q, p) \in Nat /\ Limited(q, p) \in Nat
  BY WeightIs DEF PipelineInv
<2>2. \A q \in Requests : Weight(q)' \in Nat /\ counted'[q] \in Nat /\ repeated'[q] \in Nat
  BY DEF PipelineTypeOK, Weight
<2> QED
  BY <2>1, <2>2 DEF Counts, Limited
<1>2. ASSUME NEW q \in Requests, q # r
      PROVE  Counts(q, p)' = Counts(q, p) /\ Limited(q, p)' = Limited(q, p)
  BY <1>2, OthersAreAlone DEF PipelineInv, Fine, Counts, Limited, Own, Weight, Before
<1>3. /\ c \in [Requests -> Int] /\ cc \in [Requests -> Int]
      /\ l \in [Requests -> Int] /\ ll \in [Requests -> Int]
      /\ \A q \in Requests : q # r => cc[q] = c[q] /\ ll[q] = l[q]
      /\ c[r] = Counts(r, p) /\ cc[r] = Counts(r, p)' /\ l[r] = Limited(r, p) /\ ll[r] = Limited(r, p)'
  BY <1>1, <1>2
<1>4. usage[p] = InitialUsage + SumFunction(c) /\ rate[p] <= SumFunction(l)
  BY DEF Balanced
<1>5. /\ usage'[p] = usage[p] + (Counts(r, p)' - Counts(r, p))
      /\ rate'[p] <= rate[p] + (Limited(r, p)' - Limited(r, p))
  BY DEF Booked
<1>6. usage[p] \in Nat /\ rate[p] \in Nat /\ rate'[p] \in Nat /\ InitialUsage \in Nat
  BY PipelineAssumption DEF PipelineInv, PipelineTypeOK, Buckets
<1> HIDE DEF c, cc, l, ll
<1>7. /\ SumFunction(cc) = SumFunction(c) + (cc[r] - c[r])
      /\ SumFunction(ll) = SumFunction(l) + (ll[r] - l[r])
      /\ SumFunction(c) \in Int /\ SumFunction(l) \in Int
  BY <1>3, SumChanges, SumOfInts
<1>8. /\ usage'[p] = InitialUsage + SumFunction(cc)
      /\ rate'[p] <= SumFunction(ll)
<2>1. c[r] \in Int /\ cc[r] \in Int /\ l[r] \in Int /\ ll[r] \in Int
  BY <1>3
<2> QED
  BY <1>3, <1>4, <1>5, <1>6, <1>7, <2>1
<1> QED
  BY <1>8 DEF cc, ll

(* A project's counter and rate limit move for its own requests only        *)
(* (VerifyQuota, middleware_quota.go 68-101; RateLimit,                     *)
(* middleware_ratelimit.go 67-82).                                          *)
THEOREM RequestsPayForTheirOwn ==
  ASSUME IsFiniteSet(Requests), ProjectSessions
  PROVE  PipelineSpec => []OwnProject
<1> DEFINE I == (\A r \in Requests : Attributed(r)) /\ Balanced
<1>1. PipelineInit => I
<2> SUFFICES ASSUME PipelineInit PROVE I
  OBVIOUS
<2>1. PipelineTypeOK
  BY PipelineInitInv DEF PipelineInv
<2>2. \A r \in Requests : /\ req[r] = None /\ at[r] = 1 /\ counted[r] = 0 /\ quota[r] = None
                          /\ repeated[r] = 0 /\ Attributed(r)
  BY DEF PipelineInit, Attributed
<2>3. ASSUME NEW p \in Projects
      PROVE  /\ usage[p] = InitialUsage + SumFunction([r \in Requests |-> Counts(r, p)])
             /\ rate[p] <= SumFunction([r \in Requests |-> Limited(r, p)])
<3> DEFINE c == [r \in Requests |-> Counts(r, p)]
           l == [r \in Requests |-> Limited(r, p)]
<3>1. /\ c \in [Requests -> Int] /\ \A r \in Requests : c[r] = 0
      /\ l \in [Requests -> Int] /\ \A r \in Requests : l[r] = 0
  BY <2>2 DEF Counts, Limited, Own
<3>2. usage[p] = InitialUsage /\ rate[p] = 0 /\ InitialUsage \in Nat
  BY PipelineAssumption DEF PipelineInit, Buckets
<3> HIDE DEF c, l
<3>3. SumFunction(c) = 0 /\ SumFunction(l) = 0
  BY <3>1, SumOfNothing
<3>4. usage[p] = InitialUsage + SumFunction(c) /\ rate[p] <= SumFunction(l)
  BY <3>2, <3>3
<3> QED
  BY <3>4 DEF c, l
<2> QED
  BY <2>2, <2>3 DEF Balanced
<1>2. PipelineInv /\ PipelineInv' /\ I /\ [PipelineNext]_pipeVars => I'
<2> SUFFICES ASSUME PipelineInv, PipelineInv', I, [PipelineNext]_pipeVars PROVE I'
  OBVIOUS
<2>1. CASE \E r \in Requests : Step(r)
<3>1. PICK r \in Requests : Step(r)
  BY <2>1
<3>2. PipelineTypeOK /\ PipelineTypeOK' /\ Fine(r) /\ Places(r) /\ Verified(r)
  BY DEF PipelineInv, Fine
<3>3. Attributed(r)' /\ Booked(r)
  BY <3>1, <3>2, StepBooks
<3>4. ASSUME NEW q \in Requests, q # r
      PROVE  Attributed(q)'
  BY <3>1, <3>2, <3>4, OthersAreAlone DEF Attributed, Refused
<3>5. Balanced'
  BY <3>1, <3>2, <3>3, StepBalances
<3> QED
  BY <3>3, <3>4, <3>5
<2>2. CASE Background \/ UNCHANGED pipeVars
<3>1. UNCHANGED <<deployed, usage, rate, req, at, outcome, quota, cost, counted, repeated>>
  BY <2>2 DEF Background, pipeVars, context
<3>2. \A r \in Requests : Attributed(r)'
  BY <3>1 DEF Attributed, Refused
<3>3. Balanced'
  BY <3>1 DEF Balanced, Counts, Limited, Own, Before, Weight
<3> QED
  BY <3>2, <3>3
<2> QED
  BY <2>1, <2>2 DEF PipelineNext
<1>3. PipelineInv /\ I => OwnProject
<2> SUFFICES ASSUME PipelineInv, Balanced, NEW p \in Projects
             PROVE  /\ usage[p] = InitialUsage + SumFunction([r \in Requests |-> Counts(r, p)])
                    /\ rate[p] <= SumFunction([r \in Requests |-> IF Own(r, p) THEN Weight(r) ELSE 0])
  BY DEF OwnProject, Counts
<2> DEFINE l == [r \in Requests |-> Limited(r, p)]
           w == [r \in Requests |-> IF Own(r, p) THEN Weight(r) ELSE 0]
<2>1. \A r \in Requests : Weight(r) \in Nat
  BY WeightIs DEF PipelineInv
<2>2. l \in [Requests -> Int] /\ w \in [Requests -> Int] /\ \A r \in Requests : l[r] <= w[r]
  BY <2>1 DEF Limited
<2>3. rate[p] <= SumFunction(l) /\ rate[p] \in Nat
<3>1. rate[p] \in Nat
  BY DEF PipelineInv, PipelineTypeOK, Buckets
<3> QED
  BY <3>1 DEF Balanced
<2> HIDE DEF l, w
<2>4. SumFunction(l) <= SumFunction(w) /\ SumFunction(l) \in Int /\ SumFunction(w) \in Int
  BY <2>2, SumGrows, SumOfInts
<2>5. rate[p] <= SumFunction(w)
  BY <2>3, <2>4
<2> QED
  BY <2>5 DEF Balanced, w
<1>4. PipelineSpec => []I
<2> HIDE DEF I
<2> QED
  BY <1>1, <1>2, PipelineInvCorrect, PTL DEF PipelineSpec
<1> QED
  BY <1>3, <1>4, PipelineInvCorrect, PTL
=============================================================================
