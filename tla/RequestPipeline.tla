-------------------------- MODULE RequestPipeline --------------------------
(***************************************************************************)
(* A request on its way through the middlewares of a service to its         *)
(* handler.  A middleware refuses it, or passes it on with what it has put  *)
(* in the context.  Requests run concurrently and share the permission      *)
(* cache (module PermissionCache), the usage counters and the rate limiter. *)
(* The quota of a key or a project does not change here (module QuotaCache) *)
(* and its usage counter is in place and kept (CounterKept of SpendQuota).  *)
(***************************************************************************)
EXTENDS PermissionCache, SpendLimits, Sequences, FiniteSetsExt

CONSTANTS
  Projects, Keys,
  ProjectOf,    \* the project of each key, part of the key itself
  BadKeys,      \* unknown, inactive, or not for this origin or service
  ChainsOf,     \* the chains each project is restricted to, if any
  LimitOf,      \* the service limit of each project, None if it has none
  RateOf,       \* requests a minute of each project, and of each other bucket
  Users,        \* accounts
  DefaultUsage, \* of the client's configuration
  InitialUsage, \* of each project
  Deployments,  \* a chain of middlewares and the requests it gets, see Deployment
  Failures,     \* some of "quota" (FetchKeyQuota, FetchProjectQuota answer
                \* nothing), "usage" (the usage cache fails) and "resend"
                \* (the answer to an INCRBY is lost and it is sent again)
  Resends,      \* how often the redis client sends it again
  None

Sessions == {"public", "account", "key", "project", "admin", "service"}
Kind == [session : Sessions, project : Projects \cup {None}, user : Users \cup {None},
         key : Keys \cup {None}, chains : SUBSET Int, cost : Nat \cup {None}]
Middlewares == {"verify", "permission", "cost", "rate", "ensure", "spend"}
READ == 1
Deployment == [chain : Seq(Middlewares), enabled : BOOLEAN, least : READ..Top,
               baseCost : Nat, gets : SUBSET Kind]

Buckets == Projects \cup Users \cup {"public", "service"}
Errors == {"unauthorized", "invalid_chain", "mismatch", "bad_key", "invalid_service",
           "rate_limited", "quota_rate", "exceeded", "endpoint"}

(* As server_test.go mounts them (87-91, 369-371, 451-453): VerifyQuota     *)
(* before the others, the cost before it is looked at, one rate limit,      *)
(* SpendUsage last.                                                         *)
InOrder(chain) ==
  \A i, j \in DOMAIN chain :
    i < j => /\ chain[j] # "verify" /\ chain[i] # "spend"
             /\ chain[i] \in {"ensure", "rate"} => chain[j] # "cost"
             /\ chain[i] = "rate" => chain[j] # "rate"

(* The permission store is asked about subjects only. *)
KnownSubject(kind) ==
  kind.session = "project" /\ kind.project # None /\ kind.user # None =>
    <<kind.project, kind.user>> \in Subjects

ASSUME PipelineAssumption ==
  /\ ProjectOf \in [Keys -> Projects] /\ BadKeys \subseteq Keys
  /\ \A p \in Projects : LimitOf[p] # None => ValidLimit(LimitOf[p])
  /\ DOMAIN RateOf = Buckets
  /\ Projects \cap (Users \cup {"public", "service"}) = {}
  /\ DefaultUsage \in Nat /\ InitialUsage \in Nat /\ Resends \in Nat
  /\ Subjects \subseteq Projects \X Users
  /\ Deployments \subseteq Deployment
  /\ \A d \in Deployments : InOrder(d.chain) /\ \A kind \in d.gets : KnownSubject(kind)
  /\ None \notin Errors \cup {"served"}

VARIABLES
  deployed,     \* the deployment of this behaviour
  usage,        \* the usage counter of each project
  rate,         \* the rate counter of each bucket, for the minute at hand
  req,          \* the request, None before it arrives
  at,           \* the middleware it has come to
  doing,        \* and where in it
  quota,        \* the project and the key of its quota, None if it has none
  cost,         \* the cost in its context, None if not set
  seen,         \* the usage EnsureUsage told it
  counted,      \* the units its INCRBY has added to the counter
  billed,       \* those that went to the tracker
  repeated,     \* the units of its INCRBYs that were sent again: nobody's
  spending,     \* HasSpending
  outcome       \* how it ended

context == <<quota, cost, seen, counted, billed, repeated, spending>>
pipeVars == <<deployed, usage, rate, req, at, doing, context, outcome, permVars>>

Quota == [project : Projects, key : Keys \cup {None}]
Doing == {"enter", "check", "key", "admit", "incr"}
PipelineTypeOK ==
  /\ PermTypeOK
  /\ deployed \in Deployments
  /\ usage \in [Projects -> Nat] /\ rate \in [Buckets -> Nat]
  /\ req \in [Requests -> deployed.gets \cup {None}]
  /\ at \in [Requests -> 1..Len(deployed.chain) + 1]
  /\ doing \in [Requests -> Doing]
  /\ quota \in [Requests -> Quota \cup {None}]
  /\ cost \in [Requests -> Nat \cup {None}] /\ seen \in [Requests -> Nat \cup {None}]
  /\ counted \in [Requests -> Nat] /\ billed \in [Requests -> Nat]
  /\ repeated \in [Requests -> Nat]
  /\ spending \in [Requests -> BOOLEAN]
  /\ outcome \in [Requests -> Errors \cup {"served", None}]

PipelineInit ==
  /\ PermInit
  /\ deployed \in Deployments
  /\ usage = [p \in Projects |-> InitialUsage] /\ rate = [b \in Buckets |-> 0]
  /\ req = [r \in Requests |-> None] /\ at = [r \in Requests |-> 1]
  /\ doing = [r \in Requests |-> "enter"]
  /\ quota = [r \in Requests |-> None] /\ cost = [r \in Requests |-> None]
  /\ seen = [r \in Requests |-> None]
  /\ counted = [r \in Requests |-> 0] /\ billed = [r \in Requests |-> 0]
  /\ repeated = [r \in Requests |-> 0]
  /\ spending = [r \in Requests |-> FALSE]
  /\ outcome = [r \in Requests |-> None]

-----------------------------------------------------------------------------
Set(f, r, v) == [f EXCEPT ![r] = v]
Shared == <<deployed, usage, rate, permVars>>

Running(r) == req[r] # None /\ outcome[r] = None
In(r, middleware, step) ==
  /\ Running(r) /\ at[r] <= Len(deployed.chain)
  /\ deployed.chain[at[r]] = middleware /\ doing[r] = step

Refuse(r, err) == outcome' = Set(outcome, r, err) /\ UNCHANGED <<req, at, doing>>
Pass(r) ==
  /\ at' = Set(at, r, at[r] + 1) /\ doing' = Set(doing, r, "enter")
  /\ UNCHANGED <<req, outcome>>
Continue(r, step) == doing' = Set(doing, r, step) /\ UNCHANGED <<req, at, outcome>>

Arrive(r) ==
  /\ req[r] = None
  /\ \E kind \in deployed.gets : req' = Set(req, r, kind)
  /\ UNCHANGED <<at, doing, outcome, context, Shared>>

(* The handler of the service. *)
Serve(r) ==
  /\ Running(r) /\ at[r] > Len(deployed.chain)
  /\ outcome' = Set(outcome, r, "served")
  /\ UNCHANGED <<req, at, doing, context, Shared>>

-----------------------------------------------------------------------------
(* VerifyQuota. *)

ValidateChains(p, r) == ChainsOf[p] = {} \/ req[r].chains \subseteq ChainsOf[p]

SetQuota(r, p, k) ==
  /\ quota' = Set(quota, r, [project |-> p, key |-> k])
  /\ UNCHANGED <<cost, seen, counted, billed, repeated, spending>>

(* A project's session: its quota, and who may act for it. *)
VerifyProject(r) ==
  /\ In(r, "verify", "enter")
  /\ LET p == req[r].project
     IN \/ req[r].session # "project" /\ Continue(r, "key") /\ UNCHANGED <<context, permVars>>
        \/ /\ req[r].session = "project" /\ p = None
           /\ Refuse(r, "unauthorized") /\ UNCHANGED <<context, permVars>>
        \/ /\ req[r].session = "project" /\ p # None /\ "quota" \in Failures
           /\ Continue(r, "key") /\ UNCHANGED <<context, permVars>>
        \/ /\ req[r].session = "project" /\ p # None
           /\ \/ /\ ~ValidateChains(p, r)
                 /\ Refuse(r, "invalid_chain") /\ UNCHANGED <<context, permVars>>
              \/ /\ ValidateChains(p, r) /\ req[r].user # None
                 /\ SetQuota(r, p, None)
                 /\ Continue(r, "check") /\ StartCheck(r, <<p, req[r].user>>)
              \/ /\ ValidateChains(p, r) /\ req[r].user = None /\ req[r].key # None
                 /\ SetQuota(r, p, None) /\ Continue(r, "key") /\ UNCHANGED permVars
              \/ /\ ValidateChains(p, r) /\ req[r].user = None /\ req[r].key = None
                 /\ Refuse(r, "unauthorized") /\ UNCHANGED <<context, permVars>>
  /\ UNCHANGED <<deployed, usage, rate>>

VerifyRead(r) ==
  /\ In(r, "verify", "check")
  /\ EndCheck(r)
  /\ \/ Granted(r, READ) /\ Continue(r, "key")
     \/ stage[r] = "decided" /\ ~Granted(r, READ) /\ Refuse(r, "unauthorized")
     \/ stage[r] = "failed" /\ Refuse(r, "endpoint")
  /\ UNCHANGED <<deployed, usage, rate, context>>

KeyNotChecked(r) == TRUE                              \* mutant
KeyOfProject(r) == req[r].session = "project" => ProjectOf[req[r].key] = req[r].project

(* The access key, alone or in another session; its quota replaces that of  *)
(* the session's project.                                                   *)
VerifyKey(r) ==
  /\ In(r, "verify", "key")
  /\ LET k == req[r].key
     IN \/ /\ k = None /\ UNCHANGED context
           /\ \/ req[r].session = "key" /\ Refuse(r, "unauthorized")
              \/ req[r].session # "key" /\ Continue(r, "admit")
        \/ /\ k # None
           /\ \/ ~KeyOfProject(r) /\ Refuse(r, "mismatch") /\ UNCHANGED context
              \/ /\ KeyOfProject(r) /\ "quota" \in Failures
                 /\ Continue(r, "admit") /\ UNCHANGED context
              \/ /\ KeyOfProject(r)
                 /\ \/ ~ValidateChains(ProjectOf[k], r) /\ Refuse(r, "invalid_chain")
                    \/ ValidateChains(ProjectOf[k], r) /\ k \in BadKeys /\ Refuse(r, "bad_key")
                 /\ UNCHANGED context
              \/ /\ KeyOfProject(r) /\ ValidateChains(ProjectOf[k], r) /\ k \notin BadKeys
                 /\ IF quota[r] # None /\ quota[r].project # ProjectOf[k]
                      THEN Refuse(r, "mismatch") /\ UNCHANGED context
                      ELSE SetQuota(r, ProjectOf[k], k) /\ Continue(r, "admit")
  /\ UNCHANGED Shared

VerifyLimit(r) ==
  /\ In(r, "verify", "admit")
  /\ \/ quota[r] = None /\ Pass(r)
     \/ /\ quota[r] # None
        /\ \/ LimitOf[quota[r].project] = None /\ Refuse(r, "invalid_service")
           \/ LimitOf[quota[r].project] # None /\ Pass(r)
  /\ UNCHANGED <<context, Shared>>

(* IsJWT: the quota is the project's own, not one of its keys'. *)
ByUser(r) == quota[r] # None /\ quota[r].key = None /\ req[r].user # None

(* EnsurePermission: for the session of a project, not for its keys; the    *)
(* store knows no permission of a session without an account.               *)
EnsurePermission(r) ==
  /\ \/ /\ In(r, "permission", "enter")
        /\ \/ ~deployed.enabled /\ Pass(r) /\ UNCHANGED permVars
           \/ /\ deployed.enabled
              /\ \/ /\ ~ByUser(r)
                    /\ Refuse(r, "unauthorized") /\ UNCHANGED permVars
                 \/ /\ ByUser(r)
                    /\ Continue(r, "check")
                    /\ StartCheck(r, <<quota[r].project, req[r].user>>)
     \/ /\ In(r, "permission", "check")
        /\ EndCheck(r)
        /\ \/ Granted(r, deployed.least) /\ Pass(r)
           \/ ~Granted(r, deployed.least) /\ Refuse(r, "unauthorized")
  /\ UNCHANGED <<deployed, usage, rate, context>>

-----------------------------------------------------------------------------
(* The cost of the request and the rate limit. *)

AtLeastOne(n) == IF n < 1 THEN 1 ELSE n

SetCost(r) ==
  /\ In(r, "cost", "enter")
  /\ cost' = Set(cost, r, IF req[r].cost = None THEN AtLeastOne(deployed.baseCost)
                          ELSE req[r].cost)
  /\ Pass(r)
  /\ UNCHANGED <<quota, seen, counted, billed, repeated, spending, Shared>>

BucketOf(r) ==
  CASE req[r].session = "service" -> "service"
    [] req[r].session # "service" /\ req[r].project # None -> req[r].project
    [] req[r].session # "service" /\ req[r].project = None /\ quota[r] # None -> quota[r].project
    [] req[r].session # "service" /\ req[r].project = None /\ quota[r] = None ->
         IF req[r].user # None THEN req[r].user ELSE "public"

(* The limit is not chosen as the bucket is: a session whose project's      *)
(* quota could not be fetched has the limit of its account.                 *)
GetRateLimit(r) ==
  AtLeastOne(deployed.baseCost) *
    (CASE req[r].session = "service" -> RateOf["service"]
       [] req[r].session # "service" /\ quota[r] # None -> RateOf[quota[r].project]
       [] req[r].session # "service" /\ quota[r] = None ->
            RateOf[IF req[r].user # None THEN req[r].user ELSE "public"])

(* The limiter of a process checks and counts under a mutex. *)
RateLimit(r) ==
  /\ In(r, "rate", "enter")
  /\ LET bucket == BucketOf(r)
         increment == IF cost[r] = None THEN 1 ELSE cost[r]
     IN \/ /\ GetRateLimit(r) <= 0 \/ cost[r] = 0
           /\ Pass(r) /\ UNCHANGED rate
        \/ /\ GetRateLimit(r) > 0 /\ increment > 0
           /\ \/ /\ rate[bucket] + increment <= GetRateLimit(r)
                 /\ rate' = Set(rate, bucket, rate[bucket] + increment)
                 /\ Pass(r)
              \/ /\ rate[bucket] + increment > GetRateLimit(r)
                 /\ Refuse(r, IF quota[r] # None THEN "quota_rate" ELSE "rate_limited")
                 /\ UNCHANGED rate
  /\ UNCHANGED <<deployed, usage, context, permVars>>

-----------------------------------------------------------------------------
(* EnsureUsage and SpendUsage. *)

Units(r) == IF cost[r] = None THEN DefaultUsage ELSE cost[r]
Metered(r) == deployed.enabled /\ quota[r] # None /\ Units(r) # 0

OverMax(r) == LimitOf[quota[r].project].OverMax
Used(r) == usage[quota[r].project]

EnoughForOne(r) == Used(r) < OverMax(r)               \* mutant: the cost not looked at
EnoughFor(r) == Used(r) + Units(r) <= OverMax(r)

EnsureUsage(r) ==
  /\ In(r, "ensure", "enter")
  /\ \/ ~Metered(r) /\ Pass(r) /\ UNCHANGED seen
     \/ /\ Metered(r)
        /\ \/ "usage" \in Failures /\ Refuse(r, "endpoint") /\ UNCHANGED seen
           \/ ~EnoughFor(r) /\ Refuse(r, "exceeded") /\ UNCHANGED seen
           \/ EnoughFor(r) /\ Pass(r) /\ seen' = Set(seen, r, Used(r))
  /\ UNCHANGED <<quota, cost, counted, billed, repeated, spending, Shared>>

(* SpendQuota looks at the counter, *)
StartSpending(r) ==
  /\ In(r, "spend", "enter")
  /\ \/ ~Metered(r) /\ Pass(r)
     \/ /\ Metered(r)
        /\ \/ "usage" \in Failures /\ Refuse(r, "endpoint")
           \/ Used(r) >= OverMax(r) /\ Refuse(r, "exceeded")
           \/ Used(r) < OverMax(r) /\ Continue(r, "incr")
  /\ UNCHANGED <<context, Shared>>

CutIsPassed(r, units) ==                              \* mutant: the error not looked at again
  Pass(r) /\ spending' = Set(spending, r, units = Units(r))
Answer(r, units) ==
  \/ units < Units(r) /\ Refuse(r, "exceeded") /\ UNCHANGED spending
  \/ units >= Units(r) /\ Pass(r) /\ spending' = Set(spending, r, TRUE)

BilledInFull(r, units) == Units(r)                    \* mutant
Billed(r, units) == units

CountUnits(r) ==
  usage' = Set(usage, quota[r].project, Used(r) + Units(r))

(* and then adds to it, as far as it knows: what lies within the hard limit *)
(* is billed, even when the request is refused for the rest.  The call may  *)
(* fail, its INCRBY done or not.                                            *)
SpendUsage(r) ==
  /\ In(r, "spend", "incr")
  /\ \/ /\ CountUnits(r)
        /\ counted' = Set(counted, r, Units(r))
        /\ LET units == UsageOf(LimitOf[quota[r].project], Units(r), Used(r) + Units(r))
           IN \/ billed' = Set(billed, r, Billed(r, units)) /\ Answer(r, units)
              \/ /\ "usage" \in Failures
                 /\ Refuse(r, "endpoint") /\ UNCHANGED <<billed, spending>>
     \/ /\ "usage" \in Failures
        /\ Refuse(r, "endpoint") /\ UNCHANGED <<usage, counted, billed, spending>>
  /\ UNCHANGED <<deployed, rate, quota, cost, seen, repeated, permVars>>

(* Its INCRBY is done, the answer is lost, and the redis client sends it    *)
(* again; others may spend in between.                                      *)
SpendAgain(r) ==
  /\ "resend" \in Failures
  /\ In(r, "spend", "incr")
  /\ repeated[r] < Resends * Units(r)
  /\ CountUnits(r)
  /\ repeated' = Set(repeated, r, repeated[r] + Units(r))
  /\ UNCHANGED <<req, at, doing, outcome, deployed, rate, permVars>>
  /\ UNCHANGED <<quota, cost, seen, counted, billed, spending>>

-----------------------------------------------------------------------------
Step(r) ==
  \/ Arrive(r) \/ Serve(r)
  \/ VerifyProject(r) \/ VerifyRead(r) \/ VerifyKey(r) \/ VerifyLimit(r)
  \/ EnsurePermission(r) \/ SetCost(r) \/ RateLimit(r)
  \/ EnsureUsage(r) \/ StartSpending(r) \/ SpendUsage(r) \/ SpendAgain(r)

(* Checks go on, time passes and permissions change beside the requests. *)
Background ==
  /\ \/ \E r \in Requests : CheckStep(r)
     \/ \E s \in Subjects, p \in Perms : SetUserPermission(s, p)
     \/ PermTick
  /\ UNCHANGED <<deployed, usage, rate, req, at, doing, context, outcome>>

PipelineNext == (\E r \in Requests : Step(r)) \/ Background
PipelineSpec == PipelineInit /\ [][PipelineNext]_pipeVars

-----------------------------------------------------------------------------
(* Properties. *)

Chain == {deployed.chain[i] : i \in DOMAIN deployed.chain}
Served(r) == outcome[r] = "served"
Refused(r) == outcome[r] \in Errors

(* A request reaches the handler of a service that spends usage only if all *)
(* its units are counted and billed, and HasSpending says so, unless it has *)
(* no quota or no cost (middleware_usage.go 73-131).  What is billed is what*)
(* the last INCRBY counted, not those that were repeated.                   *)
ServedIsCharged ==
  \A r \in Requests :
    /\ Served(r) /\ "spend" \in Chain /\ Metered(r) =>
         spending[r] /\ billed[r] = Units(r)
    /\ spending[r] => quota[r] # None /\ counted[r] = billed[r] /\ billed[r] > 0

(* A refused request is not billed, whichever middleware refuses it and     *)
(* however long the others took, except for the units up to the hard limit  *)
(* when it is the one that crosses it (client.go 306-316).                  *)
RefusedNotBilled ==
  \A r \in Requests :
    Refused(r) /\ billed[r] > 0 =>
      outcome[r] = "exceeded" /\ billed[r] < counted[r] /\ Used(r) > OverMax(r)

Owner(kind) == IF kind.session = "project" THEN kind.project
               ELSE IF kind.key # None THEN ProjectOf[kind.key] ELSE None
Own(r, p) == req[r] # None /\ Owner(req[r]) = p
Weight(r) == IF cost[r] = None THEN 1 ELSE cost[r]

(* What a request uses is charged to the project of its session or of its   *)
(* key, and its counter and its rate limit never move for anybody else, an  *)
(* INCRBY that is repeated included.                                        *)
OwnProject ==
  \A p \in Projects :
    /\ usage[p] = InitialUsage
                    + SumFunction([r \in Requests |-> IF Own(r, p) THEN counted[r] + repeated[r] ELSE 0])
    /\ rate[p] <= SumFunction([r \in Requests |-> IF Own(r, p) THEN Weight(r) ELSE 0])

(* EnsureUsage before SpendUsage cuts no request short on its own: unless   *)
(* its INCRBY was sent twice, it is refused only when others have spent     *)
(* between the two (middleware_usage.go:60).                                *)
CutOnlyByOthers ==
  [][\A r \in Requests :
       seen[r] # None /\ repeated[r] = 0 /\ ~Refused(r) /\ outcome'[r] = "exceeded"
         => Used(r) > seen[r]]_pipeVars

(* A user is let through for a project only with a permission that the      *)
(* store gave in this or in a recent check, the one each middleware on the  *)
(* way asks for (middleware_permission.go 12-42, middleware_quota.go 51-60).*)
PermissionHonoured ==
  \A r \in Requests :
    Served(r) /\ ByUser(r) =>
      /\ "verify" \in Chain => held[r] >= READ
      /\ "permission" \in Chain /\ deployed.enabled => held[r] >= deployed.least
      /\ heldAge[r] < PermTTL + MaxCheck
=============================================================================
