-------------------------- MODULE PermissionCache --------------------------
(***************************************************************************)
(* The permission of a user in a project: CheckPermission asks redis, then  *)
(* the server, and both ends write what the store said to redis, where it   *)
(* is kept for ten seconds.  Only a permission is kept, not its absence.    *)
(* The age of a permission is the number of ticks it has been different     *)
(* from the store without a break.                                          *)
(***************************************************************************)
EXTENDS Integers

CONSTANTS
  Requests,     \* goroutines of the clients
  Subjects,     \* users of projects
  Top,          \* the highest permission; 0 is UNAUTHORIZED
  PermTTL,      \* ten seconds, in ticks
  MaxCheck,     \* assumed: ticks a check takes at most (the code has no timeout)
  PermFaults    \* which of "redis", "rpc" and "store" fail

ASSUME PermissionAssumption ==
  Top \in Nat /\ PermTTL \in Nat \ {0} /\ MaxCheck \in Nat

VARIABLES
  perm,         \* the permission store
  cached,       \* redis: the entry of each subject
  stage,        \* of the check of each request
  subject,      \* whom it is about
  held,         \* the permission it has
  heldAge,
  waited        \* ticks since it started

checks == <<stage, subject, held, heldAge, waited>>
permVars == <<perm, cached, checks>>

Perms == 0..Top
NoEntry == [perm |-> 0, ttl |-> 0, age |-> 0]
Stages == {"idle", "get", "ask", "set", "learn", "decided", "failed"}

PermTypeOK ==
  /\ perm \in [Subjects -> Perms]
  /\ cached \in [Subjects -> [perm : Perms, ttl : 0..PermTTL, age : Nat]]
  /\ stage \in [Requests -> Stages]
  /\ subject \in [Requests -> Subjects]
  /\ held \in [Requests -> Perms]
  /\ heldAge \in [Requests -> Nat] /\ waited \in [Requests -> Nat]

PermInit ==
  /\ perm \in [Subjects -> Perms]
  /\ cached = [s \in Subjects |-> NoEntry]
  /\ stage = [r \in Requests |-> "idle"]
  /\ subject \in [Requests -> Subjects]
  /\ held = [r \in Requests |-> 0]
  /\ heldAge = [r \in Requests |-> 0]
  /\ waited = [r \in Requests |-> 0]

-----------------------------------------------------------------------------
To(r, s) == stage' = [stage EXCEPT ![r] = s]
Learn(r, p, age) ==
  held' = [held EXCEPT ![r] = p] /\ heldAge' = [heldAge EXCEPT ![r] = age]

StartCheck(r, s) ==
  /\ stage[r] = "idle"
  /\ To(r, "get") /\ Learn(r, 0, 0)
  /\ subject' = [subject EXCEPT ![r] = s]
  /\ waited' = [waited EXCEPT ![r] = 0]
  /\ UNCHANGED <<perm, cached>>

CachedAgain(r) == "learn"                             \* mutant: a hit is written as well
AfterHit(r) == "decided"

(* RedisCache.GetUserPermission: no entry reads as UNAUTHORIZED, and a      *)
(* failure as no entry.                                                     *)
GetCached(r) ==
  /\ stage[r] = "get"
  /\ LET entry == cached[subject[r]]
     IN \/ entry.perm # 0 /\ To(r, AfterHit(r)) /\ Learn(r, entry.perm, entry.age)
        \/ /\ entry.perm = 0 \/ "redis" \in PermFaults
           /\ To(r, "ask") /\ UNCHANGED <<held, heldAge>>
  /\ UNCHANGED <<perm, cached, subject, waited>>

(* The server's GetUserPermission. *)
AskServer(r) ==
  /\ stage[r] = "ask"
  /\ LET p == perm[subject[r]]
     IN To(r, IF p = 0 THEN "learn" ELSE "set") /\ Learn(r, p, 0)
  /\ UNCHANGED <<perm, cached, subject, waited>>

ConfigTTL(r) == PermTTL + 1                           \* mutant: the TTL of the config
EntryTTL(r) == PermTTL

(* SetUserPermission; an error is only logged. *)
SetCached(r) ==
  \/ cached' = [cached EXCEPT ![subject[r]] =
                  [perm |-> held[r], ttl |-> EntryTTL(r), age |-> heldAge[r]]]
  \/ "redis" \in PermFaults /\ UNCHANGED cached

ServerSet(r) ==
  /\ stage[r] = "set"
  /\ SetCached(r) /\ To(r, "learn")
  /\ UNCHANGED <<perm, subject, held, heldAge, waited>>

(* The answer reaches the client. *)
ClientSet(r) ==
  /\ stage[r] = "learn"
  /\ \/ held[r] = 0 /\ UNCHANGED cached
     \/ held[r] # 0 /\ SetCached(r)
  /\ To(r, "decided")
  /\ UNCHANGED <<perm, subject, held, heldAge, waited>>

CheckFails(r) ==
  /\ \/ "store" \in PermFaults /\ stage[r] = "ask"
     \/ "rpc" \in PermFaults /\ stage[r] \in {"ask", "set", "learn"}
  /\ To(r, "failed")
  /\ UNCHANGED <<perm, cached, subject, held, heldAge, waited>>

CheckStep(r) ==
  GetCached(r) \/ AskServer(r) \/ ServerSet(r) \/ ClientSet(r) \/ CheckFails(r)

Waiting(r) == stage[r] \in {"get", "ask", "set", "learn"}
GrantedToAny(r, least) == stage[r] = "decided" /\ held[r] # 0   \* mutant
Granted(r, least) == stage[r] = "decided" /\ held[r] >= least

(* The middleware that asked has taken the answer. *)
EndCheck(r) ==
  /\ stage[r] \in {"decided", "failed"}
  /\ To(r, "idle")
  /\ UNCHANGED <<perm, cached, subject, held, heldAge, waited>>

SetUserPermission(s, p) ==
  /\ perm' = [perm EXCEPT ![s] = p]
  /\ UNCHANGED <<cached, checks>>

Older(s, p, age) == IF p # perm[s] THEN age + 1 ELSE 0

PermTick ==
  /\ \A r \in Requests : Waiting(r) => waited[r] < MaxCheck
  /\ waited' = [r \in Requests |-> IF Waiting(r) THEN waited[r] + 1 ELSE waited[r]]
  /\ heldAge' = [r \in Requests |->
       IF Waiting(r) /\ held[r] # 0 THEN Older(subject[r], held[r], heldAge[r]) ELSE heldAge[r]]
  /\ cached' = [s \in Subjects |->
       LET e == cached[s]
       IN IF e.ttl <= 1 THEN NoEntry
          ELSE [perm |-> e.perm, ttl |-> e.ttl - 1, age |-> Older(s, e.perm, e.age)]]
  /\ UNCHANGED <<perm, stage, subject, held>>

PermNext ==
  \/ \E r \in Requests : CheckStep(r) \/ EndCheck(r) \/ \E s \in Subjects : StartCheck(r, s)
  \/ \E s \in Subjects, p \in Perms : SetUserPermission(s, p)
  \/ PermTick

PermSpec == PermInit /\ [][PermNext]_permVars

-----------------------------------------------------------------------------
(* A permission that has been taken away or changed is acted on no longer   *)
(* than the TTL of its entry and one check: an answer read before may be    *)
(* written after, by the server and again by the client (server.go:534,     *)
(* client.go:261), but a hit renews nothing.                                *)
PermissionFresh ==
  /\ \A s \in Subjects : cached[s].age + cached[s].ttl <= PermTTL + MaxCheck
  /\ \A r \in Requests : heldAge[r] < PermTTL + MaxCheck
=============================================================================
