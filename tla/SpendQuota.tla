----------------------------- MODULE SpendQuota -----------------------------
(***************************************************************************)
(* Spending from one usage counter: the redis key of one project, service   *)
(* and cycle.  Clients run SpendQuota and FetchUsage, goroutines of the     *)
(* server run GetProjectStatus and PrepareUsage.  They share the key and    *)
(* the usage store; every redis command and every RPC is a step.            *)
(***************************************************************************)
EXTENDS SpendLimits, UsageLedger, FiniteSets

CONSTANTS
  Clients,      \* goroutines that serve requests, each with its share of a tracker
  Servers,      \* goroutines of the quota server
  Limits,       \* the limits a (possibly stale) access quota may carry
  Costs,        \* the compute units a request may cost
  Absent,       \* no such key in redis
  Faults,       \* what the environment does, see FaultKinds
  Resends,      \* how often the redis client sends a command again (three times)
  MaxSpends     \* bound: spend requests in a behaviour

FaultKinds == {"expire",    \* the usage key reaches its TTL
               "slow",      \* populating the key outlasts the TTL of the mark
               "clear",     \* an operator calls ClearUsage
               "prepare",   \* PrepareUsage is called by who holds no mark
               "crash",     \* a process dies, its tracker with it
               "rpc",       \* a call to the server fails
               "redis",     \* a redis command fails, done or not; a SETNX or an
                            \* INCRBY is sent again because its answer is lost
               "refill"}    \* the SET of SetUsage is sent again for that reason

Procs == Clients \cup Servers
SpecialValue == -1      \* the mark of a key that is being populated
Attempts == 3           \* of EnsureUsage

ASSUME ConstantsAssumption ==
  /\ Clients \cap Servers = {}
  /\ Clients # {}
  /\ Limits # {} /\ \A l \in Limits : ValidLimit(l)
  /\ Costs # {} /\ Costs \subseteq Nat \ {0}
  /\ Absent \notin Int
  /\ Faults \subseteq FaultKinds
  /\ Resends \in Nat /\ MaxSpends \in Nat

(* Nothing removes or overwrites a counter that has been populated. *)
CounterKept == Faults \cap {"expire", "slow", "clear", "prepare", "refill"} = {}

VARIABLES
  counter,      \* the usage key: Absent, SpecialValue or the units given out
  expiry,       \* its TTL: "short" (2 s), "long" (the configured one) or "never"
  pc,           \* the command each process is at
  req,          \* the request it serves
  attempt,      \* failed rounds of EnsureUsage
  total,        \* the usage it last learned
  resent,       \* how often the redis client has sent its command again
  reply,        \* the answer given in the last step of a process, if any
  spends,       \* spend requests started
  sold,         \* history: the units charged to accepted or cut spends
  notified      \* history: how often each event was notified

cache == <<counter, expiry>>
procs == <<pc, req, attempt, total, resent, reply>>
history == <<sold, notified>>
vars == <<ledger, cache, procs, spends, history>>

NoRequest == [op |-> "none"]
SpendRequests == [op : {"spend"}, cost : Costs, limit : Limits]
Requests == {NoRequest} \cup [op : {"fetch", "status", "prepare"}] \cup SpendRequests

Labels == {"idle", "peek", "claim", "wait", "fetch", "fill", "recheck", "reclaim",
           "incr", "charge"}
Errors == {"none", "nothing", "exceeded", "timeout", "wait", "ready", "rpc", "redis"}
NoReply == [to |-> {}]
Replies == {NoReply} \cup [to : {{p} : p \in Procs}, err : Errors, total : Int]

ProcTypeOK ==
  /\ pc \in [Procs -> Labels]
  /\ req \in [Procs -> Requests]
  /\ attempt \in [Procs -> 0..(Attempts - 1)]
  /\ total \in [Procs -> Int]
  /\ resent \in [Procs -> 0..Resends]
  /\ reply \in Replies
  /\ \A p \in Procs :
       /\ p \in Servers => req[p].op \in {"none", "status", "prepare"}
       /\ p \in Clients => req[p].op \in {"none", "spend", "fetch"}
       /\ pc[p] = "idle" <=> req[p] = NoRequest
       /\ pc[p] \in {"recheck", "reclaim"} => req[p].op \in {"spend", "status"}
       /\ pc[p] \in {"incr", "charge"} => req[p].op = "spend"
       /\ pc[p] = "wait" => p \in Clients

TypeOK ==
  /\ LedgerTypeOK
  /\ counter \in Int \cup {Absent}
  /\ expiry \in {"short", "long", "never"}
  /\ ProcTypeOK
  /\ spends \in 0..MaxSpends
  /\ sold \subseteq Int
  /\ notified \in [EventTypes -> Nat]

Init ==
  /\ LedgerInit
  /\ counter = Absent /\ expiry = "never"
  /\ pc = [p \in Procs |-> "idle"]
  /\ req = [p \in Procs |-> NoRequest]
  /\ attempt = [p \in Procs |-> 0]
  /\ total = [p \in Procs |-> 0]
  /\ resent = [p \in Procs |-> 0]
  /\ reply = NoReply
  /\ spends = 0
  /\ sold = {}
  /\ notified = [e \in EventTypes |-> 0]

-----------------------------------------------------------------------------
(* Control of one process. *)

Goto(p, label) ==
  /\ pc' = [pc EXCEPT ![p] = label]
  /\ resent' = [resent EXCEPT ![p] = 0]
  /\ reply' = NoReply
  /\ UNCHANGED <<req, attempt>>

(* The request of p ends with error err and reports the usage n. *)
Return(p, err, n) ==
  /\ pc' = [pc EXCEPT ![p] = "idle"]
  /\ req' = [req EXCEPT ![p] = NoRequest]
  /\ attempt' = [attempt EXCEPT ![p] = 0]
  /\ total' = [total EXCEPT ![p] = 0]
  /\ resent' = [resent EXCEPT ![p] = 0]
  /\ reply' = [to |-> {p}, err |-> err, total |-> n]

(* The command was done, its answer is lost, and the redis client (client.go  *)
(* leaves it its default retries) will send it again; others come in between. *)
SendAgain(p) ==
  /\ resent[p] < Resends
  /\ resent' = [resent EXCEPT ![p] = @ + 1]
  /\ reply' = NoReply
  /\ UNCHANGED <<pc, req, attempt, total>>

(* PeekUsage found the mark, or lost the race for it: EnsureUsage sleeps and *)
(* tries again, GetProjectStatus gives up.                                   *)
CacheWait(p) ==
  IF p \in Clients
    THEN Goto(p, "wait") /\ UNCHANGED total
    ELSE Return(p, "wait", 0)

EnsuredBelowFreeMax(p, n) ==                          \* mutant: the wrong limit
  \/ /\ req[p].op = "spend"
     /\ \/ n < req[p].limit.FreeMax /\ Goto(p, "recheck") /\ UNCHANGED total
        \/ n >= req[p].limit.FreeMax /\ Return(p, "exceeded", n)
  \/ req[p].op # "spend" /\ Return(p, "none", n)

(* The usage n is known to be in the key: the rest of the request. *)
Ensured(p, n) ==
  \/ /\ req[p].op = "spend"
     /\ \/ n < req[p].limit.OverMax /\ Goto(p, "recheck") /\ UNCHANGED total
        \/ n >= req[p].limit.OverMax /\ Return(p, "exceeded", n)
  \/ req[p].op # "spend" /\ Return(p, "none", n)

SetKey(n, ttl) == counter' = n /\ expiry' = ttl

(* SETNX's value, with the expiry of two seconds. *)
MarkForever == SetKey(SpecialValue, "never")          \* mutant: no expiry
Mark == SetKey(SpecialValue, "short")

Begin(p, r, label) ==
  /\ pc[p] = "idle"
  /\ pc' = [pc EXCEPT ![p] = label]
  /\ req' = [req EXCEPT ![p] = r]
  /\ reply' = NoReply
  /\ UNCHANGED <<attempt, total, resent, cache, ledger, history>>

-----------------------------------------------------------------------------
(* Requests. *)

StartSpend(c) ==
  /\ spends < MaxSpends
  /\ spends' = spends + 1
  /\ \E r \in SpendRequests : Begin(c, r, "peek")

(* SpendQuota with no quota, no cost or no limit for the service. *)
SpendNothing(c) ==
  /\ pc[c] = "idle"
  /\ Return(c, "nothing", 0)
  /\ UNCHANGED <<cache, ledger, history, spends>>

StartFetchUsage(c) == Begin(c, [op |-> "fetch"], "peek") /\ UNCHANGED spends

StartGetProjectStatus(s) == Begin(s, [op |-> "status"], "peek") /\ UNCHANGED spends

StartPrepareUsage(s) ==
  /\ "prepare" \in Faults
  /\ Begin(s, [op |-> "prepare"], "fetch") /\ UNCHANGED spends

-----------------------------------------------------------------------------
(* EnsureUsage and the first half of GetProjectStatus. *)

(* PeekUsage, GET. *)
Peek(p) ==
  /\ pc[p] = "peek"
  /\ \/ counter = Absent /\ Goto(p, "claim") /\ UNCHANGED total
     \/ counter = SpecialValue /\ CacheWait(p)
     \/ counter \notin {Absent, SpecialValue} /\ Ensured(p, counter)
     \/ "redis" \in Faults /\ Return(p, "redis", 0)
  /\ UNCHANGED <<cache, ledger, history, spends>>

ClaimBySet(p) ==                                      \* mutant: SET, not SETNX
  /\ pc[p] = "claim"
  /\ Mark /\ Goto(p, "fetch") /\ UNCHANGED total
  /\ UNCHANGED <<ledger, history, spends>>

(* PeekUsage, SETNX.  Its winner populates the key, unless it does not hear   *)
(* of it: then the second SETNX finds its own mark.                           *)
Claim(p) ==
  /\ pc[p] = "claim"
  /\ \/ /\ counter = Absent
        /\ Mark /\ Goto(p, "fetch") /\ UNCHANGED total
     \/ counter # Absent /\ CacheWait(p) /\ UNCHANGED cache
     \/ "redis" \in Faults /\ counter = Absent /\ Mark /\ SendAgain(p)
     \/ /\ "redis" \in Faults
        /\ UNCHANGED cache \/ (counter = Absent /\ Mark)
        /\ Return(p, "redis", 0)
  /\ UNCHANGED <<ledger, history, spends>>

RetryOnceMore(p) ==                                   \* mutant: off by one
  /\ pc[p] = "wait"
  /\ \/ /\ attempt[p] < Attempts
        /\ pc' = [pc EXCEPT ![p] = "peek"]
        /\ attempt' = [attempt EXCEPT ![p] = @ + 1]
        /\ reply' = NoReply
        /\ UNCHANGED <<req, total, resent>>
     \/ attempt[p] = Attempts /\ Return(p, "timeout", 0)
  /\ UNCHANGED <<cache, ledger, history, spends>>

RetryForever(p) ==                                    \* mutant: rounds not counted
  /\ pc[p] = "wait"
  /\ Goto(p, "peek")
  /\ UNCHANGED <<total, cache, ledger, history, spends>>

(* The sleep between two rounds, and the end of the last one. *)
Retry(p) ==
  /\ pc[p] = "wait"
  /\ \/ /\ attempt[p] < Attempts - 1
        /\ pc' = [pc EXCEPT ![p] = "peek"]
        /\ attempt' = [attempt EXCEPT ![p] = @ + 1]
        /\ reply' = NoReply
        /\ UNCHANGED <<req, total, resent>>
     \/ attempt[p] = Attempts - 1 /\ Return(p, "timeout", 0)
  /\ UNCHANGED <<cache, ledger, history, spends>>

(* GetUsage: the server reads the store.  When it fails the mark stays. *)
Fetch(p) ==
  /\ pc[p] = "fetch"
  /\ \/ Goto(p, "fill") /\ total' = [total EXCEPT ![p] = stored]
     \/ "rpc" \in Faults /\ Return(p, "rpc", 0)
  /\ UNCHANGED <<cache, ledger, history, spends>>

(* SetUsage, whatever the key holds by now: also spends, if the first SET     *)
(* was done and this is the second.                                           *)
Fill(p) ==
  /\ pc[p] = "fill"
  /\ \/ /\ SetKey(total[p], "long")
        /\ IF req[p].op = "status"
             THEN Goto(p, "recheck") /\ UNCHANGED total
             ELSE Ensured(p, total[p])
     \/ "refill" \in Faults /\ SetKey(total[p], "long") /\ SendAgain(p)
     \/ /\ "redis" \in Faults
        /\ UNCHANGED cache \/ SetKey(total[p], "long")
        /\ Return(p, "redis", 0)
  /\ UNCHANGED <<ledger, history, spends>>

-----------------------------------------------------------------------------
(* SpendUsage, the rest of SpendQuota and of GetProjectStatus. *)

(* The second PeekUsage of a request, GET.  The reply to a client whose spend *)
(* is refused here reports no usage.                                          *)
Recheck(p) ==
  /\ pc[p] = "recheck"
  /\ \/ counter = Absent /\ Goto(p, "reclaim") /\ UNCHANGED total
     \/ counter = SpecialValue /\ Return(p, "wait", 0)
     \/ /\ counter \notin {Absent, SpecialValue}
        /\ \/ req[p].op = "status" /\ Return(p, "none", counter)
           \/ /\ req[p].op = "spend"
              /\ \/ counter >= req[p].limit.OverMax /\ Return(p, "exceeded", 0)
                 \/ counter < req[p].limit.OverMax /\ Goto(p, "incr") /\ UNCHANGED total
     \/ "redis" \in Faults /\ Return(p, "redis", 0)
  /\ UNCHANGED <<cache, ledger, history, spends>>

(* The second PeekUsage, SETNX: its winner leaves the mark behind. *)
Reclaim(p) ==
  /\ pc[p] = "reclaim"
  /\ \/ counter = Absent /\ Mark /\ Return(p, "ready", 0)
     \/ counter # Absent /\ UNCHANGED cache /\ Return(p, "wait", 0)
     \/ "redis" \in Faults /\ counter = Absent /\ Mark /\ SendAgain(p)
     \/ /\ "redis" \in Faults
        /\ UNCHANGED cache \/ (counter = Absent /\ Mark)
        /\ Return(p, "redis", 0)
  /\ UNCHANGED <<ledger, history, spends>>

IncrementByOne(n) ==                                  \* mutant: INCR, not INCRBY
  IF counter = Absent THEN SetKey(1, "never") ELSE SetKey(counter + 1, expiry)

(* INCRBY keeps the TTL of a key and gives none to the one it creates. *)
IncrementKey(n) ==
  IF counter = Absent THEN SetKey(n, "never") ELSE SetKey(counter + n, expiry)

(* INCRBY.  When it is sent again the units of the first one are nobody's,    *)
(* and so are they when the call fails, although it was done.                 *)
Incr(c) ==
  /\ pc[c] = "incr"
  /\ \/ /\ IncrementKey(req[c].cost)
        /\ Goto(c, "charge")
        /\ total' = [total EXCEPT ![c] = counter']
     \/ "redis" \in Faults /\ IncrementKey(req[c].cost) /\ SendAgain(c)
     \/ /\ "redis" \in Faults
        /\ UNCHANGED cache \/ IncrementKey(req[c].cost)
        /\ Return(c, "redis", 0)
  /\ UNCHANGED <<ledger, history, spends>>

(* The units the counter gave to the spend of c that are charged. *)
ChargedUnits(c) ==
  LET first == total[c] - req[c].cost + 1
      usage == UsageOf(req[c].limit, req[c].cost, total[c])
  IN  first..(first + usage - 1)

(* GetSpendResult, the tracker, and the answer.  A spend that was cut to the *)
(* limit is charged for what was left, and refused without an event.         *)
Charge(c) ==
  /\ pc[c] = "charge"
  /\ LET cost  == req[c].cost
         spend == GetSpendResult(req[c].limit, cost, total[c])
     IN  /\ AddUsage(spend.usage)
         /\ sold' = sold \cup ChargedUnits(c)
         /\ \/ spend.usage < cost /\ Return(c, "exceeded", total[c]) /\ UNCHANGED notified
            \/ /\ spend.usage >= cost
               /\ Return(c, "none", total[c])
               /\ notified' = [e \in EventTypes |->
                                 notified[e] + IF e = spend.event THEN 1 ELSE 0]
  /\ UNCHANGED <<cache, spends>>

-----------------------------------------------------------------------------
(* The environment. *)

Populating == {p \in Procs : pc[p] \in {"fetch", "fill"}}

(* Redis drops the key at the end of its TTL. *)
ExpireKey ==
  /\ counter # Absent
  /\ \/ expiry = "short" /\ (Populating = {} \/ "slow" \in Faults)
     \/ expiry = "long" /\ "expire" \in Faults
  /\ SetKey(Absent, "never")
  /\ UNCHANGED <<ledger, procs, history, spends>>

ClearUsage ==
  /\ "clear" \in Faults
  /\ SetKey(Absent, "never")
  /\ UNCHANGED <<ledger, procs, history, spends>>

SyncUsage ==
  /\ \E n \in 1..pending :
       Settle(n) \/ (Faults \cap {"crash", "rpc"} # {} /\ Drop(n))
  /\ UNCHANGED <<cache, procs, history, spends>>

Crash(p) ==
  /\ "crash" \in Faults
  /\ pc[p] # "idle"
  /\ Return(p, "nothing", 0)
  /\ UNCHANGED <<ledger, cache, history, spends>>

Step(p) ==
  \/ Peek(p) \/ Claim(p) \/ Retry(p) \/ Fetch(p) \/ Fill(p)
  \/ Recheck(p) \/ Reclaim(p) \/ Incr(p) \/ Charge(p)

StartClient(c) == StartSpend(c) \/ SpendNothing(c) \/ StartFetchUsage(c)
StartServer(s) == StartGetProjectStatus(s) \/ StartPrepareUsage(s)

Next ==
  \/ \E c \in Clients : StartClient(c)
  \/ \E s \in Servers : StartServer(s)
  \/ \E p \in Procs : Step(p) \/ Crash(p)
  \/ ExpireKey \/ ClearUsage \/ SyncUsage

Spec == Init /\ [][Next]_vars

(* A goroutine that can run does; the clock reaches the TTL of the mark. *)
Fairness ==
  /\ \A p \in Procs : WF_vars(Step(p))
  /\ WF_vars(ExpireKey)

FairSpec == Spec /\ Fairness

-----------------------------------------------------------------------------
(* Properties.  Those that speak of the hard limit hold as long as the       *)
(* counter is kept (CounterKept); the others whatever the environment does.  *)

Populated == counter \notin {Absent, SpecialValue}

(* This step answers the request of p with err. *)
Answered(p, err) ==
  pc[p] # "idle" /\ pc'[p] = "idle" /\ reply'.to = {p} /\ reply'.err = err

Reserved == UNION {ChargedUnits(c) : c \in {d \in Clients : pc[d] = "charge"}}

(* No unit is charged twice: the units redis has handed to spends that are   *)
(* not in a tracker yet are those of one client each, and none was sold      *)
(* before (INCRBY after a separate GET, cache.go SpendUsage).                *)
NoUnitSoldTwice ==
  \A c \in Clients : pc[c] = "charge" =>
    /\ ChargedUnits(c) \cap sold = {}
    /\ \A d \in Clients : pc[d] = "charge" /\ d # c =>
         ChargedUnits(c) \cap ChargedUnits(d) = {}

(* What clients bill in a cycle stays within a hard limit in force, however  *)
(* their spends race: the point of SpendQuota and GetSpendResult.            *)
HardLimit == Billed = InitialUsage \/ \E l \in Limits : Billed <= l.OverMax

(* Every unit the counter gave out below the limit is charged or about to be:*)
(* a spend that is refused half way leaves no gap (GetSpendResult cuts it).  *)
NothingWasted ==
  \A l \in Limits :
    Populated => sold \cup Reserved
                   = (InitialUsage + 1)..(IF counter < l.OverMax THEN counter ELSE l.OverMax)

(* What was billed is what was sold: tracker, store and counter agree.       *)
BilledIsSold == Billed = InitialUsage + Cardinality(sold)

(* No threshold of a project's limit is notified twice in a cycle, though    *)
(* each client decides alone from the total INCRBY returned.                 *)
EventsOnce ==
  \A l \in Limits : Limits = {l} => \A e \in EventTypes : notified[e] <= 1

(* The counter never falls and never vanishes once it is populated: a late   *)
(* Fill does not overwrite spends, a crashed populator is replaced safely.   *)
CounterNeverFalls ==
  [][Populated => Populated' /\ counter' >= counter]_vars

(* A client is told "quota exceeded" only when the counter has reached its   *)
(* hard limit, in all three places SpendQuota can say so.                    *)
RefusedOnlyWhenFull ==
  [][\A c \in Clients :
       Answered(c, "exceeded")
         => counter' >= req[c].limit.OverMax]_vars

(* A spend that is accepted fitted under the limit it was checked against    *)
(* and is charged in full, in the same step (SpendQuota's last lines).       *)
AcceptedIsCharged ==
  [][\A c \in Clients :
       Answered(c, "none") /\ req[c].op = "spend"
         => /\ reply'.total <= req[c].limit.OverMax
            /\ pending' = pending + req[c].cost]_vars

(* The mark of a key being populated always has the short TTL, so no failure *)
(* can lock a project's counter for good (INCRBY on a missing key, SETNX by  *)
(* somebody who never populates).                                            *)
MarkExpires == counter = SpecialValue => expiry = "short"

(* The inductive invariant behind them, while the counter is kept. *)

(* Whoever holds the mark populates the key alone. *)
OnePopulator ==
  /\ Populating # {} => counter = SpecialValue
  /\ \A p, q \in Populating : p = q
  /\ \A p \in Procs : pc[p] = "fill" => total[p] = InitialUsage

(* Before the key is first populated nobody has spent. *)
NothingYet ==
  ~Populated =>
    /\ sold = {} /\ stored = InitialUsage /\ pending = 0 /\ lost = 0
    /\ \A p \in Procs : pc[p] \notin {"recheck", "reclaim", "incr", "charge"}

(* Afterwards the counter is ahead of all units sold or handed out. *)
CounterAhead ==
  Populated =>
    /\ InitialUsage <= counter /\ expiry = "long"
    /\ sold \subseteq (InitialUsage + 1)..counter
    /\ \A p \in Procs : pc[p] # "reclaim"
    /\ \A c \in Clients : pc[c] = "charge" =>
         InitialUsage <= total[c] - req[c].cost /\ total[c] <= counter

(* No unit lies beyond every limit. *)
SoldWithinLimit ==
  sold # {} => \E l \in Limits : sold \subseteq (InitialUsage + 1)..l.OverMax

KeptInv ==
  /\ TypeOK
  /\ OnePopulator /\ NothingYet /\ CounterAhead
  /\ NoUnitSoldTwice /\ SoldWithinLimit
  /\ IsFiniteSet(sold) /\ BilledIsSold

(* Every request is answered, timeouts included. *)
RequestsReturn == \A p \in Procs : pc[p] # "idle" ~> pc[p] = "idle"

(* The mark goes away, whoever left it. *)
MarkClears == counter = SpecialValue ~> counter # SpecialValue

(* The spends of all clients together behave as one quota budget. *)
Budget == INSTANCE QuotaBudget
SoldAsOneBudget == Budget!BudgetSpec
=============================================================================
