-------------------------- MODULE SpendQuotaProofs --------------------------
(***************************************************************************)
(* Theorems of SpendQuota, for any clients, servers, limits and costs: the   *)
(* exactness of the counter, what an answer means, what a single step may    *)
(* do, and what the fault-free system never wastes.                          *)
(***************************************************************************)
EXTENDS SpendQuota, SpendLimitsProofs, FiniteSetTheorems

USE InitialUsageAssumption

(* A spend request carries a positive cost and a valid limit. *)
LEMMA SpendRequestType ==
  ASSUME TypeOK, NEW p \in Procs, req[p].op = "spend"
  PROVE  /\ req[p] \in SpendRequests
         /\ req[p].cost \in Nat \ {0}
         /\ req[p].limit \in Limits
         /\ ValidLimit(req[p].limit)
         /\ req[p].limit.OverMax \in Int
<1>1. req[p] \in Requests
  BY DEF TypeOK, ProcTypeOK
<1>2. req[p] \in SpendRequests
  BY <1>1 DEF Requests, NoRequest
<1>3. req[p].cost \in Costs /\ req[p].limit \in Limits
  BY <1>2 DEF SpendRequests
<1>4. ValidLimit(req[p].limit)
  BY <1>3, ConstantsAssumption
<1>5. req[p].cost \in Nat \ {0}
  BY <1>3, ConstantsAssumption
<1>6. QED
  BY <1>2, <1>3, <1>4, <1>5 DEF ValidLimit, ServiceLimits

(* The four ways a process moves on keep the types of its control state. *)
LEMMA ReturnType ==
  ASSUME ProcTypeOK, NEW p \in Procs, NEW err \in Errors, NEW n \in Int, Return(p, err, n)
  PROVE  ProcTypeOK'
<1>1. reply' \in Replies
  BY DEF Return, Replies
<1>2. req' \in [Procs -> Requests] /\ attempt' \in [Procs -> 0..(Attempts - 1)]
  BY DEF ProcTypeOK, Return, Requests, Attempts
<1>3. pc' \in [Procs -> Labels] /\ total' \in [Procs -> Int]
  BY DEF ProcTypeOK, Return, Labels
<1>4. resent' \in [Procs -> 0..Resends]
  BY ConstantsAssumption DEF ProcTypeOK, Return
<1>5. ASSUME NEW q \in Procs
      PROVE  /\ q \in Servers => req'[q].op \in {"none", "status", "prepare"}
             /\ q \in Clients => req'[q].op \in {"none", "spend", "fetch"}
             /\ pc'[q] = "idle" <=> req'[q] = NoRequest
             /\ pc'[q] \in {"recheck", "reclaim"} => req'[q].op \in {"spend", "status"}
             /\ pc'[q] \in {"incr", "charge"} => req'[q].op = "spend"
             /\ pc'[q] = "wait" => q \in Clients
  BY <1>5 DEF ProcTypeOK, Return, NoRequest
<1>6. QED
  BY <1>1, <1>2, <1>3, <1>4, <1>5 DEF ProcTypeOK

LEMMA GotoType ==
  ASSUME ProcTypeOK, NEW p \in Procs, NEW label \in Labels \ {"idle"}, Goto(p, label),
         pc[p] # "idle", total' \in [Procs -> Int],
         label \in {"recheck", "reclaim"} => req[p].op \in {"spend", "status"},
         label \in {"incr", "charge"} => req[p].op = "spend",
         label = "wait" => p \in Clients
  PROVE  ProcTypeOK'
<1>1. reply' \in Replies
  BY DEF Goto, Replies
<1>2. resent' \in [Procs -> 0..Resends]
  BY ConstantsAssumption DEF ProcTypeOK, Goto
<1>3. QED
  BY <1>1, <1>2 DEF ProcTypeOK, Goto

LEMMA SendAgainType ==
  ASSUME ProcTypeOK, NEW p \in Procs, SendAgain(p)
  PROVE  ProcTypeOK'
<1>1. reply' \in Replies
  BY DEF SendAgain, Replies
<1>2. resent' \in [Procs -> 0..Resends]
  BY ConstantsAssumption DEF ProcTypeOK, SendAgain
<1>3. QED
  BY <1>1, <1>2 DEF ProcTypeOK, SendAgain

LEMMA BeginType ==
  ASSUME ProcTypeOK, NEW p \in Procs, NEW r \in Requests \ {NoRequest},
         NEW label \in {"peek", "fetch"}, Begin(p, r, label),
         p \in Servers => r.op \in {"status", "prepare"},
         p \in Clients => r.op \in {"spend", "fetch"}
  PROVE  ProcTypeOK'
<1>1. reply' \in Replies
  BY DEF Begin, Replies
<1>2. pc' \in [Procs -> Labels] /\ req' \in [Procs -> Requests]
  BY DEF ProcTypeOK, Begin, Labels
<1>3. QED
  BY <1>1, <1>2 DEF ProcTypeOK, Begin

LEMMA CacheWaitType ==
  ASSUME ProcTypeOK, NEW p \in Procs, pc[p] # "idle", CacheWait(p)
  PROVE  ProcTypeOK'
<1>1. CASE p \in Clients
  <2>1. Goto(p, "wait") /\ total' = total
    BY <1>1 DEF CacheWait
  <2>2. total' \in [Procs -> Int] /\ "wait" \in Labels \ {"idle"}
    BY <2>1 DEF ProcTypeOK, Labels
  <2>3. QED
    BY <1>1, <2>1, <2>2, GotoType
<1>2. CASE p \notin Clients
  BY <1>2, ReturnType DEF CacheWait, Errors
<1>3. QED
  BY <1>1, <1>2

LEMMA EnsuredType ==
  ASSUME ProcTypeOK, NEW p \in Procs, pc[p] # "idle", NEW n \in Int, Ensured(p, n)
  PROVE  ProcTypeOK'
<1>1. CASE Goto(p, "recheck") /\ total' = total /\ req[p].op = "spend"
  <2>1. total' \in [Procs -> Int] /\ "recheck" \in Labels \ {"idle"}
    BY <1>1 DEF ProcTypeOK, Labels
  <2>2. QED
    BY <1>1, <2>1, GotoType
<1>2. CASE Return(p, "exceeded", n) \/ Return(p, "none", n)
  BY <1>2, ReturnType DEF Errors
<1>3. QED
  BY <1>1, <1>2 DEF Ensured
(* The rest of the state, once the control state is seen to. *)
LEMMA StepType ==
  ASSUME TypeOK, ProcTypeOK', UNCHANGED <<ledger, history, spends>>,
         counter' \in Int \cup {Absent}, expiry' \in {"short", "long", "never"}
  PROVE  TypeOK'
BY DEF TypeOK, LedgerTypeOK, ledger, history

LEMMA InitType == Init => TypeOK
<1>1. ASSUME Init PROVE ProcTypeOK
  <2>1. reply \in Replies
    BY <1>1 DEF Init, Replies
  <2>2. req \in [Procs -> Requests] /\ pc \in [Procs -> Labels]
    BY <1>1 DEF Init, Requests, Labels
  <2>3. attempt \in [Procs -> 0..(Attempts - 1)] /\ total \in [Procs -> Int]
    BY <1>1 DEF Init, Attempts
  <2>4. \A p \in Procs : pc[p] = "idle" /\ req[p] = NoRequest /\ req[p].op = "none"
    BY <1>1 DEF Init, NoRequest
  <2>5. resent \in [Procs -> 0..Resends]
    BY <1>1, ConstantsAssumption DEF Init
  <2>6. QED
    BY <2>1, <2>2, <2>3, <2>4, <2>5 DEF ProcTypeOK
<1>2. QED
  BY <1>1, ConstantsAssumption
     DEF Init, TypeOK, LedgerInit, LedgerTypeOK, EventTypes

LEMMA PeekType == ASSUME TypeOK, NEW p \in Procs, Peek(p) PROVE TypeOK'
<1>1. ProcTypeOK /\ pc[p] # "idle" /\ counter \in Int \cup {Absent}
  BY DEF TypeOK, Peek
<1>2. CASE Goto(p, "claim") /\ UNCHANGED total
  <2>1. total' \in [Procs -> Int] /\ "claim" \in Labels \ {"idle"}
    BY <1>1, <1>2 DEF ProcTypeOK, Labels
  <2>2. ProcTypeOK'
    BY <1>1, <1>2, <2>1, GotoType
  <2>3. QED
    BY <2>2, StepType DEF Peek, cache, TypeOK
<1>3. CASE CacheWait(p)
  <2>1. ProcTypeOK'
    BY <1>1, <1>3, CacheWaitType
  <2>2. QED
    BY <2>1, StepType DEF Peek, cache, TypeOK
<1>4. CASE counter # Absent /\ Ensured(p, counter)
  <2>1. ProcTypeOK'
    BY <1>1, <1>4, EnsuredType
  <2>2. QED
    BY <2>1, StepType DEF Peek, cache, TypeOK
<1>5. CASE Return(p, "redis", 0)
  <2>1. ProcTypeOK'
    BY <1>1, <1>5, ReturnType DEF Errors
  <2>2. QED
    BY <2>1, StepType DEF Peek, cache, TypeOK
<1>6. QED
  BY <1>2, <1>3, <1>4, <1>5 DEF Peek

(* What redis commands leave in the key is well typed. *)
LEMMA KeyType ==
  ASSUME counter \in Int \cup {Absent}, expiry \in {"short", "long", "never"},
         \/ UNCHANGED cache
         \/ Mark
         \/ \E n \in Int : SetKey(n, "long") \/ IncrementKey(n)
         \/ SetKey(Absent, "never")
  PROVE  counter' \in Int \cup {Absent} /\ expiry' \in {"short", "long", "never"}
BY DEF cache, Mark, SetKey, SpecialValue, IncrementKey

LEMMA ClaimType == ASSUME TypeOK, NEW p \in Procs, Claim(p) PROVE TypeOK'
<1>1. ProcTypeOK /\ pc[p] # "idle"
  BY DEF TypeOK, Claim
<1>2. counter' \in Int \cup {Absent} /\ expiry' \in {"short", "long", "never"}
  BY KeyType DEF TypeOK, Claim
<1>3. CASE Goto(p, "fetch") /\ UNCHANGED total
  <2>1. total' \in [Procs -> Int] /\ "fetch" \in Labels \ {"idle"}
    BY <1>1, <1>3 DEF ProcTypeOK, Labels
  <2>2. ProcTypeOK'
    BY <1>1, <1>3, <2>1, GotoType
  <2>3. QED
    BY <1>2, <2>2, StepType DEF Claim
<1>4. CASE CacheWait(p)
  BY <1>1, <1>2, <1>4, CacheWaitType, StepType DEF Claim
<1>5. CASE Return(p, "redis", 0)
  BY <1>1, <1>2, <1>5, ReturnType, StepType DEF Claim, Errors
<1>6. CASE SendAgain(p)
  BY <1>1, <1>2, <1>6, SendAgainType, StepType DEF Claim
<1>7. QED
  BY <1>3, <1>4, <1>5, <1>6 DEF Claim

LEMMA RetryType == ASSUME TypeOK, NEW p \in Procs, Retry(p) PROVE TypeOK'
<1>1. ProcTypeOK /\ pc[p] = "wait"
  BY DEF TypeOK, Retry
<1>2. CASE attempt[p] < Attempts - 1 /\ ~Return(p, "timeout", 0)
  <2>1. attempt' \in [Procs -> 0..(Attempts - 1)] /\ pc' \in [Procs -> Labels]
    BY <1>1, <1>2 DEF ProcTypeOK, Retry, Attempts, Labels
  <2>2. reply' \in Replies
    BY <1>2 DEF Retry, Replies
  <2>3. ProcTypeOK'
    BY <1>1, <1>2, <2>1, <2>2 DEF ProcTypeOK, Retry
  <2>4. QED
    BY <2>3, StepType DEF Retry, cache, TypeOK
<1>3. CASE Return(p, "timeout", 0)
  <2>1. ProcTypeOK'
    BY <1>1, <1>3, ReturnType DEF Errors
  <2>2. QED
    BY <2>1, StepType DEF Retry, cache, TypeOK
<1>4. QED
  BY <1>2, <1>3 DEF Retry

LEMMA FetchType == ASSUME TypeOK, NEW p \in Procs, Fetch(p) PROVE TypeOK'
<1>1. ProcTypeOK /\ pc[p] = "fetch" /\ stored \in Nat
  BY DEF TypeOK, LedgerTypeOK, Fetch
<1>2. CASE Goto(p, "fill") /\ total' = [total EXCEPT ![p] = stored]
  <2>1. total' \in [Procs -> Int] /\ "fill" \in Labels \ {"idle"}
    BY <1>1, <1>2 DEF ProcTypeOK, Labels
  <2>2. ProcTypeOK'
    BY <1>1, <1>2, <2>1, GotoType
  <2>3. QED
    BY <2>2, StepType DEF Fetch, cache, TypeOK
<1>3. CASE Return(p, "rpc", 0)
  <2>1. ProcTypeOK'
    BY <1>1, <1>3, ReturnType DEF Errors
  <2>2. QED
    BY <2>1, StepType DEF Fetch, cache, TypeOK
<1>4. QED
  BY <1>2, <1>3 DEF Fetch

LEMMA FillType == ASSUME TypeOK, NEW p \in Procs, Fill(p) PROVE TypeOK'
<1>1. ProcTypeOK /\ pc[p] = "fill" /\ total[p] \in Int
  BY DEF TypeOK, ProcTypeOK, Fill
<1>2. counter' \in Int \cup {Absent} /\ expiry' \in {"short", "long", "never"}
  BY <1>1, KeyType DEF TypeOK, Fill
<1>3. CASE req[p].op = "status" /\ Goto(p, "recheck") /\ UNCHANGED total
  <2>1. total' \in [Procs -> Int] /\ "recheck" \in Labels \ {"idle"}
    BY <1>1, <1>3 DEF ProcTypeOK, Labels
  <2>2. ProcTypeOK'
    BY <1>1, <1>3, <2>1, GotoType
  <2>3. QED
    BY <1>2, <2>2, StepType DEF Fill
<1>4. CASE Ensured(p, total[p])
  <2>1. ProcTypeOK'
    BY <1>1, <1>4, EnsuredType
  <2>2. QED
    BY <1>2, <2>1, StepType DEF Fill
<1>5. CASE Return(p, "redis", 0)
  <2>1. ProcTypeOK'
    BY <1>1, <1>5, ReturnType DEF Errors
  <2>2. QED
    BY <1>2, <2>1, StepType DEF Fill
<1>6. CASE SendAgain(p)
  BY <1>1, <1>2, <1>6, SendAgainType, StepType DEF Fill
<1>7. QED
  BY <1>3, <1>4, <1>5, <1>6 DEF Fill

LEMMA RecheckType == ASSUME TypeOK, NEW p \in Procs, Recheck(p) PROVE TypeOK'
<1>1. ProcTypeOK /\ pc[p] = "recheck" /\ counter \in Int \cup {Absent}
  BY DEF TypeOK, Recheck
<1>2. req[p].op \in {"spend", "status"}
  BY <1>1 DEF ProcTypeOK
<1>3. CASE \E label \in {"reclaim", "incr"} :
             /\ Goto(p, label) /\ UNCHANGED total
             /\ label = "incr" => req[p].op = "spend"
  <2>1. PICK label \in {"reclaim", "incr"} :
          /\ Goto(p, label) /\ UNCHANGED total
          /\ label = "incr" => req[p].op = "spend"
    BY <1>3
  <2>2. total' \in [Procs -> Int] /\ label \in Labels \ {"idle"}
    BY <1>1, <2>1 DEF ProcTypeOK, Labels
  <2>3. ProcTypeOK'
    BY <1>1, <1>2, <2>1, <2>2, GotoType
  <2>4. QED
    BY <2>3, StepType DEF Recheck, cache, TypeOK
<1>4. CASE \E err \in Errors, n \in Int : Return(p, err, n)
  <2>1. ProcTypeOK'
    BY <1>1, <1>4, ReturnType
  <2>2. QED
    BY <2>1, StepType DEF Recheck, cache, TypeOK
<1>5. QED
  BY <1>1, <1>3, <1>4 DEF Recheck, Errors

LEMMA ReclaimType == ASSUME TypeOK, NEW p \in Procs, Reclaim(p) PROVE TypeOK'
<1>1. ProcTypeOK /\ pc[p] = "reclaim"
  BY DEF TypeOK, Reclaim
<1>2. counter' \in Int \cup {Absent} /\ expiry' \in {"short", "long", "never"}
  BY KeyType DEF TypeOK, Reclaim
<1>3. SendAgain(p) \/ \E err \in Errors : Return(p, err, 0)
  BY DEF Reclaim, Errors
<1>4. ProcTypeOK'
  BY <1>1, <1>3, ReturnType, SendAgainType
<1>5. QED
  BY <1>2, <1>4, StepType DEF Reclaim

LEMMA IncrType == ASSUME TypeOK, NEW p \in Clients, Incr(p) PROVE TypeOK'
<1>1. ProcTypeOK /\ pc[p] = "incr" /\ p \in Procs
  BY DEF TypeOK, Incr, Procs
<1>2. req[p].op = "spend"
  BY <1>1 DEF ProcTypeOK
<1>3. req[p].cost \in Nat \ {0}
  BY <1>1, <1>2, SpendRequestType
<1>4. counter' \in Int \cup {Absent} /\ expiry' \in {"short", "long", "never"}
  BY <1>3, KeyType DEF TypeOK, Incr
<1>5. CASE Goto(p, "charge") /\ total' = [total EXCEPT ![p] = counter'] /\ counter' \in Int
  <2>1. total' \in [Procs -> Int] /\ "charge" \in Labels \ {"idle"}
    BY <1>1, <1>5 DEF ProcTypeOK, Labels
  <2>2. ProcTypeOK'
    BY <1>1, <1>2, <1>5, <2>1, GotoType
  <2>3. QED
    BY <1>4, <2>2, StepType DEF Incr
<1>6. CASE Return(p, "redis", 0)
  <2>1. ProcTypeOK'
    BY <1>1, <1>6, ReturnType DEF Errors
  <2>2. QED
    BY <1>4, <2>1, StepType DEF Incr
<1>7. CASE SendAgain(p)
  BY <1>1, <1>4, <1>7, SendAgainType, StepType DEF Incr
<1>8. ASSUME IncrementKey(req[p].cost) PROVE counter' \in Int
  BY <1>3, <1>8 DEF TypeOK, IncrementKey, SetKey
<1>9. QED
  BY <1>5, <1>6, <1>7, <1>8 DEF Incr

LEMMA ChargeType == ASSUME TypeOK, NEW p \in Clients, Charge(p) PROVE TypeOK'
<1>1. ProcTypeOK /\ pc[p] = "charge" /\ p \in Procs /\ total[p] \in Int
  BY DEF TypeOK, ProcTypeOK, Charge, Procs
<1>2. req[p].op = "spend"
  BY <1>1 DEF ProcTypeOK
<1>3. req[p].cost \in Nat \ {0} /\ ValidLimit(req[p].limit)
  BY <1>1, <1>2, SpendRequestType
<1>4. UsageOf(req[p].limit, req[p].cost, total[p]) \in Nat
  BY <1>1, <1>3, UsageOfBounds
<1>5. LedgerTypeOK'
  BY <1>4 DEF TypeOK, LedgerTypeOK, Charge, GetSpendResult, AddUsage
<1>6. sold' \subseteq Int
  <2>1. ChargedUnits(p) \subseteq Int
    BY <1>1, <1>3, <1>4 DEF ChargedUnits
  <2>2. sold' = sold \cup ChargedUnits(p)
    BY DEF Charge
  <2>3. QED
    BY <2>1, <2>2 DEF TypeOK
<1>7. notified' \in [EventTypes -> Nat]
  BY DEF TypeOK, Charge
<1>8. \E err \in Errors : Return(p, err, total[p])
  BY DEF Charge, Errors
<1>9. ProcTypeOK'
  BY <1>1, <1>8, ReturnType
<1>10. UNCHANGED <<cache, spends>>
  BY DEF Charge
<1>11. QED
  BY <1>5, <1>6, <1>7, <1>9, <1>10 DEF TypeOK, cache

LEMMA StartType ==
  ASSUME TypeOK, \/ \E c \in Clients : StartClient(c)
                 \/ \E s \in Servers : StartServer(s)
  PROVE  TypeOK'
<1>1. ProcTypeOK
  BY DEF TypeOK
<1>2. CASE \E c \in Clients : StartSpend(c)
  <2>1. PICK c \in Clients : StartSpend(c)
    BY <1>2
  <2>2. PICK r \in SpendRequests : Begin(c, r, "peek")
    BY <2>1 DEF StartSpend
  <2>3. r \in Requests \ {NoRequest} /\ r.op = "spend" /\ c \in Procs /\ c \notin Servers
    BY <2>2, ConstantsAssumption DEF Requests, SpendRequests, NoRequest, Procs
  <2>4. ProcTypeOK'
    BY <1>1, <2>2, <2>3, BeginType
  <2>5. spends' \in 0..MaxSpends
    BY <2>1, ConstantsAssumption DEF TypeOK, StartSpend
  <2>6. UNCHANGED <<cache, ledger, history>>
    BY <2>2 DEF Begin
  <2>7. QED
    BY <2>4, <2>5, <2>6 DEF TypeOK, LedgerTypeOK, cache, ledger, history
<1>3. CASE \E c \in Clients : SpendNothing(c)
  <2>1. PICK c \in Clients : SpendNothing(c)
    BY <1>3
  <2>2. ProcTypeOK'
    BY <1>1, <2>1, ReturnType DEF SpendNothing, Errors, Procs
  <2>3. QED
    BY <2>1, <2>2, StepType DEF SpendNothing, TypeOK, cache
<1>4. CASE \E c \in Clients : StartFetchUsage(c)
  <2>1. PICK c \in Clients : StartFetchUsage(c)
    BY <1>4
  <2>2. [op |-> "fetch"] \in Requests \ {NoRequest} /\ c \in Procs /\ c \notin Servers
    BY ConstantsAssumption DEF Requests, NoRequest, Procs
  <2>3. ProcTypeOK'
    BY <1>1, <2>1, <2>2, BeginType DEF StartFetchUsage
  <2>4. QED
    BY <2>1, <2>3, StepType DEF StartFetchUsage, Begin, TypeOK, cache
<1>5. CASE \E s \in Servers : StartServer(s)
  <2>1. PICK s \in Servers : StartServer(s)
    BY <1>5
  <2>2. /\ [op |-> "status"] \in Requests \ {NoRequest}
        /\ [op |-> "prepare"] \in Requests \ {NoRequest}
        /\ s \in Procs /\ s \notin Clients
    BY ConstantsAssumption DEF Requests, NoRequest, Procs
  <2>3. ProcTypeOK'
    BY <1>1, <2>1, <2>2, BeginType
       DEF StartServer, StartGetProjectStatus, StartPrepareUsage
  <2>4. QED
    BY <2>1, <2>3, StepType
       DEF StartServer, StartGetProjectStatus, StartPrepareUsage, Begin, TypeOK, cache
<1>6. QED
  BY <1>2, <1>3, <1>4, <1>5 DEF StartClient

LEMMA EnvironmentType ==
  ASSUME TypeOK, ExpireKey \/ ClearUsage \/ SyncUsage \/ (\E p \in Procs : Crash(p))
  PROVE  TypeOK'
<1>1. ProcTypeOK
  BY DEF TypeOK
<1>2. CASE ExpireKey \/ ClearUsage
  <2>1. UNCHANGED <<ledger, procs, history, spends>> /\ SetKey(Absent, "never")
    BY <1>2 DEF ExpireKey, ClearUsage
  <2>2. ProcTypeOK'
    BY <1>1, <2>1 DEF procs, ProcTypeOK
  <2>3. QED
    BY <2>1, <2>2, StepType DEF SetKey
<1>3. CASE SyncUsage
  <2>1. UNCHANGED <<cache, procs, history, spends>>
    BY <1>3 DEF SyncUsage
  <2>2. ProcTypeOK'
    BY <1>1, <2>1 DEF procs, ProcTypeOK
  <2>3. LedgerTypeOK'
    BY <1>3 DEF SyncUsage, Settle, Drop, TypeOK, LedgerTypeOK
  <2>4. QED
    BY <2>1, <2>2, <2>3 DEF TypeOK, cache, history
<1>4. CASE \E p \in Procs : Crash(p)
  <2>1. PICK p \in Procs : Crash(p)
    BY <1>4
  <2>2. ProcTypeOK'
    BY <1>1, <2>1, ReturnType DEF Crash, Errors
  <2>3. QED
    BY <2>1, <2>2, StepType DEF Crash, TypeOK, cache
<1>5. QED
  BY <1>2, <1>3, <1>4

(* The steps from "incr" and "charge" belong to clients. *)
LEMMA SpendersAreClients ==
  ASSUME TypeOK, NEW p \in Procs, pc[p] \in {"incr", "charge"}
  PROVE  p \in Clients
BY DEF TypeOK, ProcTypeOK, Procs

LEMMA NextType == TypeOK /\ [Next]_vars => TypeOK'
<1> SUFFICES ASSUME TypeOK, [Next]_vars PROVE TypeOK'
  OBVIOUS
<1>1. CASE UNCHANGED vars
  BY <1>1 DEF vars, ledger, cache, procs, history, TypeOK, LedgerTypeOK, ProcTypeOK
<1>2. CASE \E c \in Clients : StartClient(c)
  BY <1>2, StartType
<1>3. CASE \E s \in Servers : StartServer(s)
  BY <1>3, StartType
<1>4. CASE \E p \in Procs : Step(p)
  <2>1. PICK p \in Procs : Step(p)
    BY <1>4
  <2>2. CASE Incr(p) \/ Charge(p)
    <3>1. p \in Clients
      BY <2>2, SpendersAreClients DEF Incr, Charge
    <3>2. QED
      BY <2>2, <3>1, IncrType, ChargeType
  <2>3. QED
    BY <2>1, <2>2, PeekType, ClaimType, RetryType, FetchType, FillType,
       RecheckType, ReclaimType DEF Step
<1>5. CASE ExpireKey \/ ClearUsage \/ SyncUsage \/ \E p \in Procs : Crash(p)
  BY <1>5, EnvironmentType
<1>6. QED
  BY <1>1, <1>2, <1>3, <1>4, <1>5 DEF Next

(* Every state of the counter protocol is well typed, whatever the faults. *)
THEOREM TypeCorrect == Spec => []TypeOK
BY InitType, NextType, PTL DEF Spec

-----------------------------------------------------------------------------
(* The hard limit, while the counter is kept. *)

(* How the control steps of one process look to the others. *)
Moves(p, label) ==
  /\ pc' = [pc EXCEPT ![p] = label]
  /\ \A q \in Procs \ {p} : total'[q] = total[q] /\ req'[q] = req[q]

LEMMA GotoMoves ==
  ASSUME TypeOK, NEW p \in Procs, NEW label, Goto(p, label),
         \A q \in Procs \ {p} : total'[q] = total[q]
  PROVE  Moves(p, label) /\ req' = req
BY DEF Moves, Goto

LEMMA ReturnMoves ==
  ASSUME TypeOK, NEW p \in Procs, NEW err, NEW n, Return(p, err, n)
  PROVE  Moves(p, "idle")
BY DEF Moves, Return, TypeOK, ProcTypeOK

(* Sending a command again moves nobody. *)
LEMMA SendAgainMoves ==
  ASSUME TypeOK, NEW p \in Procs, SendAgain(p)
  PROVE  Moves(p, pc[p]) /\ pc' = pc /\ total' = total /\ req' = req
BY DEF Moves, SendAgain, TypeOK, ProcTypeOK

LEMMA BeginMoves ==
  ASSUME TypeOK, NEW p \in Procs, NEW r, NEW label, Begin(p, r, label)
  PROVE  Moves(p, label)
BY DEF Moves, Begin, TypeOK, ProcTypeOK

(* The units charged to a spend of c are not touched by a step of another. *)
LEMMA OtherUnits ==
  ASSUME TypeOK, NEW p \in Procs, NEW label, Moves(p, label), NEW c \in Clients \ {p}
  PROVE  pc'[c] = pc[c] /\ ChargedUnits(c)' = ChargedUnits(c)
BY DEF Moves, TypeOK, ProcTypeOK, Procs, ChargedUnits

(* A step that only moves one process, to a place that claims nothing. *)
LEMMA ControlStep ==
  ASSUME KeptInv, TypeOK', UNCHANGED <<cache, ledger, history>>,
         NEW p \in Procs, NEW label \in {"idle", "peek", "claim", "wait", "recheck", "incr"},
         Moves(p, label),
         label \in {"recheck", "incr"} => Populated
  PROVE  KeptInv'
<1>1. /\ counter' = counter /\ expiry' = expiry /\ sold' = sold
      /\ stored' = stored /\ pending' = pending /\ lost' = lost
  BY DEF cache, ledger, history
<1>2. \A q \in Procs : pc'[q] = IF q = p THEN label ELSE pc[q]
  BY DEF Moves, KeptInv, TypeOK, ProcTypeOK
<1>3. OnePopulator'
  BY <1>1, <1>2 DEF KeptInv, OnePopulator, Populating, Moves
<1>4. NothingYet'
  BY <1>1, <1>2 DEF KeptInv, NothingYet, Populated
<1>5. CounterAhead'
  BY <1>1, <1>2 DEF KeptInv, CounterAhead, Populated, Moves, Procs
<1>6. NoUnitSoldTwice'
  <2>1. \A c \in Clients : pc'[c] = "charge" => c # p
    BY <1>2 DEF Procs
  <2>2. \A c \in Clients : pc'[c] = "charge" =>
          pc[c] = "charge" /\ ChargedUnits(c)' = ChargedUnits(c)
    BY <2>1, OtherUnits DEF KeptInv
  <2>3. QED
    BY <1>1, <2>2 DEF KeptInv, NoUnitSoldTwice
<1>7. SoldWithinLimit' /\ IsFiniteSet(sold)' /\ BilledIsSold'
  BY <1>1 DEF KeptInv, SoldWithinLimit, BilledIsSold, Billed
<1>8. QED
  BY <1>3, <1>4, <1>5, <1>6, <1>7 DEF KeptInv

LEMMA InitKept == Init => KeptInv
<1> SUFFICES ASSUME Init PROVE KeptInv
  OBVIOUS
<1>1. TypeOK
  BY InitType
<1>2. \A p \in Procs : pc[p] = "idle"
  BY DEF Init
<1>3. OnePopulator /\ NoUnitSoldTwice
  BY <1>2 DEF OnePopulator, Populating, NoUnitSoldTwice, Procs
<1>4. NothingYet /\ CounterAhead /\ SoldWithinLimit
  BY <1>2 DEF Init, LedgerInit, NothingYet, CounterAhead, SoldWithinLimit, Populated
<1>5. IsFiniteSet(sold) /\ BilledIsSold
  BY FS_EmptySet DEF Init, LedgerInit, BilledIsSold, Billed
<1>6. QED
  BY <1>1, <1>3, <1>4, <1>5 DEF KeptInv

LEMMA StartKept ==
  ASSUME KeptInv, CounterKept, TypeOK',
         \/ \E c \in Clients : StartClient(c)
         \/ \E s \in Servers : StartServer(s)
  PROVE  KeptInv'
<1>1. TypeOK
  BY DEF KeptInv
<1>2. CASE \E c \in Clients : StartSpend(c) \/ StartFetchUsage(c)
  <2>1. PICK c \in Clients : StartSpend(c) \/ StartFetchUsage(c)
    BY <1>2
  <2>2. PICK r : Begin(c, r, "peek")
    BY <2>1 DEF StartSpend, StartFetchUsage
  <2>3. Moves(c, "peek") /\ c \in Procs
    BY <1>1, <2>2, BeginMoves DEF Procs
  <2>4. QED
    BY <2>2, <2>3, ControlStep DEF Begin
<1>3. CASE \E c \in Clients : SpendNothing(c)
  <2>1. PICK c \in Clients : SpendNothing(c)
    BY <1>3
  <2>2. Moves(c, "idle") /\ c \in Procs
    BY <1>1, <2>1, ReturnMoves DEF Procs, SpendNothing
  <2>3. QED
    BY <2>1, <2>2, ControlStep DEF SpendNothing
<1>4. CASE \E s \in Servers : StartServer(s)
  <2>1. PICK s \in Servers : StartGetProjectStatus(s)
    BY <1>4 DEF StartServer, StartPrepareUsage, CounterKept
  <2>2. Begin(s, [op |-> "status"], "peek") /\ s \in Procs
    BY <2>1 DEF StartGetProjectStatus, Procs
  <2>3. Moves(s, "peek")
    BY <1>1, <2>2, BeginMoves
  <2>4. QED
    BY <2>2, <2>3, ControlStep DEF Begin
<1>5. QED
  BY <1>2, <1>3, <1>4 DEF StartClient

(* A process that waits, or gives up, claims nothing. *)
LEMMA CacheWaitMoves ==
  ASSUME TypeOK, NEW p \in Procs, CacheWait(p)
  PROVE  \E label \in {"wait", "idle"} : Moves(p, label)
<1>1. CASE p \in Clients
  BY <1>1, GotoMoves DEF CacheWait
<1>2. CASE p \notin Clients
  BY <1>2, ReturnMoves DEF CacheWait
<1>3. QED
  BY <1>1, <1>2

LEMMA EnsuredMoves ==
  ASSUME TypeOK, NEW p \in Procs, NEW n \in Int, Ensured(p, n)
  PROVE  \E label \in {"recheck", "idle"} : Moves(p, label)
<1>1. CASE Goto(p, "recheck") /\ UNCHANGED total
  BY <1>1, GotoMoves
<1>2. CASE \E err \in {"exceeded", "none"} : Return(p, err, n)
  BY <1>2, ReturnMoves
<1>3. QED
  BY <1>1, <1>2 DEF Ensured

LEMMA PeekKept == ASSUME KeptInv, TypeOK', NEW p \in Procs, Peek(p) PROVE KeptInv'
<1>1. TypeOK /\ counter \in Int \cup {Absent}
  BY DEF KeptInv, TypeOK
<1>2. \E label \in {"idle", "claim", "wait", "recheck"} :
        Moves(p, label) /\ (label = "recheck" => Populated)
  <2>1. CASE counter = Absent /\ Goto(p, "claim") /\ UNCHANGED total
    BY <1>1, <2>1, GotoMoves
  <2>2. CASE CacheWait(p)
    BY <1>1, <2>2, CacheWaitMoves
  <2>3. CASE Populated /\ Ensured(p, counter)
    BY <1>1, <2>3, EnsuredMoves DEF Populated
  <2>4. CASE Return(p, "redis", 0)
    BY <1>1, <2>4, ReturnMoves
  <2>5. QED
    BY <2>1, <2>2, <2>3, <2>4 DEF Peek, Populated
<1>3. QED
  BY <1>2, ControlStep DEF Peek

LEMMA RetryKept == ASSUME KeptInv, TypeOK', NEW p \in Procs, Retry(p) PROVE KeptInv'
<1>1. TypeOK
  BY DEF KeptInv
<1>2. \E label \in {"idle", "peek"} : Moves(p, label)
  BY <1>1, ReturnMoves DEF Retry, Moves
<1>3. QED
  BY <1>2, ControlStep DEF Retry

LEMMA RecheckKept == ASSUME KeptInv, TypeOK', NEW p \in Procs, Recheck(p) PROVE KeptInv'
<1>1. TypeOK /\ Populated
  BY DEF KeptInv, NothingYet, Recheck
<1>2. \E label \in {"idle", "incr"} : Moves(p, label)
  <2>1. CASE Goto(p, "incr") /\ UNCHANGED total
    BY <1>1, <2>1, GotoMoves
  <2>2. CASE \E err, n : Return(p, err, n)
    BY <1>1, <2>2, ReturnMoves
  <2>3. QED
    BY <1>1, <2>1, <2>2 DEF Recheck, Populated
<1>3. QED
  BY <1>1, <1>2, ControlStep DEF Recheck

(* Redis puts up the mark where there is no key: nobody populates it yet. *)
LEMMA ClaimKept == ASSUME KeptInv, TypeOK', NEW p \in Procs, Claim(p) PROVE KeptInv'
<1>1. TypeOK /\ UNCHANGED <<ledger, history>>
  BY DEF KeptInv, Claim
<1>2. \E label \in {"idle", "wait", "claim", "fetch"} :
        Moves(p, label) /\ (label = "fetch" => Mark /\ counter = Absent)
  <2>1. CASE counter = Absent /\ Mark /\ Goto(p, "fetch") /\ UNCHANGED total
    BY <1>1, <2>1, GotoMoves
  <2>2. CASE CacheWait(p)
    BY <1>1, <2>2, CacheWaitMoves
  <2>3. CASE Return(p, "redis", 0)
    BY <1>1, <2>3, ReturnMoves
  <2>4. CASE SendAgain(p)
    BY <1>1, <2>4, SendAgainMoves DEF Claim
  <2>5. QED
    BY <2>1, <2>2, <2>3, <2>4 DEF Claim
<1>3. PICK label \in {"idle", "wait", "claim", "fetch"} :
        Moves(p, label) /\ (label = "fetch" => Mark /\ counter = Absent)
  BY <1>2
<1>4. CASE UNCHANGED cache
  <2>1. label # "fetch"
    BY <1>3, <1>4, ConstantsAssumption DEF cache, Mark, SetKey, SpecialValue
  <2>2. QED
    BY <1>1, <1>3, <1>4, <2>1, ControlStep
<1>5. CASE counter = Absent /\ Mark
  <2>1. /\ counter' = SpecialValue /\ ~Populated /\ ~Populated' /\ counter # SpecialValue
        /\ sold' = sold /\ stored' = stored /\ pending' = pending /\ lost' = lost
    BY <1>1, <1>5, ConstantsAssumption
       DEF Mark, SetKey, SpecialValue, Populated, ledger, history
  <2>2. \A q \in Procs : pc'[q] = IF q = p THEN label ELSE pc[q]
    BY <1>1, <1>3 DEF Moves, TypeOK, ProcTypeOK
  <2>3. Populating = {}
    BY <2>1 DEF KeptInv, OnePopulator
  <2>4. OnePopulator'
    BY <2>1, <2>2, <2>3 DEF OnePopulator, Populating
  <2>5. NothingYet' /\ CounterAhead'
    BY <2>1, <2>2 DEF KeptInv, NothingYet, CounterAhead
  <2>6. \A c \in Clients : pc'[c] # "charge"
    BY <2>1, <2>2 DEF KeptInv, NothingYet, Procs
  <2>7. NoUnitSoldTwice' /\ SoldWithinLimit' /\ IsFiniteSet(sold)' /\ BilledIsSold'
    BY <2>1, <2>6 DEF KeptInv, NoUnitSoldTwice, SoldWithinLimit, BilledIsSold, Billed
  <2>8. QED
    BY <2>4, <2>5, <2>7 DEF KeptInv
<1>6. QED
  BY <1>4, <1>5 DEF Claim

(* The populator reads a store nobody has synchronised a spend to. *)
LEMMA FetchKept == ASSUME KeptInv, TypeOK', NEW p \in Procs, Fetch(p) PROVE KeptInv'
<1>1. TypeOK /\ UNCHANGED <<cache, ledger, history>>
  BY DEF KeptInv, Fetch
<1>2. CASE Return(p, "rpc", 0)
  <2>1. Moves(p, "idle")
    BY <1>1, <1>2, ReturnMoves
  <2>2. QED
    BY <1>1, <2>1, ControlStep
<1>3. CASE Goto(p, "fill") /\ total' = [total EXCEPT ![p] = stored]
  <2>1. /\ counter' = counter /\ expiry' = expiry /\ sold' = sold
        /\ stored' = stored /\ pending' = pending /\ lost' = lost
    BY <1>1 DEF cache, ledger, history
  <2>2. \A q \in Procs : pc'[q] = IF q = p THEN "fill" ELSE pc[q]
    BY <1>1, <1>3 DEF Goto, TypeOK, ProcTypeOK
  <2>3. p \in Populating /\ counter = SpecialValue /\ ~Populated
    BY DEF Fetch, KeptInv, OnePopulator, Populating, Populated
  <2>4. total'[p] = InitialUsage /\ \A q \in Procs \ {p} : total'[q] = total[q]
    BY <1>1, <1>3, <2>3 DEF KeptInv, NothingYet, TypeOK, ProcTypeOK
  <2>5. OnePopulator'
    BY <2>1, <2>2, <2>3, <2>4 DEF KeptInv, OnePopulator, Populating
  <2>6. NothingYet' /\ CounterAhead'
    BY <2>1, <2>2, <2>3 DEF KeptInv, NothingYet, CounterAhead, Populated
  <2>7. \A c \in Clients : pc'[c] # "charge"
    BY <2>2, <2>3 DEF KeptInv, NothingYet, Procs
  <2>8. NoUnitSoldTwice' /\ SoldWithinLimit' /\ IsFiniteSet(sold)' /\ BilledIsSold'
    BY <2>1, <2>7 DEF KeptInv, NoUnitSoldTwice, SoldWithinLimit, BilledIsSold, Billed
  <2>9. QED
    BY <2>5, <2>6, <2>8 DEF KeptInv
<1>4. QED
  BY <1>2, <1>3 DEF Fetch

(* SetUsage replaces the mark by the usage at the start of the cycle. *)
LEMMA FillKept ==
  ASSUME KeptInv, CounterKept, TypeOK', NEW p \in Procs, Fill(p)
  PROVE  KeptInv'
<1>1. TypeOK /\ UNCHANGED <<ledger, history>> /\ total[p] \in Int
  BY DEF KeptInv, TypeOK, ProcTypeOK, Fill
<1>2. \E label \in {"idle", "recheck"} :
        Moves(p, label) /\ (label = "recheck" => SetKey(total[p], "long"))
  <2>1. CASE SetKey(total[p], "long") /\ Goto(p, "recheck") /\ UNCHANGED total
    BY <1>1, <2>1, GotoMoves
  <2>2. CASE SetKey(total[p], "long") /\ Ensured(p, total[p])
    BY <1>1, <2>2, EnsuredMoves
  <2>3. CASE Return(p, "redis", 0)
    BY <1>1, <2>3, ReturnMoves
  <2>4. QED
    BY <2>1, <2>2, <2>3 DEF Fill, CounterKept
<1>3. PICK label \in {"idle", "recheck"} :
        Moves(p, label) /\ (label = "recheck" => SetKey(total[p], "long"))
  BY <1>2
<1>4. p \in Populating /\ counter = SpecialValue /\ ~Populated /\ total[p] = InitialUsage
  BY DEF Fill, KeptInv, OnePopulator, Populating, Populated
<1>5. CASE UNCHANGED cache
  <2>1. label = "idle"
    BY <1>3, <1>4, <1>5 DEF SetKey, cache, SpecialValue
  <2>2. QED
    BY <1>1, <1>3, <1>5, <2>1, ControlStep
<1>6. CASE SetKey(total[p], "long")
  <2>1. /\ counter' = InitialUsage /\ expiry' = "long" /\ Populated'
        /\ sold' = {} /\ stored' = stored /\ pending' = pending /\ lost' = lost
    BY <1>1, <1>4, <1>6, ConstantsAssumption
       DEF SetKey, Populated, SpecialValue, KeptInv, NothingYet, ledger, history
  <2>2. \A q \in Procs : pc'[q] = IF q = p THEN label ELSE pc[q]
    BY <1>1, <1>3 DEF Moves, TypeOK, ProcTypeOK
  <2>3. \A q \in Procs : pc[q] \notin {"recheck", "reclaim", "incr", "charge"}
    BY <1>4 DEF KeptInv, NothingYet
  <2>4. Populating' = {}
    BY <1>4, <2>2 DEF KeptInv, OnePopulator, Populating
  <2>5. OnePopulator' /\ NothingYet'
    BY <2>1, <2>4 DEF OnePopulator, NothingYet, Populating
  <2>6. \A c \in Clients : pc'[c] # "charge"
    BY <2>2, <2>3 DEF Procs
  <2>7. CounterAhead'
    BY <2>1, <2>2, <2>3, <2>6 DEF CounterAhead
  <2>8. sold = {} /\ sold' = sold
    BY <1>4, <2>1 DEF KeptInv, NothingYet
  <2>9. NoUnitSoldTwice' /\ SoldWithinLimit' /\ IsFiniteSet(sold)' /\ BilledIsSold'
    BY <2>1, <2>6, <2>8 DEF KeptInv, NoUnitSoldTwice, SoldWithinLimit, BilledIsSold, Billed
  <2>10. QED
    BY <2>5, <2>7, <2>9 DEF KeptInv
<1>7. QED
  BY <1>5, <1>6 DEF Fill, CounterKept

(* INCRBY gives a spend the units above all others. *)
LEMMA IncrKept == ASSUME KeptInv, TypeOK', NEW p \in Clients, Incr(p) PROVE KeptInv'
<1>1. TypeOK /\ UNCHANGED <<ledger, history>> /\ p \in Procs /\ pc[p] = "incr"
  BY DEF KeptInv, Incr, Procs
<1>2. req[p].cost \in Nat \ {0}
  BY <1>1, SpendRequestType DEF TypeOK, ProcTypeOK
<1>3. Populated /\ counter \in Int /\ expiry = "long" /\ InitialUsage <= counter
  BY <1>1 DEF KeptInv, NothingYet, CounterAhead, Populated, TypeOK
<1>4. /\ \/ pc' = [pc EXCEPT ![p] = "charge"] /\ Goto(p, "charge")
            /\ total' = [total EXCEPT ![p] = counter'] /\ counter + req[p].cost <= counter'
         \/ Return(p, "redis", 0)
         \/ SendAgain(p)
      /\ counter' \in Int /\ counter <= counter' /\ expiry' = "long"
  BY <1>2, <1>3 DEF Incr, IncrementKey, SetKey, Populated, cache, Goto
<1>5. Populated' /\ counter' >= InitialUsage
  BY <1>3, <1>4, ConstantsAssumption DEF Populated, SpecialValue
<1>6. /\ sold' = sold /\ stored' = stored /\ pending' = pending /\ lost' = lost
  BY <1>1 DEF ledger, history
<1>7. \E label \in {"idle", "incr", "charge"} : Moves(p, label)
  BY <1>1, <1>4, GotoMoves, ReturnMoves, SendAgainMoves DEF TypeOK, ProcTypeOK
<1>8. PICK label \in {"idle", "incr", "charge"} : Moves(p, label)
  BY <1>7
<1>9. \A q \in Procs : pc'[q] = IF q = p THEN label ELSE pc[q]
  BY <1>1, <1>8 DEF Moves, TypeOK, ProcTypeOK
<1>10. Populating' = Populating /\ Populating = {}
  BY <1>1, <1>3, <1>9 DEF KeptInv, OnePopulator, Populating, Populated
<1>11. OnePopulator' /\ NothingYet'
  BY <1>5, <1>9, <1>10 DEF OnePopulator, NothingYet, Populating
<1>12. CASE label \in {"idle", "incr"}
  <2>1. \A c \in Clients : pc'[c] = "charge" =>
          c # p /\ pc[c] = "charge" /\ ChargedUnits(c)' = ChargedUnits(c)
            /\ total'[c] = total[c] /\ req'[c] = req[c]
    BY <1>1, <1>8, <1>9, <1>12, OtherUnits DEF Moves, Procs
  <2>2. CounterAhead'
    <3>1. sold \subseteq (InitialUsage + 1)..counter
      BY <1>3 DEF KeptInv, CounterAhead
    <3>2. sold' \subseteq (InitialUsage + 1)..counter'
      BY <1>3, <1>4, <1>6, <3>1
    <3>3. \A q \in Procs : pc'[q] # "reclaim"
      BY <1>3, <1>9, <1>12 DEF KeptInv, CounterAhead
    <3>4. ASSUME NEW c \in Clients, pc'[c] = "charge"
          PROVE  InitialUsage <= total'[c] - req'[c].cost /\ total'[c] <= counter'
      <4>1. total[c] \in Int /\ total[c] <= counter
        BY <1>1, <1>3, <2>1, <3>4 DEF KeptInv, CounterAhead, TypeOK, ProcTypeOK, Procs
      <4>2. InitialUsage <= total[c] - req[c].cost
        BY <1>3, <2>1, <3>4 DEF KeptInv, CounterAhead
      <4>3. QED
        BY <1>3, <1>4, <2>1, <3>4, <4>1, <4>2
    <3>5. QED
      BY <1>4, <1>5, <3>2, <3>3, <3>4 DEF CounterAhead
  <2>3. NoUnitSoldTwice'
    BY <1>6, <2>1 DEF KeptInv, NoUnitSoldTwice
  <2>4. QED
    BY <1>6, <1>11, <2>2, <2>3 DEF KeptInv, SoldWithinLimit, BilledIsSold, Billed
<1>13. CASE label = "charge"
  <2>1. /\ total' = [total EXCEPT ![p] = counter'] /\ req' = req
        /\ counter + req[p].cost <= counter'
    <3>1. ~Return(p, "redis", 0) /\ ~SendAgain(p)
      BY <1>1, <1>9, <1>13 DEF Return, SendAgain, TypeOK, ProcTypeOK
    <3>2. QED
      BY <1>4, <3>1 DEF Goto
  <2>2. total'[p] = counter' /\ \A q \in Procs \ {p} : total'[q] = total[q]
    BY <1>1, <2>1 DEF TypeOK, ProcTypeOK
  <2>3. ChargedUnits(p)' \subseteq (counter + 1)..counter'
    <3>1. req[p].op = "spend" /\ ValidLimit(req[p].limit)
      BY <1>1, SpendRequestType DEF TypeOK, ProcTypeOK
    <3>2. PICK u \in 0..req[p].cost : u = UsageOf(req[p].limit, req[p].cost, counter')
      BY <1>2, <1>4, <3>1, UsageOfBounds
    <3>3. ChargedUnits(p)' = (counter' - req[p].cost + 1)..(counter' - req[p].cost + 1 + u - 1)
      BY <2>1, <2>2, <3>2 DEF ChargedUnits
    <3>4. \A n \in ChargedUnits(p)' : n \in Int /\ counter + 1 <= n /\ n <= counter'
      BY <1>2, <1>3, <1>4, <2>1, <3>2, <3>3
    <3>5. QED
      BY <1>3, <1>4, <3>4
  <2>4. ASSUME NEW c \in Clients \ {p}, pc'[c] = "charge"
        PROVE  /\ pc[c] = "charge" /\ ChargedUnits(c)' = ChargedUnits(c)
               /\ total'[c] = total[c] /\ ChargedUnits(c) \subseteq Int
               /\ \A n \in ChargedUnits(c) : n <= counter
    <3>1. c \in Procs /\ pc[c] = "charge" /\ ChargedUnits(c)' = ChargedUnits(c)
      BY <1>1, <1>8, <2>4, OtherUnits DEF Procs
    <3>2. req[c].cost \in Nat \ {0} /\ ValidLimit(req[c].limit) /\ total[c] \in Int
      BY <1>1, <3>1, SpendRequestType DEF TypeOK, ProcTypeOK
    <3>3. UsageOf(req[c].limit, req[c].cost, total[c]) \in 0..req[c].cost
      BY <3>2, UsageOfBounds
    <3>4. total[c] <= counter
      BY <1>3, <3>1 DEF KeptInv, CounterAhead
    <3>5. ChargedUnits(c) \subseteq Int /\ \A n \in ChargedUnits(c) : n <= total[c]
      BY <3>2, <3>3 DEF ChargedUnits
    <3>6. QED
      BY <1>3, <2>2, <3>1, <3>2, <3>4, <3>5
  <2>5. sold \subseteq (InitialUsage + 1)..counter
    BY <1>3 DEF KeptInv, CounterAhead
  <2>6. CounterAhead'
    <3>1. sold' \subseteq (InitialUsage + 1)..counter'
      BY <1>3, <1>4, <1>6, <2>5
    <3>2. \A q \in Procs : pc'[q] # "reclaim"
      BY <1>3, <1>9, <1>13 DEF KeptInv, CounterAhead
    <3>3. ASSUME NEW c \in Clients, pc'[c] = "charge", c # p
          PROVE  InitialUsage <= total'[c] - req'[c].cost /\ total'[c] <= counter'
      <4>1. c \in Procs /\ pc[c] = "charge" /\ total'[c] = total[c]
        BY <2>4, <3>3 DEF Procs
      <4>2. total[c] \in Int
        BY <1>1, <4>1 DEF TypeOK, ProcTypeOK
      <4>3. total[c] <= counter /\ InitialUsage <= total[c] - req[c].cost
        BY <1>3, <4>1 DEF KeptInv, CounterAhead
      <4>4. QED
        BY <1>3, <1>4, <2>1, <4>1, <4>2, <4>3
    <3>4. InitialUsage <= total'[p] - req'[p].cost /\ total'[p] <= counter'
      BY <1>2, <1>3, <1>4, <2>1, <2>2
    <3>5. QED
      BY <1>4, <1>5, <3>1, <3>2, <3>3, <3>4 DEF CounterAhead
  <2>7. NoUnitSoldTwice'
    <3>1. ChargedUnits(p)' \cap sold' = {}
      BY <1>3, <1>6, <2>3, <2>5
    <3>2. ASSUME NEW c \in Clients \ {p}, pc'[c] = "charge"
          PROVE  ChargedUnits(p)' \cap ChargedUnits(c)' = {}
      BY <1>3, <2>3, <2>4, <3>2
    <3>3. ASSUME NEW c \in Clients \ {p}, pc'[c] = "charge"
          PROVE  ChargedUnits(c)' \cap sold' = {}
      BY <1>6, <2>4, <3>3 DEF KeptInv, NoUnitSoldTwice
    <3>4. ASSUME NEW c \in Clients \ {p}, NEW d \in Clients \ {p}, c # d,
                 pc'[c] = "charge", pc'[d] = "charge"
          PROVE  ChargedUnits(c)' \cap ChargedUnits(d)' = {}
      BY <2>4, <3>4 DEF KeptInv, NoUnitSoldTwice
    <3>5. QED
      BY <3>1, <3>2, <3>3, <3>4 DEF NoUnitSoldTwice
  <2>8. QED
    BY <1>6, <1>11, <2>6, <2>7 DEF KeptInv, SoldWithinLimit, BilledIsSold, Billed
<1>14. QED
  BY <1>12, <1>13

(* What a client about to charge holds: an interval of new units within its  *)
(* limit, as many as it will bill.                                           *)
LEMMA ChargeFacts ==
  ASSUME KeptInv, NEW p \in Clients, pc[p] = "charge"
  PROVE  LET usage == UsageOf(req[p].limit, req[p].cost, total[p])
         IN  /\ Populated /\ counter \in Int /\ usage \in Nat
             /\ ChargedUnits(p) \subseteq (InitialUsage + 1)..counter
             /\ ChargedUnits(p) \subseteq (InitialUsage + 1)..req[p].limit.OverMax
             /\ req[p].limit \in Limits
             /\ IsFiniteSet(ChargedUnits(p)) /\ Cardinality(ChargedUnits(p)) = usage
<1> DEFINE first == total[p] - req[p].cost + 1
<1>1. TypeOK /\ p \in Procs
  BY DEF KeptInv, Procs
<1>2. req[p].op = "spend" /\ total[p] \in Int
  BY <1>1 DEF TypeOK, ProcTypeOK
<1>3. /\ req[p].cost \in Nat \ {0} /\ ValidLimit(req[p].limit) /\ req[p].limit \in Limits
      /\ req[p].limit.OverMax \in Int
  BY <1>1, <1>2, SpendRequestType
<1>4. PICK u \in 0..req[p].cost :
        /\ u = UsageOf(req[p].limit, req[p].cost, total[p])
        /\ u > 0 => total[p] - req[p].cost + u <= req[p].limit.OverMax
  BY <1>2, <1>3, UsageOfBounds
<1>5. ChargedUnits(p) = first..(first + u - 1)
  BY <1>4 DEF ChargedUnits
<1>6. Populated /\ counter \in Int
  BY <1>1 DEF KeptInv, NothingYet, Populated, TypeOK
<1>7. InitialUsage <= total[p] - req[p].cost /\ total[p] <= counter
  BY <1>6 DEF KeptInv, CounterAhead
<1>8. IsFiniteSet(ChargedUnits(p)) /\ Cardinality(ChargedUnits(p)) = u
  <2>1. first \in Int /\ first + u - 1 \in Int
    BY <1>2, <1>3
  <2> HIDE DEF first
  <2>2. /\ IsFiniteSet(first..(first + u - 1))
        /\ Cardinality(first..(first + u - 1))
             = IF first > first + u - 1 THEN 0 ELSE first + u - 1 - first + 1
    BY <2>1, FS_Interval
  <2>3. QED
    BY <1>5, <2>1, <2>2
<1>9. \A n \in ChargedUnits(p) :
        /\ n \in Int /\ InitialUsage + 1 <= n /\ n <= counter /\ n <= req[p].limit.OverMax
  BY <1>2, <1>3, <1>4, <1>5, <1>6, <1>7
<1>10. /\ ChargedUnits(p) \subseteq (InitialUsage + 1)..counter
       /\ ChargedUnits(p) \subseteq (InitialUsage + 1)..req[p].limit.OverMax
  BY <1>3, <1>6, <1>9
<1>11. QED
  BY <1>3, <1>4, <1>6, <1>8, <1>10

(* A charge sells the units of one client and bills as many. *)
LEMMA ChargeKept == ASSUME KeptInv, TypeOK', NEW p \in Clients, Charge(p) PROVE KeptInv'
<1> DEFINE usage == UsageOf(req[p].limit, req[p].cost, total[p])
<1>1. TypeOK /\ p \in Procs /\ pc[p] = "charge" /\ UNCHANGED cache
  BY DEF KeptInv, Charge, Procs
<1>2. /\ Populated /\ counter \in Int /\ usage \in Nat
      /\ ChargedUnits(p) \subseteq (InitialUsage + 1)..counter
      /\ ChargedUnits(p) \subseteq (InitialUsage + 1)..req[p].limit.OverMax
      /\ req[p].limit \in Limits
      /\ IsFiniteSet(ChargedUnits(p)) /\ Cardinality(ChargedUnits(p)) = usage
  BY <1>1, ChargeFacts
<1>3. Moves(p, "idle")
  BY <1>1, ReturnMoves DEF Charge
<1>4. /\ sold' = sold \cup ChargedUnits(p)
      /\ pending' = pending + usage /\ stored' = stored /\ lost' = lost
  BY DEF Charge, GetSpendResult, AddUsage
<1>5. counter' = counter /\ expiry' = expiry /\ Populated'
  BY <1>1, <1>2 DEF cache, Populated
<1>6. \A q \in Procs : pc'[q] = IF q = p THEN "idle" ELSE pc[q]
  BY <1>1, <1>3 DEF Moves, TypeOK, ProcTypeOK
<1>7. \A c \in Clients : pc'[c] = "charge" =>
        /\ c # p /\ pc[c] = "charge" /\ ChargedUnits(c)' = ChargedUnits(c)
        /\ total'[c] = total[c] /\ req'[c] = req[c]
  <2> SUFFICES ASSUME NEW c \in Clients, pc'[c] = "charge"
               PROVE  /\ c # p /\ pc[c] = "charge" /\ ChargedUnits(c)' = ChargedUnits(c)
                      /\ total'[c] = total[c] /\ req'[c] = req[c]
    OBVIOUS
  <2>1. c \in Procs /\ c # p
    BY <1>1, <1>6 DEF Procs
  <2>2. pc'[c] = pc[c] /\ ChargedUnits(c)' = ChargedUnits(c)
    BY <1>1, <1>3, <2>1, OtherUnits
  <2>3. QED
    BY <1>3, <2>1, <2>2 DEF Moves
<1>8. Populating' = Populating /\ Populating = {}
  BY <1>1, <1>2, <1>6 DEF KeptInv, OnePopulator, Populating, Populated
<1>9. OnePopulator' /\ NothingYet'
  BY <1>5, <1>6, <1>8 DEF OnePopulator, NothingYet, Populating
<1>10. sold \subseteq (InitialUsage + 1)..counter
  BY <1>2 DEF KeptInv, CounterAhead
<1>11. CounterAhead'
  <2>1. sold' \subseteq (InitialUsage + 1)..counter'
    BY <1>2, <1>4, <1>5, <1>10
  <2>2. InitialUsage <= counter /\ expiry = "long" /\ \A q \in Procs : pc[q] # "reclaim"
    BY <1>2 DEF KeptInv, CounterAhead
  <2>3. \A c \in Clients : pc[c] = "charge" =>
          InitialUsage <= total[c] - req[c].cost /\ total[c] <= counter
    BY <1>2 DEF KeptInv, CounterAhead
  <2>4. QED
    BY <1>5, <1>6, <1>7, <2>1, <2>2, <2>3 DEF CounterAhead
<1>12. NoUnitSoldTwice'
  BY <1>1, <1>4, <1>7 DEF KeptInv, NoUnitSoldTwice
<1>13. SoldWithinLimit'
  <2>1. CASE sold = {}
    BY <1>2, <1>4, <2>1 DEF SoldWithinLimit
  <2>2. CASE sold # {}
    <3>1. PICK l \in Limits : sold \subseteq (InitialUsage + 1)..l.OverMax
      BY <2>2 DEF KeptInv, SoldWithinLimit
    <3>2. l.OverMax \in Int /\ req[p].limit.OverMax \in Int
      BY <1>2, <3>1, ConstantsAssumption DEF ValidLimit, ServiceLimits
    <3>3. CASE l.OverMax <= req[p].limit.OverMax
      <4>1. sold \subseteq (InitialUsage + 1)..req[p].limit.OverMax
        BY <3>1, <3>2, <3>3
      <4>2. QED
        BY <1>2, <1>4, <4>1 DEF SoldWithinLimit
    <3>4. CASE req[p].limit.OverMax <= l.OverMax
      <4>1. ChargedUnits(p) \subseteq (InitialUsage + 1)..l.OverMax
        BY <1>2, <3>2, <3>4
      <4>2. QED
        BY <1>4, <3>1, <4>1 DEF SoldWithinLimit
    <3>5. QED
      BY <3>2, <3>3, <3>4
  <2>3. QED
    BY <2>1, <2>2
<1>14. IsFiniteSet(sold)' /\ BilledIsSold'
  <2>1. IsFiniteSet(sold) /\ Billed = InitialUsage + Cardinality(sold)
    BY DEF KeptInv, BilledIsSold
  <2>2. sold \cap ChargedUnits(p) = {}
    BY <1>1 DEF KeptInv, NoUnitSoldTwice
  <2>3. /\ IsFiniteSet(sold \cup ChargedUnits(p))
        /\ Cardinality(sold \cup ChargedUnits(p)) = Cardinality(sold) + usage
    <3>1. Cardinality(sold) \in Nat /\ Cardinality({}) = 0
      BY <2>1, FS_CardinalityType, FS_EmptySet
    <3>2. /\ IsFiniteSet(sold \cup ChargedUnits(p))
          /\ Cardinality(sold \cup ChargedUnits(p))
               = Cardinality(sold) + Cardinality(ChargedUnits(p)) - Cardinality({})
      BY <1>2, <2>1, <2>2, FS_Union
    <3>3. Cardinality(ChargedUnits(p)) = usage /\ usage \in Nat
      BY <1>2
    <3> HIDE DEF usage
    <3>4. QED
      BY <3>1, <3>2, <3>3
  <2>4. Billed' = Billed + usage
    BY <1>1, <1>2, <1>4 DEF Billed, TypeOK, LedgerTypeOK
  <2>5. Cardinality(sold) \in Nat
    BY <2>1, FS_CardinalityType
  <2>6. QED
    BY <1>2, <1>4, <2>1, <2>3, <2>4, <2>5 DEF BilledIsSold
<1>15. QED
  BY <1>9, <1>11, <1>12, <1>13, <1>14 DEF KeptInv

(* Redis forgets only a mark whose owner is gone. *)
LEMMA ExpireKept == ASSUME KeptInv, CounterKept, TypeOK', ExpireKey PROVE KeptInv'
<1>1. /\ UNCHANGED <<ledger, procs, history, spends>>
      /\ counter' = Absent /\ counter # Absent /\ expiry = "short" /\ Populating = {}
  BY DEF ExpireKey, CounterKept, SetKey
<1>2. ~Populated /\ ~Populated'
  BY <1>1 DEF KeptInv, CounterAhead, Populated
<1>3. /\ sold' = sold /\ stored' = stored /\ pending' = pending /\ lost' = lost
      /\ pc' = pc /\ total' = total /\ req' = req
  BY <1>1 DEF ledger, procs, history
<1>4. OnePopulator' /\ NothingYet' /\ CounterAhead'
  BY <1>1, <1>2, <1>3 DEF KeptInv, OnePopulator, NothingYet, CounterAhead, Populating
<1>5. \A c \in Clients : pc'[c] # "charge"
  BY <1>2, <1>3 DEF KeptInv, NothingYet, Procs
<1>6. NoUnitSoldTwice' /\ SoldWithinLimit' /\ IsFiniteSet(sold)' /\ BilledIsSold'
  BY <1>3, <1>5 DEF KeptInv, NoUnitSoldTwice, SoldWithinLimit, BilledIsSold, Billed
<1>7. QED
  BY <1>4, <1>6 DEF KeptInv

(* Synchronisation moves what was billed; it bills nothing. *)
LEMMA SyncKept == ASSUME KeptInv, TypeOK', SyncUsage PROVE KeptInv'
<1>1. UNCHANGED <<cache, procs, history, spends>>
  BY DEF SyncUsage
<1>2. /\ counter' = counter /\ expiry' = expiry /\ sold' = sold
      /\ pc' = pc /\ total' = total /\ req' = req
  BY <1>1 DEF cache, procs, history
<1>3. /\ pending \in Nat /\ stored \in Nat /\ lost \in Nat
      /\ \E n \in 1..pending :
           \/ stored' = stored + n /\ pending' = pending - n /\ lost' = lost
           \/ lost' = lost + n /\ pending' = pending - n /\ stored' = stored
  BY DEF SyncUsage, Settle, Drop, KeptInv, TypeOK, LedgerTypeOK
<1>4. Billed' = Billed /\ pending > 0
  BY <1>3 DEF Billed
<1>5. Populated /\ Populated'
  BY <1>2, <1>4 DEF KeptInv, NothingYet, Populated
<1>6. OnePopulator' /\ NothingYet' /\ CounterAhead'
  BY <1>2, <1>5 DEF KeptInv, OnePopulator, NothingYet, CounterAhead, Populating
<1>7. NoUnitSoldTwice'
  BY <1>2 DEF KeptInv, NoUnitSoldTwice, ChargedUnits
<1>8. SoldWithinLimit' /\ IsFiniteSet(sold)' /\ BilledIsSold'
  BY <1>2, <1>4 DEF KeptInv, SoldWithinLimit, BilledIsSold
<1>9. QED
  BY <1>6, <1>7, <1>8 DEF KeptInv

LEMMA CrashKept == ASSUME KeptInv, TypeOK', NEW p \in Procs, Crash(p) PROVE KeptInv'
<1>1. Moves(p, "idle")
  BY ReturnMoves DEF Crash, KeptInv
<1>2. QED
  BY <1>1, ControlStep DEF Crash

LEMMA StepKept ==
  ASSUME KeptInv, CounterKept, TypeOK', NEW p \in Procs, Step(p)
  PROVE  KeptInv'
<1>1. CASE Incr(p) \/ Charge(p)
  <2>1. p \in Clients
    BY <1>1, SpendersAreClients DEF Incr, Charge, KeptInv
  <2>2. QED
    BY <1>1, <2>1, IncrKept, ChargeKept
<1>2. CASE Reclaim(p)   \* while the counter is kept, nobody gets there
  BY <1>2 DEF Reclaim, KeptInv, NothingYet, CounterAhead
<1>3. QED
  BY <1>1, <1>2, PeekKept, ClaimKept, RetryKept, FetchKept, FillKept, RecheckKept
     DEF Step

LEMMA NextKept == CounterKept /\ KeptInv /\ [Next]_vars => KeptInv'
<1> SUFFICES ASSUME CounterKept, KeptInv, [Next]_vars PROVE KeptInv'
  OBVIOUS
<1>1. TypeOK'
  BY NextType DEF KeptInv
<1>2. CASE UNCHANGED vars
  <2>1. /\ counter' = counter /\ expiry' = expiry /\ sold' = sold /\ pc' = pc
        /\ total' = total /\ req' = req
        /\ stored' = stored /\ pending' = pending /\ lost' = lost
    BY <1>2 DEF vars, cache, procs, history, ledger
  <2>2. OnePopulator' /\ NothingYet' /\ CounterAhead'
    BY <2>1 DEF KeptInv, OnePopulator, NothingYet, CounterAhead, Populating, Populated
  <2>3. NoUnitSoldTwice'
    BY <2>1 DEF KeptInv, NoUnitSoldTwice, ChargedUnits
  <2>4. SoldWithinLimit' /\ IsFiniteSet(sold)' /\ BilledIsSold'
    BY <2>1 DEF KeptInv, SoldWithinLimit, BilledIsSold, Billed
  <2>5. QED
    BY <1>1, <2>2, <2>3, <2>4 DEF KeptInv
<1>3. CASE (\E c \in Clients : StartClient(c)) \/ (\E s \in Servers : StartServer(s))
  BY <1>1, <1>3, StartKept
<1>4. CASE \E p \in Procs : Step(p) \/ Crash(p)
  BY <1>1, <1>4, StepKept, CrashKept
<1>5. CASE ExpireKey \/ SyncUsage
  BY <1>1, <1>5, ExpireKept, SyncKept
<1>6. CASE ClearUsage
  BY <1>6 DEF ClearUsage, CounterKept
<1>7. QED
  BY <1>2, <1>3, <1>4, <1>5, <1>6 DEF Next

(* The inductive invariant: while nothing removes or overwrites a populated   *)
(* counter, redis hands every unit to one spend, whatever the interleaving,   *)
(* crashes, failed and repeated commands.                                     *)
THEOREM KeptInvCorrect == CounterKept /\ Spec => []KeptInv
<1>1. CounterKept /\ Spec => [](CounterKept /\ KeptInv)
  <2>1. CounterKept /\ Init => CounterKept /\ KeptInv
    BY InitKept
  <2>2. CounterKept /\ KeptInv /\ [Next]_vars => CounterKept' /\ KeptInv'
    BY NextKept DEF CounterKept
  <2>3. QED
    BY <2>1, <2>2, PTL DEF Spec
<1>2. QED
  BY <1>1, PTL

(* No unit is charged twice, by one client or by two. *)
THEOREM NoUnitIsSoldTwice == CounterKept /\ Spec => []NoUnitSoldTwice
<1>1. KeptInv => NoUnitSoldTwice
  BY DEF KeptInv
<1>2. QED
  BY <1>1, KeptInvCorrect, PTL

(* All that is ever billed lies within a hard limit that was in force. *)
LEMMA KeptHardLimit == KeptInv => HardLimit
<1> SUFFICES ASSUME KeptInv PROVE HardLimit
  OBVIOUS
<1>1. IsFiniteSet(sold) /\ Billed = InitialUsage + Cardinality(sold)
  BY DEF KeptInv, BilledIsSold
<1>2. CASE sold = {}
  BY <1>1, <1>2, FS_EmptySet DEF HardLimit
<1>3. CASE sold # {}
  <2>1. PICK l \in Limits : sold \subseteq (InitialUsage + 1)..l.OverMax
    BY <1>3 DEF KeptInv, SoldWithinLimit
  <2>2. l.OverMax \in Int /\ InitialUsage + 1 <= l.OverMax
    <3>1. l.OverMax \in Int
      BY <2>1, ConstantsAssumption DEF ValidLimit, ServiceLimits
    <3>2. PICK n \in sold : n \in (InitialUsage + 1)..l.OverMax
      BY <1>3, <2>1
    <3>3. QED
      BY <3>1, <3>2
  <2>3. /\ IsFiniteSet((InitialUsage + 1)..l.OverMax)
        /\ Cardinality((InitialUsage + 1)..l.OverMax) = l.OverMax - InitialUsage
    BY <2>2, FS_Interval
  <2>4. Cardinality(sold) \in Nat /\ Cardinality(sold) <= l.OverMax - InitialUsage
    BY <1>1, <2>1, <2>3, FS_Subset, FS_CardinalityType
  <2>5. QED
    BY <1>1, <2>1, <2>2, <2>4 DEF HardLimit
<1>4. QED
  BY <1>2, <1>3

(* The hard limit of a project holds for any number of clients and servers. *)
THEOREM HardLimitHolds == CounterKept /\ Spec => []HardLimit
BY KeptHardLimit, KeptInvCorrect, PTL

(*************************** Single steps ***********************************)

(* Only a step of its own takes a process anywhere. *)
LEMMA StepsMoveOne ==
  ASSUME TypeOK, NEW p \in Procs, NEW c \in Procs, c # p,
         Step(p) \/ Crash(p)
  PROVE  pc'[c] = pc[c]
<1>1. pc \in [Procs -> Labels]
  BY DEF TypeOK, ProcTypeOK
<1>2. ASSUME NEW label, Goto(p, label) PROVE pc'[c] = pc[c]
  BY <1>1, <1>2 DEF Goto
<1>3. ASSUME NEW err, NEW n, Return(p, err, n) PROVE pc'[c] = pc[c]
  BY <1>1, <1>3 DEF Return
<1>4. CacheWait(p) => pc'[c] = pc[c]
  BY <1>2, <1>3 DEF CacheWait
<1>5. \A n : Ensured(p, n) => pc'[c] = pc[c]
  BY <1>2, <1>3 DEF Ensured
<1>6. Peek(p) \/ Claim(p) \/ Fetch(p) \/ Fill(p) => pc'[c] = pc[c]
  BY <1>2, <1>3, <1>4, <1>5 DEF Peek, Claim, Fetch, Fill, SendAgain
<1>7. Retry(p) => pc'[c] = pc[c]
  BY <1>1, <1>3 DEF Retry
<1>8. Recheck(p) \/ Reclaim(p) \/ Incr(p) \/ Charge(p) \/ Crash(p) => pc'[c] = pc[c]
  BY <1>2, <1>3 DEF Recheck, Reclaim, Incr, Charge, Crash, SendAgain
<1> QED
  BY <1>6, <1>7, <1>8 DEF Step

LEMMA AnswerIsOwnStep ==
  ASSUME TypeOK, [Next]_vars, NEW c \in Clients, pc[c] # "idle", pc'[c] = "idle"
  PROVE  Step(c) \/ Crash(c)
<1>0. c \in Procs /\ pc \in [Procs -> Labels]
  BY DEF TypeOK, ProcTypeOK, Procs
<1>1. CASE UNCHANGED vars
  BY <1>1 DEF vars, procs
<1>2. CASE ExpireKey \/ ClearUsage \/ SyncUsage
  BY <1>2 DEF ExpireKey, ClearUsage, SyncUsage, procs
<1>3. ASSUME NEW p \in Procs, NEW r, NEW label, label # "idle", Begin(p, r, label) PROVE FALSE
  BY <1>0, <1>3 DEF Begin
<1>4. CASE \E p \in Clients : StartClient(p)
  <2>1. PICK p \in Clients : StartClient(p)
    BY <1>4
  <2>2. CASE SpendNothing(p)
    BY <1>0, <2>2 DEF SpendNothing, Return
  <2> QED BY <1>3, <2>1, <2>2 DEF StartClient, StartSpend, StartFetchUsage, Procs
<1>5. CASE \E s \in Servers : StartServer(s)
  BY <1>3, <1>5 DEF StartServer, StartGetProjectStatus, StartPrepareUsage, Procs
<1>6. CASE \E p \in Procs : Step(p) \/ Crash(p)
  BY <1>0, <1>6, StepsMoveOne
<1> QED
  BY <1>1, <1>2, <1>4, <1>5, <1>6 DEF Next

(* What the single steps may answer to a spend. *)
LEMMA AnswerOfReturn ==
  ASSUME NEW c \in Clients, NEW err, NEW e, NEW n, Return(c, e, n), reply'.err = err
  PROVE  err = e /\ reply'.total = n
  BY DEF Return

LEMMA NoAnswerOfGoto ==
  ASSUME TypeOK, NEW c \in Clients, NEW label, label # "idle", Goto(c, label)
  PROVE  pc'[c] # "idle"
  BY DEF Goto, TypeOK, ProcTypeOK, Procs

(* Answers without a charge: an error, or the refusal of a full counter. *)
LEMMA ExceededBeforeCharge ==
  ASSUME TypeOK, NEW c \in Clients, req[c].op = "spend", pc'[c] = "idle", pc[c] # "charge",
         Step(c) \/ Crash(c)
  PROVE  /\ reply'.err # "none"
         /\ reply'.err = "exceeded" => counter' >= req[c].limit.OverMax
<1>1. CASE Crash(c)
  BY <1>1 DEF Crash, Return
<1>2. ASSUME NEW n, Ensured(c, n), counter' = n
      PROVE  reply'.err = "exceeded" /\ counter' >= req[c].limit.OverMax
  BY <1>2, NoAnswerOfGoto DEF Ensured, Return
<1>3. CacheWait(c) => FALSE
  BY NoAnswerOfGoto DEF CacheWait, Procs
<1>4. SendAgain(c) => pc[c] = "idle"
  BY DEF SendAgain
<1>5. CASE Peek(c)
  BY <1>2, <1>3, <1>5, NoAnswerOfGoto DEF Peek, Return, cache
<1>6. CASE Claim(c)
  BY <1>3, <1>6, <1>4, NoAnswerOfGoto DEF Claim, Return
<1>7. CASE Retry(c)
  BY <1>7 DEF Retry, Return, TypeOK, ProcTypeOK, Procs
<1>8. CASE Fetch(c)
  BY <1>8, NoAnswerOfGoto DEF Fetch, Return
<1>9. CASE Fill(c)
  BY <1>2, <1>9, <1>4, NoAnswerOfGoto DEF Fill, Return, SetKey
<1>10. CASE Recheck(c)
  BY <1>10, NoAnswerOfGoto DEF Recheck, Return, cache
<1>11. CASE Reclaim(c)
  BY <1>11, <1>4 DEF Reclaim, Return
<1>12. CASE Incr(c)
  BY <1>12, <1>4, NoAnswerOfGoto DEF Incr, Return
<1> QED
  BY <1>1, <1>5, <1>6, <1>7, <1>8, <1>9, <1>10, <1>11, <1>12 DEF Step, Charge

(* An accepted spend is charged what it costs and ends within the limit. *)
LEMMA AcceptedCharge ==
  ASSUME TypeOK, NEW c \in Clients, Charge(c), reply'.err = "none"
  PROVE  reply'.total <= req[c].limit.OverMax /\ pending' = pending + req[c].cost
<1> DEFINE usage == UsageOf(req[c].limit, req[c].cost, total[c])
<1>1. c \in Procs /\ pc[c] = "charge" /\ req[c].op = "spend" /\ total[c] \in Int
  BY DEF Charge, TypeOK, ProcTypeOK, Procs
<1>2. /\ req[c].cost \in Nat \ {0} /\ ValidLimit(req[c].limit)
      /\ req[c].limit.OverMax \in Int
  BY <1>1, SpendRequestType
<1>3. /\ usage \in 0..req[c].cost
      /\ usage > 0 => total[c] - req[c].cost + usage <= req[c].limit.OverMax
  BY <1>1, <1>2, UsageOfBounds
<1>4. /\ usage >= req[c].cost /\ Return(c, "none", total[c])
      /\ pending' = pending + usage
  BY DEF Charge, GetSpendResult, Return, AddUsage
<1> HIDE DEF usage
<1>5. usage = req[c].cost /\ usage > 0
  BY <1>2, <1>3, <1>4
<1> QED
  BY <1>1, <1>2, <1>3, <1>4, <1>5 DEF Return

(* A spend that is not charged in full reached the hard limit. *)
LEMMA CutCharge ==
  ASSUME KeptInv, NEW c \in Clients, Charge(c), reply'.err = "exceeded"
  PROVE  counter' >= req[c].limit.OverMax
<1>1. c \in Procs /\ pc[c] = "charge" /\ req[c].op = "spend" /\ total[c] \in Int /\ TypeOK
  BY DEF KeptInv, Charge, TypeOK, ProcTypeOK, Procs
<1>2. req[c].cost \in Nat \ {0} /\ ValidLimit(req[c].limit)
  BY <1>1, SpendRequestType
<1>3. UsageOf(req[c].limit, req[c].cost, total[c]) < req[c].cost /\ counter' = counter
  BY DEF Charge, GetSpendResult, Return, cache
<1>4. total[c] >= req[c].limit.OverMax
  BY <1>1, <1>2, <1>3 DEF UsageOf, ValidLimit, ServiceLimits
<1>5. Populated /\ counter \in Int
  BY <1>1 DEF KeptInv, NothingYet, Populated, TypeOK
<1>6. total[c] <= counter
  BY <1>1, <1>5 DEF KeptInv, CounterAhead
<1> QED
  BY <1>1, <1>2, <1>3, <1>4, <1>5, <1>6 DEF ValidLimit, ServiceLimits

(* An answer "exceeded" is only given to a spend. *)
LEMMA OnlySpendsExceed ==
  ASSUME TypeOK, NEW c \in Clients, req[c].op # "spend", Step(c) \/ Crash(c), pc'[c] = "idle"
  PROVE  reply'.err # "exceeded"
<1>1. pc[c] \notin {"incr", "charge"} /\ req[c].op # "status" /\ c \in Procs
  BY DEF TypeOK, ProcTypeOK, Procs
<1>2. pc[c] \notin {"recheck", "reclaim"}
  BY <1>1 DEF TypeOK, ProcTypeOK
<1>3. \A n : Ensured(c, n) => reply'.err # "exceeded"
  BY DEF Ensured, Return
<1>4. CacheWait(c) => FALSE
  BY NoAnswerOfGoto DEF CacheWait, Procs
<1>5. SendAgain(c) => pc[c] = "idle"
  BY DEF SendAgain
<1> QED
  BY <1>1, <1>2, <1>3, <1>4, <1>5, NoAnswerOfGoto
     DEF Step, Crash, Peek, Claim, Retry, Fetch, Fill, Recheck, Reclaim, Incr, Charge, Return,
         TypeOK, ProcTypeOK

LEMMA AcceptedStep ==
  ASSUME TypeOK, [Next]_vars, NEW c \in Clients, Answered(c, "none"), req[c].op = "spend"
  PROVE  reply'.total <= req[c].limit.OverMax /\ pending' = pending + req[c].cost
<1>1. Step(c) \/ Crash(c)
  BY AnswerIsOwnStep DEF Answered
<1>2. pc[c] = "charge"
  BY <1>1, ExceededBeforeCharge DEF Answered
<1>3. Charge(c)
  BY <1>1, <1>2 DEF Answered, Crash, Return, Step, Peek, Claim, Retry, Fetch, Fill, Recheck, Reclaim, Incr
<1> QED
  BY <1>3, AcceptedCharge DEF Answered

LEMMA RefusedStep ==
  ASSUME KeptInv, [Next]_vars, NEW c \in Clients, Answered(c, "exceeded")
  PROVE  counter' >= req[c].limit.OverMax
<1>0. TypeOK
  BY DEF KeptInv
<1>1. Step(c) \/ Crash(c)
  BY <1>0, AnswerIsOwnStep DEF Answered
<1>2. req[c].op = "spend"
  BY <1>0, <1>1, OnlySpendsExceed DEF Answered
<1>3. CASE pc[c] # "charge"
  BY <1>0, <1>1, <1>2, <1>3, ExceededBeforeCharge DEF Answered
<1>4. CASE pc[c] = "charge"
  <2>1. Charge(c)
    BY <1>1, <1>4 DEF Answered, Crash, Return, Step, Peek, Claim, Retry, Fetch, Fill, Recheck, Reclaim, Incr
  <2> QED BY <2>1, CutCharge DEF Answered
<1> QED
  BY <1>3, <1>4

(* Under every fault, a client whose spend is accepted is charged for all of  *)
(* it, in the step that answers it, and the total it is told lies within the  *)
(* hard limit it was checked against (SpendQuota's last lines).               *)
THEOREM AcceptedIsAlwaysCharged == Spec => AcceptedIsCharged
<1>1. TypeOK /\ [Next]_vars =>
        [\A c \in Clients :
           Answered(c, "none") /\ req[c].op = "spend"
             => /\ reply'.total <= req[c].limit.OverMax
                /\ pending' = pending + req[c].cost]_vars
  BY AcceptedStep
<1> QED
  BY <1>1, TypeCorrect, PTL DEF Spec, AcceptedIsCharged

(* While the counter is kept, whoever is told "quota exceeded" meets a counter *)
(* that has reached the hard limit of his own quota.                           *)
THEOREM RefusedWhenFull == CounterKept /\ Spec => RefusedOnlyWhenFull
<1>1. KeptInv /\ [Next]_vars =>
        [\A c \in Clients :
           Answered(c, "exceeded") => counter' >= req[c].limit.OverMax]_vars
  BY RefusedStep
<1> QED
  BY <1>1, KeptInvCorrect, PTL DEF Spec, RefusedOnlyWhenFull

-----------------------------------------------------------------------------
(* The counter. *)

LEMMA CounterStep ==
  ASSUME CounterKept, KeptInv, [Next]_vars, Populated
  PROVE  Populated' /\ counter' >= counter
<1>0. /\ counter \in Int /\ counter # SpecialValue /\ counter # Absent
      /\ InitialUsage <= counter /\ expiry = "long" /\ TypeOK
  BY DEF KeptInv, TypeOK, Populated, CounterAhead
<1>1. CASE counter' = counter
  BY <1>0, <1>1 DEF Populated
<1>2. ASSUME NEW p \in Procs, Step(p) \/ Crash(p) PROVE Populated' /\ counter' >= counter
  <2>1. CASE Fill(p)
    BY <1>0, <2>1 DEF Fill, KeptInv, OnePopulator, Populating
  <2>2. CASE Incr(p)
    <3>1. req[p].op = "spend"
      BY <1>0, <2>2 DEF Incr, TypeOK, ProcTypeOK
    <3>2. req[p].cost \in Nat \ {0}
      BY <1>0, <3>1, SpendRequestType
    <3>3. \A n \in Nat \ {0} : IncrementKey(n) => counter' = counter + n
      BY <1>0 DEF IncrementKey, SetKey
    <3>4. counter' \in {counter, counter + req[p].cost}
      BY <2>2, <3>2, <3>3 DEF Incr, cache
    <3>5. counter' \in Int /\ counter' >= counter
      BY <1>0, <3>2, <3>4
    <3>6. counter' # Absent
      BY <3>5, ConstantsAssumption
    <3>7. counter' # SpecialValue
      BY <1>0, <3>5, InitialUsageAssumption DEF SpecialValue
    <3> QED
      BY <3>5, <3>6, <3>7 DEF Populated
  <2>3. CASE Claim(p)
    BY <1>0, <1>1, <2>3 DEF Claim, cache
  <2>4. CASE Reclaim(p)
    BY <1>0, <1>1, <2>4 DEF Reclaim, cache
  <2>5. CASE Peek(p) \/ Retry(p) \/ Fetch(p) \/ Recheck(p) \/ Charge(p) \/ Crash(p)
    BY <1>1, <2>5 DEF Peek, Retry, Fetch, Recheck, Charge, Crash, cache
  <2> QED BY <1>2, <2>1, <2>2, <2>3, <2>4, <2>5 DEF Step
<1>3. CASE ExpireKey \/ ClearUsage
  BY <1>0, <1>3 DEF ExpireKey, ClearUsage, CounterKept
<1>4. CASE UNCHANGED vars \/ SyncUsage
  BY <1>1, <1>4 DEF vars, SyncUsage, cache
<1>5. CASE (\E c \in Clients : StartClient(c)) \/ (\E s \in Servers : StartServer(s))
  BY <1>1, <1>5 DEF StartClient, StartServer, StartSpend, SpendNothing, StartFetchUsage,
                    StartGetProjectStatus, StartPrepareUsage, Begin, cache
<1> QED
  BY <1>2, <1>3, <1>4, <1>5 DEF Next

(* While nothing drops the counter, no step of any process does so either: a  *)
(* populated counter stays and only grows, though SetUsage writes whatever    *)
(* the key holds (client.go EnsureUsage).                                     *)
THEOREM CounterOnlyGrows == CounterKept /\ Spec => CounterNeverFalls
<1>1. CounterKept /\ KeptInv /\ [Next]_vars
        => [Populated => Populated' /\ counter' >= counter]_vars
  BY CounterStep
<1>2. CounterKept /\ Spec => [](CounterKept /\ KeptInv)
  <2>1. CounterKept => CounterKept'
    BY DEF CounterKept
  <2> QED BY <2>1, KeptInvCorrect, PTL DEF Spec
<1> QED
  BY <1>1, <1>2, PTL DEF Spec, CounterNeverFalls

(* A mark without the short expiry could only come from an addition or a fill *)
(* that gives -1 by arithmetic: counters are never below the mark, and the    *)
(* usage fetched from the store is not negative.                              *)
MarkInv ==
  /\ MarkExpires
  /\ counter # Absent => counter >= SpecialValue
  /\ \A p \in Procs : pc[p] = "fill" => total[p] \in Nat

LEMMA MarkStep ==
  ASSUME TypeOK, MarkInv, NEW p \in Procs, Step(p) \/ Crash(p)
  PROVE  MarkInv'
<1>0. /\ pc \in [Procs -> Labels] /\ total \in [Procs -> Int] /\ stored \in Nat
      /\ counter \in Int \cup {Absent}
  BY DEF TypeOK, ProcTypeOK, LedgerTypeOK
<1>1. \A q \in Procs : q # p => pc'[q] = pc[q]
  BY StepsMoveOne
<1>2. ASSUME \/ counter' = counter /\ expiry' = expiry
             \/ counter' = SpecialValue /\ expiry' = "short"
             \/ counter' \in Nat
      PROVE  MarkExpires' /\ (counter' # Absent => counter' >= SpecialValue)
  BY <1>2 DEF MarkInv, MarkExpires, SpecialValue
<1>3. MarkExpires' /\ (counter' # Absent => counter' >= SpecialValue)
  <2>1. CASE Fill(p)
    BY <1>2, <2>1 DEF Fill, SetKey, MarkInv, cache
  <2>2. CASE Incr(p)
    <3>1. req[p].op = "spend"
      BY <2>2 DEF Incr, TypeOK, ProcTypeOK
    <3>2. req[p].cost \in Nat \ {0}
      BY <3>1, SpendRequestType
    <3>3. \A n \in Nat \ {0} : IncrementKey(n) => counter' \in Nat
      BY <1>0 DEF IncrementKey, SetKey, MarkInv, SpecialValue
    <3>4. counter' \in Nat \/ UNCHANGED cache
      BY <2>2, <3>2, <3>3 DEF Incr
    <3> QED BY <1>2, <3>4 DEF cache
  <2>3. CASE Claim(p) \/ Reclaim(p)
    BY <1>2, <2>3 DEF Claim, Reclaim, Mark, SetKey, cache
  <2>4. CASE Peek(p) \/ Retry(p) \/ Fetch(p) \/ Recheck(p) \/ Charge(p) \/ Crash(p)
    BY <1>2, <2>4 DEF Peek, Retry, Fetch, Recheck, Charge, Crash, cache
  <2> QED BY <2>1, <2>2, <2>3, <2>4 DEF Step
<1>4. \A q \in Procs : q # p => total'[q] = total[q]
  <2>1. \A label : Goto(p, label) /\ UNCHANGED total => \A q \in Procs : q # p => total'[q] = total[q]
    BY DEF Goto
  <2>2. \A err, n : Return(p, err, n) => \A q \in Procs : q # p => total'[q] = total[q]
    BY <1>0 DEF Return
  <2>3. CacheWait(p) => \A q \in Procs : q # p => total'[q] = total[q]
    BY <2>1, <2>2 DEF CacheWait
  <2>4. \A n : Ensured(p, n) => \A q \in Procs : q # p => total'[q] = total[q]
    BY <2>1, <2>2 DEF Ensured
  <2>5. Peek(p) \/ Claim(p) \/ Retry(p) \/ Fill(p) => \A q \in Procs : q # p => total'[q] = total[q]
    BY <2>1, <2>2, <2>3, <2>4 DEF Peek, Claim, Retry, Fill, SendAgain
  <2>6. Fetch(p) \/ Incr(p) => \A q \in Procs : q # p => total'[q] = total[q]
    BY <1>0, <2>2 DEF Fetch, Incr, SendAgain
  <2>7. Recheck(p) \/ Reclaim(p) \/ Charge(p) \/ Crash(p) => \A q \in Procs : q # p => total'[q] = total[q]
    BY <2>1, <2>2 DEF Recheck, Reclaim, Charge, Crash, SendAgain
  <2> QED BY <2>5, <2>6, <2>7 DEF Step
<1>5. pc'[p] = "fill" => total'[p] \in Nat
  <2>1. \A label : Goto(p, label) => pc'[p] = label
    BY <1>0 DEF Goto
  <2>2. \A err, n : Return(p, err, n) => pc'[p] = "idle"
    BY <1>0 DEF Return
  <2>3. (CacheWait(p) => pc'[p] # "fill") /\ (\A n : Ensured(p, n) => pc'[p] # "fill")
    BY <2>1, <2>2 DEF CacheWait, Ensured
  <2>4. CASE Fetch(p)
    BY <1>0, <2>2, <2>4 DEF Fetch
  <2>5. CASE Retry(p)
    BY <1>0, <2>2, <2>5 DEF Retry
  <2>6. CASE SendAgain(p)
    BY <2>6 DEF SendAgain, MarkInv
  <2>7. CASE Peek(p) \/ Claim(p) \/ Fill(p)
    BY <2>1, <2>2, <2>3, <2>6, <2>7 DEF Peek, Claim, Fill
  <2>8. CASE Recheck(p) \/ Reclaim(p) \/ Incr(p) \/ Charge(p) \/ Crash(p)
    BY <2>1, <2>2, <2>6, <2>8 DEF Recheck, Reclaim, Incr, Charge, Crash
  <2> QED BY <2>4, <2>5, <2>7, <2>8 DEF Step
<1>6. \A q \in Procs : pc'[q] = "fill" => total'[q] \in Nat
  BY <1>1, <1>4, <1>5 DEF MarkInv
<1> QED
  BY <1>3, <1>6 DEF MarkInv

LEMMA MarkNext == TypeOK /\ MarkInv /\ [Next]_vars => MarkInv'
<1> SUFFICES ASSUME TypeOK, MarkInv, [Next]_vars PROVE MarkInv'
  OBVIOUS
<1>0. pc \in [Procs -> Labels]
  BY DEF TypeOK, ProcTypeOK
<1>1. CASE UNCHANGED vars \/ SyncUsage
  BY <1>1 DEF vars, SyncUsage, cache, procs, MarkInv, MarkExpires
<1>2. CASE ExpireKey \/ ClearUsage
  BY <1>2, ConstantsAssumption DEF ExpireKey, ClearUsage, SetKey, procs, MarkInv, MarkExpires, SpecialValue
<1>3. ASSUME NEW p \in Procs, NEW r, NEW label, label # "fill", Begin(p, r, label) PROVE MarkInv'
  BY <1>0, <1>3 DEF Begin, cache, MarkInv, MarkExpires
<1>4. ASSUME NEW p \in Procs, SpendNothing(p) PROVE MarkInv'
  <2>1. \A q \in Procs : pc'[q] = "fill" => total'[q] = total[q] /\ pc[q] = "fill"
    BY <1>0, <1>4 DEF SpendNothing, Return, TypeOK, ProcTypeOK
  <2> QED BY <1>4, <2>1 DEF SpendNothing, cache, MarkInv, MarkExpires
<1>5. CASE (\E c \in Clients : StartClient(c)) \/ (\E s \in Servers : StartServer(s))
  BY <1>3, <1>4, <1>5 DEF StartClient, StartServer, StartSpend, StartFetchUsage,
                          StartGetProjectStatus, StartPrepareUsage, Procs
<1>6. CASE \E p \in Procs : Step(p) \/ Crash(p)
  BY <1>6, MarkStep
<1> QED
  BY <1>1, <1>2, <1>5, <1>6 DEF Next

(* Under every fault, the mark left in the key has the two-second expiry: no  *)
(* addition, fill or lost answer can lock the counter of a project for good.  *)
THEOREM MarkAlwaysExpires == Spec => []MarkExpires
<1>1. Init => MarkInv
  BY ConstantsAssumption DEF Init, MarkInv, MarkExpires, SpecialValue
<1>2. Spec => []MarkInv
  BY <1>1, MarkNext, TypeCorrect, PTL DEF Spec
<1>3. MarkInv => MarkExpires
  BY DEF MarkInv
<1> QED
  BY <1>2, <1>3, PTL

-----------------------------------------------------------------------------
(* Events and the budget. *)

(* Only charges and synchronisation touch what is sold, notified or billed. *)
LEMMA HistoryStep ==
  ASSUME TypeOK, [Next]_vars
  PROVE  UNCHANGED <<ledger, history>> \/ SyncUsage \/ \E c \in Clients : Charge(c)
<1>1. ASSUME NEW p \in Procs, ~Charge(p), Step(p) \/ Crash(p) PROVE UNCHANGED <<ledger, history>>
  <2>1. Peek(p) => UNCHANGED <<ledger, history>>
    BY DEF Peek
  <2>2. Claim(p) \/ Retry(p) => UNCHANGED <<ledger, history>>
    BY DEF Claim, Retry
  <2>3. Fetch(p) \/ Fill(p) => UNCHANGED <<ledger, history>>
    BY DEF Fetch, Fill
  <2>4. Recheck(p) \/ Reclaim(p) => UNCHANGED <<ledger, history>>
    BY DEF Recheck, Reclaim
  <2>5. Incr(p) \/ Crash(p) => UNCHANGED <<ledger, history>>
    BY DEF Incr, Crash
  <2> QED BY <1>1, <2>1, <2>2, <2>3, <2>4, <2>5 DEF Step
<1>2. \A p \in Procs : Charge(p) => p \in Clients
  <2> SUFFICES ASSUME NEW p \in Procs, Charge(p) PROVE p \in Clients
    OBVIOUS
  <2>1. req[p].op = "spend" /\ pc[p] = "charge"
    BY DEF Charge, TypeOK, ProcTypeOK
  <2> QED BY <2>1, SpendersAreClients
<1>3. CASE UNCHANGED vars \/ SyncUsage \/ ExpireKey \/ ClearUsage
  BY <1>3 DEF vars, SyncUsage, ExpireKey, ClearUsage
<1>4. CASE (\E c \in Clients : StartClient(c)) \/ (\E s \in Servers : StartServer(s))
  BY <1>4 DEF StartClient, StartServer, StartSpend, SpendNothing, StartFetchUsage,
              StartGetProjectStatus, StartPrepareUsage, Begin
<1> QED
  BY <1>1, <1>2, <1>3, <1>4 DEF Next

(* An event is notified by the spend that was charged for the unit of its     *)
(* threshold, and a unit is charged once.                                     *)
EventInv ==
  \A l \in Limits : Limits = {l} =>
    \A e \in EventTypes : notified[e] \in {0, 1} /\ (notified[e] = 1 => Threshold(l, e) \in sold)

LEMMA EventStep ==
  ASSUME KeptInv, EventInv, NEW c \in Clients, Charge(c)
  PROVE  EventInv'
<1> DEFINE cost == req[c].cost
           event == EventOf(req[c].limit, cost, total[c])
           usage == UsageOf(req[c].limit, cost, total[c])
<1>1. TypeOK /\ pc[c] = "charge" /\ c \in Procs
  BY DEF KeptInv, Charge, Procs
<1>2. req[c].op = "spend" /\ total[c] \in Int
  BY <1>1 DEF TypeOK, ProcTypeOK
<1>3. cost \in Nat \ {0} /\ req[c].limit \in Limits /\ ValidLimit(req[c].limit)
  BY <1>1, <1>2, SpendRequestType
<1>4. sold' = sold \cup ChargedUnits(c)
  BY DEF Charge
<1>5. \/ UNCHANGED notified
      \/ /\ usage >= cost
         /\ notified' = [e \in EventTypes |-> notified[e] + IF e = event THEN 1 ELSE 0]
  BY DEF Charge, GetSpendResult
<1>6. notified \in [EventTypes -> Nat]
  BY <1>1 DEF TypeOK
<1> SUFFICES ASSUME NEW l \in Limits, Limits = {l}, NEW e \in EventTypes
             PROVE  notified'[e] \in {0, 1} /\ (notified'[e] = 1 => Threshold(l, e) \in sold')
  BY DEF EventInv
<1>7. notified[e] \in {0, 1} /\ (notified[e] = 1 => Threshold(l, e) \in sold)
  BY DEF EventInv
<1>8. CASE notified'[e] = notified[e]
  BY <1>4, <1>7, <1>8
<1>9. CASE usage >= cost /\ e = event /\ notified'[e] = notified[e] + 1
  <2>1. e # NoEvent
    BY DEF EventTypes, NoEvent
  <2>2. Threshold(l, e) \in (total[c] - cost + 1)..total[c]
    <3>1. Threshold(req[c].limit, event) \in (total[c] - cost + 1)..total[c]
      BY <1>2, <1>3, <1>9, <2>1, EventMeetsThreshold
    <3> QED BY <1>3, <1>9, <3>1
  <2>3. usage = cost
    <3>1. usage \in 0..cost
      BY <1>2, <1>3, UsageOfBounds
    <3> HIDE DEF usage, cost
    <3> QED BY <1>3, <1>9, <3>1
  <2>4. Threshold(l, e) \in ChargedUnits(c)
    BY <1>2, <1>3, <2>2, <2>3 DEF ChargedUnits
  <2>5. Threshold(l, e) \notin sold
    BY <1>1, <2>4 DEF KeptInv, NoUnitSoldTwice
  <2> QED BY <1>4, <1>7, <1>9, <2>4, <2>5
<1> QED
  BY <1>5, <1>6, <1>8, <1>9

(* While the counter is kept, no threshold of a project's only limit is       *)
(* notified twice, though each client decides from its own total.             *)
THEOREM EventsAreNotifiedOnce == CounterKept /\ Spec => []EventsOnce
<1>1. Init => EventInv
  BY DEF Init, EventInv
<1>2. KeptInv /\ EventInv /\ [Next]_vars => EventInv'
  <2> SUFFICES ASSUME KeptInv, EventInv, [Next]_vars PROVE EventInv'
    OBVIOUS
  <2>1. CASE UNCHANGED history
    BY <2>1 DEF history, EventInv
  <2>2. SyncUsage => UNCHANGED history
    BY DEF SyncUsage
  <2> QED BY <2>1, <2>2, HistoryStep, EventStep DEF KeptInv
<1>3. EventInv => EventsOnce
  BY DEF EventInv, EventsOnce
<1> QED
  BY <1>1, <1>2, <1>3, KeptInvCorrect, PTL DEF Spec

(* A charge is a sale of the budget, or charges nothing. *)
LEMMA ChargeSells ==
  ASSUME KeptInv, NEW c \in Clients, Charge(c)
  PROVE  Budget!Sell(sold' \ sold) \/ UNCHANGED <<ledger, sold>>
<1> DEFINE units == ChargedUnits(c)
           usage == UsageOf(req[c].limit, req[c].cost, total[c])
<1>1. /\ usage \in Nat /\ units \subseteq (InitialUsage + 1)..req[c].limit.OverMax
      /\ req[c].limit \in Limits
      /\ IsFiniteSet(units) /\ Cardinality(units) = usage
  BY ChargeFacts DEF Charge
<1>2. sold' = sold \cup units /\ AddUsage(usage)
  BY DEF Charge, GetSpendResult
<1>3. units \cap sold = {}
  BY DEF KeptInv, NoUnitSoldTwice, Charge
<1> HIDE DEF units, usage
<1>4. sold' \ sold = units
  BY <1>2, <1>3
<1>5. CASE units = {}
  <2>1. usage = 0
    BY <1>1, <1>5, FS_EmptySet
  <2> QED BY <1>2, <1>5, <2>1 DEF AddUsage, ledger, KeptInv, TypeOK, LedgerTypeOK
<1>6. CASE units # {}
  <2>1. Budget!Cardinality(units) = Cardinality(units)
    BY DEF Cardinality, Budget!Cardinality
  <2>2. Budget!AddUsage(Budget!Cardinality(units))
    BY <1>1, <1>2, <2>1 DEF AddUsage, Budget!AddUsage
  <2> QED BY <1>1, <1>2, <1>3, <1>4, <1>6, <2>2 DEF Budget!Sell
<1> QED
  BY <1>5, <1>6

LEMMA BudgetStep ==
  ASSUME KeptInv, [Next]_vars
  PROVE  Budget!BudgetNext \/ UNCHANGED <<ledger, sold>>
<1>1. CASE UNCHANGED <<ledger, history>>
  BY <1>1 DEF history
<1>2. CASE SyncUsage
  <2>1. PICK n \in 1..pending : Settle(n) \/ Drop(n)
    BY <1>2 DEF SyncUsage
  <2>2. UNCHANGED sold /\ stored \in Nat /\ lost \in Nat /\ n \in Int
    BY <1>2 DEF SyncUsage, history, KeptInv, TypeOK, LedgerTypeOK
  <2>3. CASE Settle(n)
    <3>1. stored' - stored = n
      BY <2>2, <2>3 DEF Settle
    <3> QED BY <2>2, <2>3, <3>1 DEF Settle, Budget!Settle, Budget!BudgetNext
  <2>4. CASE Drop(n)
    <3>1. lost' - lost = n
      BY <2>2, <2>4 DEF Drop
    <3> QED BY <2>2, <2>4, <3>1 DEF Drop, Budget!Drop, Budget!BudgetNext
  <2> QED BY <2>1, <2>3, <2>4
<1>3. CASE \E c \in Clients : Charge(c)
  BY <1>3, ChargeSells DEF Budget!BudgetNext
<1> QED
  BY <1>1, <1>2, <1>3, HistoryStep DEF KeptInv

(* While the counter is kept, the racing spends of all clients are one quota  *)
(* budget that sells each unit once and nothing beyond a limit.               *)
THEOREM SpendsAreOneBudget == CounterKept /\ Spec => SoldAsOneBudget
<1>1. Init => Budget!BudgetInit
  BY DEF Init, LedgerInit, Budget!BudgetInit, Budget!LedgerInit
<1>2. KeptInv /\ [Next]_vars => [Budget!BudgetNext]_<<Budget!ledger, sold>>
  BY BudgetStep DEF ledger, Budget!ledger
<1> QED
  BY <1>1, <1>2, KeptInvCorrect, PTL DEF Spec, SoldAsOneBudget, Budget!BudgetSpec
-----------------------------------------------------------------------------
(* Nothing is wasted: what the counter gave out is charged or about to be.  *)

Claimed == sold \cup Reserved
Cut(n, cap) == IF n < cap THEN n ELSE cap

LEMMA ReservedIs ==
  ASSUME NEW n
  PROVE  n \in Reserved <=> \E c \in Clients : pc[c] = "charge" /\ n \in ChargedUnits(c)
  BY DEF Reserved

(* A process that neither takes units nor lets go of any. *)
LEMMA QuietClaims ==
  ASSUME TypeOK, NEW p \in Procs, NEW label, Moves(p, label), label # "charge", pc[p] # "charge",
         sold' = sold
  PROVE  Claimed' = Claimed
<1>1. \A c \in Clients : pc'[c] = "charge" <=> pc[c] = "charge"
  BY DEF Moves, TypeOK, ProcTypeOK, Procs
<1>2. ASSUME NEW c \in Clients, pc[c] = "charge"
      PROVE  ChargedUnits(c)' = ChargedUnits(c)
  BY <1>2, OtherUnits
<1>3. ASSUME NEW n
      PROVE  n \in Reserved' <=> n \in Reserved
<2>1. n \in Reserved' <=> \E c \in Clients : pc'[c] = "charge" /\ n \in ChargedUnits(c)'
  BY DEF Reserved
<2> QED
  BY <1>1, <1>2, <2>1, ReservedIs
<1> QED
  BY <1>3 DEF Claimed

LEMMA ChargeClaims ==
  ASSUME TypeOK, NEW p \in Clients, Charge(p)
  PROVE  Claimed' = Claimed
<1>1. p \in Procs /\ pc[p] = "charge" /\ sold' = sold \cup ChargedUnits(p) /\ Moves(p, "idle")
  BY ReturnMoves DEF Charge, Procs
<1>2. \A c \in Clients : pc'[c] = "charge" <=> pc[c] = "charge" /\ c # p
  BY <1>1 DEF Moves, TypeOK, ProcTypeOK, Procs
<1>3. ASSUME NEW c \in Clients, c # p
      PROVE  ChargedUnits(c)' = ChargedUnits(c)
  BY <1>1, <1>3, OtherUnits
<1>4. ASSUME NEW n
      PROVE  n \in Claimed' <=> n \in Claimed
<2>1. n \in Reserved' <=> \E c \in Clients : pc'[c] = "charge" /\ n \in ChargedUnits(c)'
  BY DEF Reserved
<2>2. n \in Reserved <=> n \in Reserved' \/ n \in ChargedUnits(p)
  BY <1>1, <1>2, <1>3, <2>1, ReservedIs
<2> QED
  BY <1>1, <2>2 DEF Claimed
<1> QED
  BY <1>4

(* INCRBY hands out the next units, as far as the limit goes. *)
LEMMA IncrClaims ==
  ASSUME KeptInv, NEW p \in Clients, Incr(p), "redis" \notin Faults, NEW l, Limits = {l},
         Claimed = (InitialUsage + 1)..Cut(counter, l.OverMax)
  PROVE  Claimed' = (InitialUsage + 1)..Cut(counter', l.OverMax)
<1> DEFINE cost == req[p].cost
<1>1. p \in Procs /\ pc[p] = "incr" /\ TypeOK /\ sold' = sold /\ req[p].op = "spend"
  BY DEF Incr, Procs, KeptInv, history, TypeOK, ProcTypeOK
<1>2. cost \in Nat \ {0} /\ req[p].limit = l /\ ValidLimit(l) /\ l.OverMax \in Int
  BY <1>1, SpendRequestType
<1>3. Populated /\ counter \in Int /\ counter # Absent /\ InitialUsage <= counter
  BY <1>1 DEF KeptInv, NothingYet, CounterAhead, Populated, TypeOK
<1>4. Goto(p, "charge") /\ counter' = counter + cost /\ total' = [total EXCEPT ![p] = counter']
  BY <1>3 DEF Incr, IncrementKey, SetKey
<1>5. Moves(p, "charge") /\ req' = req
  BY <1>1, <1>4, GotoMoves DEF TypeOK, ProcTypeOK
<1>6. total'[p] = counter + cost
  BY <1>1, <1>4 DEF TypeOK, ProcTypeOK
<1>7. PICK u \in 0..cost : u = UsageOf(l, cost, counter + cost)
  BY <1>2, <1>3, UsageOfBounds
<1>8. ChargedUnits(p)' = (counter + 1)..(counter + u)
<2>1. req'[p].cost = cost /\ req'[p].limit = l
  BY <1>2, <1>5
<2>2. total'[p] - req'[p].cost + 1 = counter + 1
  BY <1>2, <1>3, <1>6, <2>1
<2>3. UsageOf(req'[p].limit, req'[p].cost, total'[p]) = u
  BY <1>6, <1>7, <2>1
<2>4. ChargedUnits(p)' = (counter + 1)..(counter + 1 + u - 1)
  BY <2>2, <2>3 DEF ChargedUnits
<2>5. counter + 1 + u - 1 = counter + u
  BY <1>2, <1>3, <1>7
<2> QED
  BY <2>4, <2>5
<1>9. \A c \in Clients : pc'[c] = "charge" <=> pc[c] = "charge" \/ c = p
  BY <1>1, <1>5 DEF Moves, TypeOK, ProcTypeOK, Procs
<1>10. ASSUME NEW c \in Clients, c # p
       PROVE  ChargedUnits(c)' = ChargedUnits(c)
  BY <1>1, <1>5, <1>10, OtherUnits
<1>11. ASSUME NEW n
       PROVE  n \in Claimed' <=> n \in Claimed \/ n \in (counter + 1)..(counter + u)
<2>1. n \in Reserved' <=> \E c \in Clients : pc'[c] = "charge" /\ n \in ChargedUnits(c)'
  BY DEF Reserved
<2>2. n \in Reserved' <=> n \in Reserved \/ n \in ChargedUnits(p)'
  BY <1>1, <1>9, <1>10, <2>1, ReservedIs
<2> QED
  BY <1>1, <1>8, <2>2 DEF Claimed
<1>12. /\ counter >= l.OverMax => u = 0
       /\ counter < l.OverMax => counter + u = Cut(counter + cost, l.OverMax)
  BY <1>2, <1>3, <1>7 DEF UsageOf, GetOverThreshold, Cut, ValidLimit, ServiceLimits
<1>13. ASSUME NEW n
       PROVE  n \in Claimed' <=> n \in (InitialUsage + 1)..Cut(counter + cost, l.OverMax)
<2> HIDE DEF cost
<2>1. CASE counter >= l.OverMax
  BY <1>2, <1>3, <1>7, <1>11, <1>12, <2>1 DEF Cut
<2>2. CASE counter < l.OverMax
<3>1. Cut(counter, l.OverMax) = counter /\ counter + u = Cut(counter + cost, l.OverMax)
  BY <1>12, <2>2 DEF Cut
<3>2. n \in Claimed' <=> n \in (InitialUsage + 1)..counter \/ n \in (counter + 1)..(counter + u)
  BY <1>11, <3>1
<3>3. InitialUsage \in Nat /\ u \in Nat /\ counter \in Int /\ InitialUsage <= counter
  BY <1>2, <1>3, <1>7, InitialUsageAssumption
<3>4. n \in (InitialUsage + 1)..(counter + u)
        <=> n \in (InitialUsage + 1)..counter \/ n \in (counter + 1)..(counter + u)
  BY <3>3
<3>5. n \in Claimed' <=> n \in (InitialUsage + 1)..(counter + u)
  BY <3>2, <3>4
<3> QED
  BY <3>1, <3>5
<2> QED
  BY <1>2, <1>3, <2>1, <2>2
<1> QED
  BY <1>4, <1>13

(* All other steps leave the claims alone, or the counter not populated. *)
LEMMA OtherClaims ==
  ASSUME KeptInv, CounterKept, Faults \cap {"crash", "redis"} = {}, [Next]_vars,
         \A c \in Clients : ~Incr(c) /\ ~Charge(c), Populated'
  PROVE  /\ Populated => Claimed' = Claimed /\ counter' = counter
         /\ ~Populated => Claimed' = {} /\ counter' = InitialUsage
<1>0. TypeOK /\ counter \in Int \cup {Absent}
  BY DEF KeptInv, TypeOK
<1>1. CASE UNCHANGED vars \/ SyncUsage
<2>1. /\ counter' = counter /\ sold' = sold /\ pc' = pc /\ total' = total /\ req' = req
  BY <1>1 DEF vars, SyncUsage, cache, procs, history
<2>2. Claimed' = Claimed
  BY <2>1 DEF Claimed, Reserved, ChargedUnits
<2> QED
  BY <2>1, <2>2 DEF Populated
<1>2. CASE \/ \E c \in Clients : StartClient(c)
           \/ \E s \in Servers : StartServer(s)
<2>1. PICK p \in Procs : StartClient(p) \/ StartServer(p)
  BY <1>2 DEF Procs
<2>2. counter' = counter /\ sold' = sold /\ pc[p] = "idle"
  BY <2>1 DEF StartClient, StartServer, StartSpend, StartFetchUsage, SpendNothing,
       StartGetProjectStatus, StartPrepareUsage, Begin, cache, history
<2>3. \E label \in {"peek", "idle", "fetch"} : Moves(p, label)
  BY <1>0, <2>1, BeginMoves, ReturnMoves DEF StartClient, StartServer, StartSpend, StartFetchUsage,
       SpendNothing, StartGetProjectStatus, StartPrepareUsage
<2> QED
  BY <1>0, <2>2, <2>3, QuietClaims DEF Populated
<1>3. CASE \E p \in Procs : Step(p) \/ Crash(p)
<2>1. PICK p \in Procs : Step(p)
  BY <1>3 DEF Crash
<2>2. CASE Fill(p)
<3>1. /\ ~Populated /\ total[p] = InitialUsage /\ pc[p] = "fill"
      /\ sold = {} /\ \A q \in Procs : pc[q] # "charge"
  BY <2>2 DEF Fill, KeptInv, OnePopulator, NothingYet, Populating, Populated
<3>2. counter' = InitialUsage /\ sold' = sold
  BY <2>2, <3>1 DEF Fill, SetKey, history
<3>3. \E label \in {"recheck", "idle"} : Moves(p, label)
<4>1. total[p] \in Int
  BY <1>0 DEF TypeOK, ProcTypeOK
<4>2. (Goto(p, "recheck") /\ UNCHANGED total) \/ Ensured(p, total[p]) \/ Return(p, "redis", 0)
  BY <2>2 DEF Fill, CounterKept
<4> QED
  BY <1>0, <4>1, <4>2, GotoMoves, EnsuredMoves, ReturnMoves
<3>4. Claimed' = Claimed
  BY <1>0, <3>1, <3>2, <3>3, QuietClaims
<3>5. Claimed = {}
  BY <3>1 DEF Claimed, Reserved, Procs
<3> QED
  BY <3>1, <3>2, <3>4, <3>5
<2>3. CASE Peek(p) \/ Claim(p) \/ Retry(p) \/ Fetch(p) \/ Recheck(p) \/ Reclaim(p)
<3>1. counter' = counter /\ sold' = sold /\ pc[p] # "charge"
  BY <2>3 DEF Peek, Claim, Retry, Fetch, Recheck, Reclaim, cache, history, Mark, SetKey, Populated
<3>2. \E label \in Labels \ {"charge"} : Moves(p, label)
<4>1. \A label \in Labels : Goto(p, label) /\ UNCHANGED total => Moves(p, label)
  BY <1>0, GotoMoves
<4>2. \A err, n : Return(p, err, n) => Moves(p, "idle")
  BY <1>0, ReturnMoves
<4>3. "idle" \in Labels \ {"charge"} /\ {"peek", "claim", "wait", "fetch", "fill", "recheck", "reclaim", "incr"}
        \subseteq Labels \ {"charge"}
  BY DEF Labels
<4>4. CASE Peek(p)
  BY <1>0, <2>3, <4>1, <4>2, <4>3, <4>4, CacheWaitMoves, EnsuredMoves DEF Peek
<4>5. CASE Claim(p)
  BY <1>0, <4>1, <4>2, <4>3, <4>5, CacheWaitMoves DEF Claim
<4>6. CASE Retry(p)
  BY <1>0, <4>2, <4>3, <4>6 DEF Retry, Moves
<4>7. CASE Fetch(p)
<5>1. Goto(p, "fill") /\ total' = [total EXCEPT ![p] = stored] => Moves(p, "fill")
  BY <1>0, GotoMoves DEF TypeOK, ProcTypeOK
<5> QED
  BY <4>2, <4>3, <4>7, <5>1 DEF Fetch
<4>8. CASE Recheck(p)
  BY <4>1, <4>2, <4>3, <4>8 DEF Recheck
<4>9. CASE Reclaim(p)
  BY <4>1, <4>2, <4>3, <4>9 DEF Reclaim
<4> QED
  BY <2>3, <4>4, <4>5, <4>6, <4>7, <4>8, <4>9
<3> QED
  BY <1>0, <3>1, <3>2, QuietClaims DEF Populated
<2>4. CASE Incr(p) \/ Charge(p)
<3>1. p \in Clients
  BY <1>0, <2>4, SpendersAreClients DEF Incr, Charge
<3> QED
  BY <2>4, <3>1
<2> QED
  BY <2>1, <2>2, <2>3, <2>4 DEF Step
<1>4. CASE ExpireKey \/ ClearUsage
  BY <1>4 DEF ExpireKey, ClearUsage, SetKey, Populated
<1> QED
  BY <1>1, <1>2, <1>3, <1>4 DEF Next

(* Every unit up to the hard limit is charged or on its way to be, however  *)
(* the spends race, unless a process dies or redis fails between INCRBY and *)
(* the tracker (SpendQuota, client.go:306).                                 *)
THEOREM NothingIsWasted ==
  ASSUME CounterKept, Faults \cap {"crash", "redis"} = {}, NEW l, Limits = {l}
  PROVE  Spec => []NothingWasted
<1> DEFINE I == Populated => Claimed = (InitialUsage + 1)..Cut(counter, l.OverMax)
<1>1. I <=> NothingWasted
  BY DEF NothingWasted, Claimed, Cut
<1>2. Init => I
  BY DEF Init, Populated
<1>3. KeptInv /\ I /\ [Next]_vars => I'
<2> SUFFICES ASSUME KeptInv, I, [Next]_vars, Populated'
             PROVE  Claimed' = (InitialUsage + 1)..Cut(counter', l.OverMax)
  OBVIOUS
<2>0. TypeOK /\ l.OverMax \in Int
  BY ConstantsAssumption DEF KeptInv, ValidLimit, ServiceLimits
<2>1. ASSUME NEW c \in Clients, Incr(c)
      PROVE  Claimed' = (InitialUsage + 1)..Cut(counter', l.OverMax)
<3>1. Populated
  BY <2>1 DEF Incr, KeptInv, NothingYet, Procs
<3> QED
  BY <2>1, <3>1, IncrClaims
<2>2. ASSUME NEW c \in Clients, Charge(c)
      PROVE  Claimed' = (InitialUsage + 1)..Cut(counter', l.OverMax)
<3>1. Populated /\ counter' = counter
  BY <2>2 DEF Charge, KeptInv, NothingYet, Procs, cache
<3> QED
  BY <2>0, <2>2, <3>1, ChargeClaims
<2>3. CASE \A c \in Clients : ~Incr(c) /\ ~Charge(c)
<3>1. CASE Populated
  BY <2>3, <3>1, OtherClaims
<3>2. CASE ~Populated
<4>1. Claimed' = {} /\ counter' = InitialUsage
  BY <2>3, <3>2, OtherClaims
<4>2. InitialUsage \in Nat
  BY InitialUsageAssumption
<4>3. (InitialUsage + 1)..Cut(InitialUsage, l.OverMax) = {}
  BY <2>0, <4>2 DEF Cut
<4> QED
  BY <4>1, <4>3
<3> QED
  BY <3>1, <3>2
<2> QED
  BY <2>1, <2>2, <2>3
<1>4. Spec => []I
<2> HIDE DEF I
<2> QED
  BY <1>2, <1>3, KeptInvCorrect, PTL DEF Spec
<1> QED
  BY <1>1, <1>4, PTL

(* Trackers, store and losses add up to the units sold: nothing is billed   *)
(* that no spend was given (AddUsage with GetSpendResult, client.go:306).   *)
THEOREM BilledIsAlwaysSold == CounterKept /\ Spec => []BilledIsSold
<1>1. KeptInv => BilledIsSold
  BY DEF KeptInv
<1> QED
  BY <1>1, KeptInvCorrect, PTL

=============================================================================
