---------------------------- MODULE UsageTracker ----------------------------
(***************************************************************************)
(* One client process: its usage tracker (internal/usage), the loop of      *)
(* Client.Run, the callers of Client.Stop, and the server's Sync handlers.  *)
(* Usage is kept per slot: the time of the request and the access key or    *)
(* project it is charged to.  mutex is the tracker's syncMutex; dataMutex   *)
(* makes AddUsage and GetUpdates single steps.                              *)
(***************************************************************************)
EXTENDS Integers, FiniteSets, Functions

CONSTANTS
  Times,        \* request times, the keys of Tracker.usage
  Keys,         \* access keys
  BadKeys,      \* those whose project the server cannot tell
  Projects,     \* projects charged without an access key
  Loops,        \* calls of Run
  Stoppers,     \* calls of Stop, the one of Run's shutdown watcher included
  Transport,    \* "rpc": the webrpc client; "local": a server called in process
  Doubtful,     \* an insert the store fails may have been done all the same
  Nobody,       \* holds no mutex
  MaxRecorded,  \* bound: units recorded
  MaxFailures   \* bound: calls that go wrong

Accounts == Keys \cup Projects
Slots == Times \X Accounts
Syncers == Loops \cup Stoppers

ASSUME TrackerAssumption ==
  /\ Keys \cap Projects = {} /\ BadKeys \subseteq Keys
  /\ Loops \cap Stoppers = {} /\ Nobody \notin Syncers
  /\ Transport \in {"rpc", "local"} /\ Doubtful \in BOOLEAN
  /\ MaxRecorded \in Nat /\ MaxFailures \in Nat

VARIABLES
  tracked,      \* Tracker.usage
  stored,       \* the server's usage store
  lost,         \* history: usage in neither of them any more
  recorded,     \* history: usage ever recorded
  doubled,      \* history: usage stored by an insert that was reported failed
  count,        \* units recorded, failures: for the bounds
  running,      \* Client.running: 0, 1 or 2
  ticking,      \* the ticker has not been stopped
  tick,         \* a tick waits in the ticker's channel
  mutex,        \* who holds syncMutex
  pc,           \* where each call of Run or Stop is
  batch,        \* the usage each syncer took and has not resolved
  todo,         \* the times of its batch still to come
  now,          \* the one its calls are for, as a set
  failed,       \* those the answer reports as failed
  before        \* history: what was recorded when a Stop went ahead

usage == <<tracked, stored, lost, recorded, doubled, count>>
run == <<running, ticking, tick>>
sync == <<batch, todo, now, failed>>
vars == <<usage, run, mutex, pc, sync, before>>

None == [s \in Slots |-> 0]
Usage == [Slots -> Nat]
Plus(f, g) == [s \in Slots |-> f[s] + g[s]]
(* f on the slots of S, nothing elsewhere; and f without them. *)
Only(f, S) == [s \in Slots |-> IF s \in S THEN f[s] ELSE 0]
Except(f, S) == [s \in Slots |-> IF s \in S THEN 0 ELSE f[s]]

Labels == {"idle", "starting", "wait", "stopping", "lock", "take", "next",
           "keys", "keysdone", "projects", "projectsdone", "done"}

TypeOK ==
  /\ tracked \in Usage /\ stored \in Usage /\ lost \in Usage /\ recorded \in Usage
  /\ doubled \in Usage
  /\ count \in [recorded : 0..MaxRecorded, failures : 0..MaxFailures]
  /\ running \in 0..2 /\ ticking \in BOOLEAN /\ tick \in BOOLEAN
  /\ mutex \in Syncers \cup {Nobody}
  /\ pc \in [Syncers -> Labels]
  /\ batch \in [Syncers -> Usage] /\ todo \in [Syncers -> SUBSET Times]
  /\ now \in [Syncers -> SUBSET Times] /\ failed \in [Syncers -> SUBSET Slots]
  /\ before \in [Stoppers -> Usage]

Init ==
  /\ tracked = None /\ stored = None /\ lost = None /\ recorded = None
  /\ doubled = None
  /\ count = [recorded |-> 0, failures |-> 0]
  /\ running = 0 /\ ticking = TRUE /\ tick = FALSE
  /\ mutex = Nobody
  /\ pc = [p \in Syncers |-> "idle"]
  /\ batch = [p \in Syncers |-> None]
  /\ todo = [p \in Syncers |-> {}]
  /\ now = [p \in Syncers |-> {}]
  /\ failed = [p \in Syncers |-> {}]
  /\ before = [p \in Stoppers |-> None]

Goto(p, label) == pc' = [pc EXCEPT ![p] = label]

-----------------------------------------------------------------------------
(* AddKeyUsage and AddProjectUsage: SpendQuota records a unit. *)
AddUsage(s) ==
  /\ count.recorded < MaxRecorded
  /\ tracked' = [tracked EXCEPT ![s] = @ + 1]
  /\ recorded' = [recorded EXCEPT ![s] = @ + 1]
  /\ count' = [count EXCEPT !.recorded = @ + 1]
  /\ UNCHANGED <<stored, lost, doubled, run, mutex, pc, sync, before>>

(* Run: refuses while running, otherwise sets running and waits for ticks. *)
RunCheck(l) ==
  /\ pc[l] = "idle" /\ running # 1
  /\ Goto(l, "starting")
  /\ UNCHANGED <<usage, run, mutex, sync, before>>

RunStart(l) ==
  /\ pc[l] = "starting"
  /\ running' = 1
  /\ Goto(l, "wait")
  /\ UNCHANGED <<usage, ticking, tick, mutex, sync, before>>

(* The ticker's channel holds one tick. *)
Tick ==
  /\ ticking
  /\ tick' = TRUE
  /\ UNCHANGED <<usage, running, ticking, mutex, pc, sync, before>>

RunTick(l) ==
  /\ pc[l] = "wait" /\ tick
  /\ tick' = FALSE
  /\ Goto(l, "lock")
  /\ UNCHANGED <<usage, running, ticking, mutex, sync, before>>

(* Stop: returns at once unless running is 1.  No tick is received once the   *)
(* ticker is stopped (Go 1.23, go.mod), and its channel is never closed.      *)
StopCheck(p) ==
  /\ pc[p] = "idle"
  /\ Goto(p, IF running = 1 THEN "stopping" ELSE "done")
  /\ UNCHANGED <<usage, run, mutex, sync, before>>

StopTicker(p) ==
  /\ pc[p] = "stopping"
  /\ running' = 2 /\ ticking' = FALSE /\ tick' = FALSE
  /\ before' = [before EXCEPT ![p] = recorded]
  /\ Goto(p, "lock")
  /\ UNCHANGED <<usage, mutex, sync>>

-----------------------------------------------------------------------------
(* SyncUsage. *)

LockFree(p) ==                                        \* mutant: no syncMutex
  /\ pc[p] = "lock"
  /\ mutex' = p
  /\ Goto(p, "take")
  /\ UNCHANGED <<usage, run, sync, before>>

Lock(p) ==
  /\ pc[p] = "lock" /\ mutex = Nobody
  /\ mutex' = p
  /\ Goto(p, "take")
  /\ UNCHANGED <<usage, run, sync, before>>

PeekUpdates(p) ==                                     \* mutant: usage not cleared
  /\ pc[p] = "take"
  /\ batch' = [batch EXCEPT ![p] = tracked]
  /\ todo' = [todo EXCEPT ![p] = {s[1] : s \in {r \in Slots : tracked[r] > 0}}]
  /\ Goto(p, "next")
  /\ UNCHANGED <<usage, run, mutex, now, failed, before>>

(* The tracker's map is handed over whole. *)
GetUpdates(p) ==
  /\ pc[p] = "take"
  /\ batch' = [batch EXCEPT ![p] = tracked]
  /\ todo' = [todo EXCEPT ![p] = {s[1] : s \in {r \in Slots : tracked[r] > 0}}]
  /\ tracked' = None
  /\ Goto(p, "next")
  /\ UNCHANGED <<stored, lost, recorded, doubled, count, run, mutex, now, failed, before>>

(* The range over the map: the next time, in any order, or the end. *)
NextTime(p) ==
  /\ pc[p] = "next"
  /\ \E t \in todo[p] :
       /\ todo' = [todo EXCEPT ![p] = @ \ {t}]
       /\ now' = [now EXCEPT ![p] = {t}]
  /\ Goto(p, "keys")
  /\ UNCHANGED <<usage, run, mutex, batch, failed, before>>

UnlockEarly(p) ==                                     \* mutant: unlocked in the loop
  /\ pc[p] = "next"
  /\ mutex' = Nobody
  /\ Goto(p, IF p \in Loops THEN "wait" ELSE "done")
  /\ UNCHANGED <<usage, run, sync, before>>

Unlock(p) ==
  /\ pc[p] = "next" /\ todo[p] = {}
  /\ mutex' = Nobody
  /\ Goto(p, IF p \in Loops THEN "wait" ELSE "done")
  /\ UNCHANGED <<usage, run, sync, before>>

(* The slots of the two calls p makes for a time. *)
KeySlots(p) == now[p] \X Keys
ProjectSlots(p) == now[p] \X Projects

BadSlots == Times \X BadKeys

ReportedNone(good, told) == {}                        \* mutant: errors not entered

(* The answer names the slots whose insertion failed, but only in process:    *)
(* over RPC an error leaves the client without an answer.                    *)
Reported(good, told) == IF Transport = "local" THEN good \ told ELSE {}

(* SyncAccessKeyUsage or SyncProjectUsage on the server: the usage of each    *)
(* slot of done is inserted.  A store error fails single slots; a call that   *)
(* fails altogether may have reached the server or not.  A bad key is neither *)
(* inserted nor reported.  The server is told that the slots of told are      *)
(* inserted: if the store is doubtful, others may be too.  Over RPC the       *)
(* client hears of neither, so that told = done there loses nothing.          *)
Call(p, slots) ==
  LET good == slots \ BadSlots
  IN  \E done \in SUBSET good : \E told \in SUBSET done :
        /\ told = done \/ (Doubtful /\ Transport = "local")
        /\ \/ told = good /\ UNCHANGED count
           \/ /\ told # good
              /\ count.failures < MaxFailures
              /\ count' = [count EXCEPT !.failures = @ + 1]
        /\ stored' = Plus(stored, Only(batch[p], done))
        /\ doubled' = Plus(doubled, Only(batch[p], done \ told))
        /\ batch' = [batch EXCEPT ![p] = Except(@, told)]
        /\ failed' = [failed EXCEPT ![p] = Reported(good, told)]
        /\ UNCHANGED <<tracked, lost, recorded, run, mutex, todo, now, before>>

SyncAccessKeyUsage(p) ==
  pc[p] = "keys" /\ Call(p, KeySlots(p)) /\ Goto(p, "keysdone")

SyncProjectUsage(p) ==
  pc[p] = "projects" /\ Call(p, ProjectSlots(p)) /\ Goto(p, "projectsdone")

AddBackNothing(p) == tracked' = tracked               \* mutant: no retry

(* The failed updates go back to the tracker, under their old time. *)
AddBack(p) == tracked' = Plus(tracked, Only(batch[p], failed[p]))

(* What was neither inserted nor reported is forgotten with the batch. *)
Resolve(p, slots) ==
  /\ AddBack(p)
  /\ lost' = Plus(lost, Only(batch[p], slots \ failed[p]))
  /\ batch' = [batch EXCEPT ![p] = Except(@, slots)]
  /\ failed' = [failed EXCEPT ![p] = {}]
  /\ UNCHANGED <<stored, recorded, doubled, count, run, mutex, todo, before>>

AddBackKeys(p) ==
  /\ pc[p] = "keysdone"
  /\ Resolve(p, KeySlots(p))
  /\ Goto(p, "projects") /\ UNCHANGED now

AddBackProjects(p) ==
  /\ pc[p] = "projectsdone"
  /\ Resolve(p, ProjectSlots(p))
  /\ Goto(p, "next") /\ now' = [now EXCEPT ![p] = {}]

SyncUsage(p) ==
  \/ Lock(p) \/ GetUpdates(p) \/ NextTime(p) \/ Unlock(p)
  \/ SyncAccessKeyUsage(p) \/ SyncProjectUsage(p)
  \/ AddBackKeys(p) \/ AddBackProjects(p)

RunStep(l) == RunCheck(l) \/ RunStart(l) \/ RunTick(l) \/ SyncUsage(l)
StopStep(p) == StopCheck(p) \/ StopTicker(p) \/ SyncUsage(p)

Next ==
  \/ \E s \in Slots : AddUsage(s)
  \/ Tick
  \/ \E l \in Loops : RunStep(l)
  \/ \E p \in Stoppers : StopStep(p)

Spec == Init /\ [][Next]_vars

(* The ticker ticks, and a goroutine that can go on does; syncMutex is not    *)
(* starved.  Nobody has to call Run or Stop.                                  *)
Fairness ==
  /\ WF_vars(Tick)
  /\ \A l \in Loops : WF_vars(RunStart(l) \/ RunTick(l))
  /\ \A p \in Stoppers : WF_vars(StopTicker(p))
  /\ \A p \in Syncers : SF_vars(Lock(p)) /\ WF_vars(SyncUsage(p))

FairSpec == Spec /\ Fairness

-----------------------------------------------------------------------------
(* Properties. *)

Critical == {"take", "next", "keys", "keysdone", "projects", "projectsdone"}

(* The usage the holder of the mutex has in hand. *)
InFlight == IF mutex = Nobody THEN None ELSE batch[mutex]

(* Whatever interleaving of requests, rounds and shutdown, and whatever calls *)
(* fail, each recorded unit is in exactly one place: it is never synced twice *)
(* (GetUpdates empties the tracker) and never forgotten between the tracker   *)
(* and the answer (SyncUsage adds the failed updates back).  Only what the    *)
(* store inserted and reported as failed is there once more.                  *)
EveryUnitAccounted ==
  \A s \in Slots :
    recorded[s] + doubled[s] = tracked[s] + stored[s] + lost[s] + InFlight[s]

(* Two rounds, of a tick and of Stop say, never hold usage at the same time.  *)
OneRound ==
  /\ \A p \in Syncers : pc[p] \in Critical => mutex = p
  /\ \A p \in Syncers : batch[p] # None => mutex = p

(* Between its calls a round still knows every time whose usage it took, so   *)
(* nothing is left in hand when it unlocks.                                   *)
RoundCovers ==
  \A p \in Syncers, s \in Slots : batch[p][s] > 0 =>
    /\ pc[p] # "take"
    /\ \/ s[1] \in todo[p]
       \/ s \in KeySlots(p) /\ pc[p] \in {"keys", "keysdone"}
       \/ s \in ProjectSlots(p)
            /\ pc[p] \in {"keys", "keysdone", "projects", "projectsdone"}

(* An answer is about the slots of its own call.                              *)
AnswerOfCall ==
  \A p \in Syncers :
    /\ pc[p] = "keysdone" => failed[p] \subseteq KeySlots(p)
    /\ pc[p] = "projectsdone" => failed[p] \subseteq ProjectSlots(p)

(* The store has what was doubled, and a store that is not doubtful nothing.  *)
DoubledIsStored ==
  /\ \A s \in Slots : doubled[s] <= stored[s]
  /\ doubled = None \/ (Doubtful /\ Transport = "local")

(* The inductive invariant. *)
TrackerInv ==
  /\ TypeOK /\ OneRound /\ RoundCovers /\ AnswerOfCall
  /\ EveryUnitAccounted /\ DoubledIsStored

(* What a call could not insert is in the tracker again or on its way there   *)
(* (usage.go:85 and 98).                                                      *)
NoUsageLost == lost = None

(* "calling Stop while another sync is running will wait for the sync to      *)
(* finish" (usage.go:40): no round is going on when Stop returns.             *)
StopWaits ==
  [][\A p \in Stoppers : pc[p] # "done" /\ pc'[p] = "done" =>
       \A q \in Syncers : pc'[q] \notin Critical]_vars

(* When Stop has gone ahead and returned, the usage recorded before is in the *)
(* store, also what a round of the loop had in hand, unless a call failed.    *)
StopFlushes ==
  \A p \in Stoppers : pc[p] = "done" /\ count.failures = 0 =>
    \A s \in Slots : before[p][s] <= stored[s]

(* While the client runs, recorded usage reaches the store in the end, through *)
(* failed calls and their retries, as long as it is not stopped.              *)
UsageSettles == running = 1 ~> running = 2 \/ stored = Plus(recorded, doubled)

(* The tracker and its rounds keep the ledger SpendQuota is built on, except  *)
(* that the store counts what was doubled, if it is doubtful.                 *)
Total(f) == SumFunction(f)

Ledger == INSTANCE UsageLedger WITH
  InitialUsage <- 0,
  stored <- Total(stored) - Total(doubled),
  pending <- Total(tracked) + Total(InFlight),
  lost <- Total(lost)

SyncedAsLedger == Ledger!LedgerSpec
=============================================================================
