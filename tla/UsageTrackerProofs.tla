------------------------- MODULE UsageTrackerProofs -------------------------
(***************************************************************************)
(* No unit of usage is duplicated or forgotten by the tracker, for any      *)
(* number of keys, projects, request times, and calls of Run and Stop, and  *)
(* for either transport.                                                     *)
(***************************************************************************)
EXTENDS UsageTracker, Sums

(* Adding, restricting and cutting usage gives usage. *)
LEMMA UsageOps ==
  ASSUME NEW f \in Usage, NEW g \in Usage, NEW S
  PROVE  /\ None \in Usage /\ Plus(f, g) \in Usage
         /\ Only(f, S) \in Usage /\ Except(f, S) \in Usage
  BY DEF Usage, None, Plus, Only, Except

(* What the definitions give slot by slot. *)
LEMMA UsageAt ==
  ASSUME NEW f \in Usage, NEW g \in Usage, NEW S, NEW s \in Slots
  PROVE  /\ f[s] \in Nat /\ None[s] = 0 /\ Plus(f, g)[s] = f[s] + g[s]
         /\ Only(f, S)[s] = IF s \in S THEN f[s] ELSE 0
         /\ Except(f, S)[s] = IF s \in S THEN 0 ELSE f[s]
  BY DEF Usage, None, Plus, Only, Except

LEMMA PlusAt ==
  ASSUME NEW f \in Usage, NEW g \in Usage, NEW s \in Slots
  PROVE  Plus(f, g)[s] = f[s] + g[s]
  BY DEF Plus

LEMMA SlotsOfCalls ==
  ASSUME TypeOK, NEW p \in Syncers
  PROVE  KeySlots(p) \subseteq Slots /\ ProjectSlots(p) \subseteq Slots
  BY DEF TypeOK, KeySlots, ProjectSlots, Slots, Accounts

(* A usage that is nothing slot by slot is None. *)
LEMMA NothingIsNone ==
  ASSUME NEW f \in Usage, \A s \in Slots : ~(f[s] > 0)
  PROVE  f = None
<1>1. \A s \in Slots : f[s] = 0
  BY DEF Usage
<1>2. f = [s \in Slots |-> f[s]]
  BY DEF Usage
<1> QED
  BY <1>1, <1>2 DEF None

LEMMA InitTracker == Init => TrackerInv
<1> SUFFICES ASSUME Init PROVE TrackerInv
  OBVIOUS
<1>0. None \in Usage
  BY DEF None, Usage
<1>1. TypeOK
<2>1. count \in [recorded : 0..MaxRecorded, failures : 0..MaxFailures]
  BY TrackerAssumption DEF Init
<2>2. batch \in [Syncers -> Usage] /\ before \in [Stoppers -> Usage]
  BY <1>0 DEF Init
<2>3. /\ tracked \in Usage /\ stored \in Usage /\ lost \in Usage /\ recorded \in Usage
      /\ doubled \in Usage
  BY <1>0 DEF Init
<2>4. failed \in [Syncers -> SUBSET Slots] /\ now \in [Syncers -> SUBSET Times]
  BY DEF Init
<2>5. todo \in [Syncers -> SUBSET Times]
  BY DEF Init
<2>6. pc \in [Syncers -> Labels]
  BY DEF Init, Labels
<2>7. running \in 0..2 /\ mutex \in Syncers \cup {Nobody}
  BY DEF Init
<2>8. ticking \in BOOLEAN /\ tick \in BOOLEAN
  BY Zenon DEF Init
<2> QED
  BY <2>1, <2>2, <2>3, <2>4, <2>5, <2>6, <2>7, <2>8, Zenon DEF TypeOK
<1>2. OneRound
  BY DEF Init, OneRound, Critical
<1>3. RoundCovers
  BY DEF Init, RoundCovers, None
<1>4. EveryUnitAccounted
  BY DEF Init, EveryUnitAccounted, InFlight, None
<1>5. AnswerOfCall
  BY DEF Init, AnswerOfCall
<1>6. DoubledIsStored
  BY DEF Init, DoubledIsStored, None
<1> QED
  BY <1>1, <1>2, <1>3, <1>4, <1>5, <1>6 DEF TrackerInv

-----------------------------------------------------------------------------
(* The types, action by action.  The parts of the state are typed apart. *)

UsageType ==
  /\ tracked \in Usage /\ stored \in Usage /\ lost \in Usage /\ recorded \in Usage
  /\ doubled \in Usage
  /\ count \in [recorded : 0..MaxRecorded, failures : 0..MaxFailures]

RunType == running \in 0..2 /\ ticking \in BOOLEAN /\ tick \in BOOLEAN

SyncType ==
  /\ batch \in [Syncers -> Usage] /\ todo \in [Syncers -> SUBSET Times]
  /\ now \in [Syncers -> SUBSET Times] /\ failed \in [Syncers -> SUBSET Slots]

PlaceType ==
  /\ mutex \in Syncers \cup {Nobody}
  /\ pc \in [Syncers -> Labels]
  /\ before \in [Stoppers -> Usage]

LEMMA TypeParts == TypeOK <=> UsageType /\ RunType /\ SyncType /\ PlaceType
  BY Zenon DEF TypeOK, UsageType, RunType, SyncType, PlaceType

LEMMA GotoType ==
  ASSUME pc \in [Syncers -> Labels], NEW p, NEW label \in Labels, Goto(p, label)
  PROVE  pc' \in [Syncers -> Labels]
  BY DEF Goto

(* An action that only moves some of the run variables and a pc. *)
LEMMA RunTypes ==
  ASSUME TypeOK, UNCHANGED <<usage, sync, mutex, before>>,
         pc' \in [Syncers -> Labels], RunType'
  PROVE  TypeOK'
<1>1. UsageType' /\ SyncType' /\ PlaceType'
  BY TypeParts, Zenon DEF usage, sync, UsageType, SyncType, PlaceType
<1> QED
  BY <1>1, TypeParts, Zenon DEF TypeOK, UsageType, RunType, SyncType, PlaceType

LEMMA AddUsageType == ASSUME TypeOK, NEW s \in Slots, AddUsage(s) PROVE TypeOK'
<1>1. UsageType'
  <2>1. tracked' \in Usage /\ recorded' \in Usage
    BY DEF AddUsage, TypeOK, Usage
  <2>2. count' \in [recorded : 0..MaxRecorded, failures : 0..MaxFailures]
    BY TrackerAssumption DEF AddUsage, TypeOK
  <2> QED
    BY <2>1, <2>2 DEF AddUsage, TypeOK, UsageType
<1>2. RunType' /\ SyncType' /\ PlaceType'
  BY TypeParts, Zenon DEF AddUsage, run, sync, RunType, SyncType, PlaceType
<1> QED
  BY <1>1, <1>2, TypeParts, Zenon
     DEF TypeOK, UsageType, RunType, SyncType, PlaceType

(* The steps of a round. *)
LEMMA RoundType ==
  ASSUME TypeOK, NEW p \in Syncers, SyncUsage(p)
  PROVE  TypeOK'
<1>0. UsageType /\ RunType /\ SyncType /\ PlaceType
  BY TypeParts, Zenon
<1> SUFFICES UsageType' /\ RunType' /\ SyncType' /\ PlaceType'
  BY Zenon DEF TypeOK, UsageType, RunType, SyncType, PlaceType
<1>1. CASE Lock(p)
  <2>1. PlaceType'
    BY <1>0, <1>1, GotoType DEF PlaceType, Lock, Labels
  <2>2. UsageType' /\ RunType' /\ SyncType'
    BY <1>0, <1>1, Zenon DEF Lock, usage, run, sync, UsageType, RunType, SyncType
  <2> QED BY <2>1, <2>2
<1>2. CASE GetUpdates(p)
  <2>1. PlaceType'
    BY <1>0, <1>2, GotoType DEF PlaceType, GetUpdates, Labels
  <2>2. UsageType'
    BY <1>0, <1>2, UsageOps DEF GetUpdates, UsageType
  <2>3. RunType'
    BY <1>0, <1>2, Zenon DEF GetUpdates, run, RunType
  <2>4. {s[1] : s \in {r \in Slots : tracked[r] > 0}} \subseteq Times
    BY DEF Slots
  <2>5. SyncType'
    BY <1>0, <1>2, <2>4 DEF GetUpdates, SyncType, UsageType
  <2> QED BY <2>1, <2>2, <2>3, <2>5
<1>3. CASE NextTime(p)
  <2>1. PlaceType'
    BY <1>0, <1>3, GotoType DEF PlaceType, NextTime, Labels
  <2>2. UsageType' /\ RunType'
    BY <1>0, <1>3, Zenon DEF NextTime, usage, run, UsageType, RunType
  <2>3. SyncType'
    BY <1>0, <1>3 DEF NextTime, SyncType
  <2> QED BY <2>1, <2>2, <2>3
<1>4. CASE Unlock(p)
  <2>1. PlaceType'
    BY <1>0, <1>4, GotoType DEF PlaceType, Unlock, Labels
  <2>2. UsageType' /\ RunType' /\ SyncType'
    BY <1>0, <1>4, Zenon DEF Unlock, usage, run, sync, UsageType, RunType, SyncType
  <2> QED BY <2>1, <2>2
<1>5. ASSUME NEW slots \in SUBSET Slots, NEW label \in Labels, Call(p, slots), Goto(p, label)
      PROVE  UsageType' /\ RunType' /\ SyncType' /\ PlaceType'
  <2>1. PlaceType'
    BY <1>0, <1>5, GotoType DEF PlaceType, Call
  <2>2. RunType'
    BY <1>0, <1>5, Zenon DEF Call, run, RunType
  <2>3. PICK done \in SUBSET (slots \ BadSlots), told \in SUBSET (slots \ BadSlots) :
          /\ told \subseteq done
          /\ told = done \/ (Doubtful /\ Transport = "local")
          /\ \/ told = slots \ BadSlots /\ UNCHANGED count
             \/ /\ told # slots \ BadSlots
                /\ count.failures < MaxFailures
                /\ count' = [count EXCEPT !.failures = @ + 1]
          /\ stored' = Plus(stored, Only(batch[p], done))
          /\ doubled' = Plus(doubled, Only(batch[p], done \ told))
          /\ batch' = [batch EXCEPT ![p] = Except(@, told)]
          /\ failed' = [failed EXCEPT ![p] = Reported(slots \ BadSlots, told)]
          /\ UNCHANGED <<tracked, lost, recorded, run, mutex, todo, now, before>>
    BY <1>5 DEF Call
  <2>4. batch[p] \in Usage
    BY <1>0 DEF SyncType
  <2>5. UsageType'
    <3>1. stored' \in Usage /\ doubled' \in Usage
      BY <1>0, <2>3, <2>4, UsageOps DEF UsageType
    <3>2. count' \in [recorded : 0..MaxRecorded, failures : 0..MaxFailures]
      BY <1>0, <2>3, TrackerAssumption DEF UsageType
    <3> QED BY <1>0, <1>5, <3>1, <3>2 DEF UsageType, Call
  <2>6. SyncType'
    <3>1. Except(batch[p], told) \in Usage
      BY <2>4, UsageOps
    <3>2. Reported(slots \ BadSlots, told) \in SUBSET Slots
      BY DEF Reported
    <3> QED BY <1>0, <1>5, <2>3, <3>1, <3>2 DEF SyncType, Call
  <2> QED BY <2>1, <2>2, <2>5, <2>6
<1>6. CASE SyncAccessKeyUsage(p)
  BY <1>5, <1>6, SlotsOfCalls DEF SyncAccessKeyUsage, Labels
<1>7. CASE SyncProjectUsage(p)
  BY <1>5, <1>7, SlotsOfCalls DEF SyncProjectUsage, Labels
<1>8. ASSUME NEW slots \in SUBSET Slots, NEW label \in Labels, Resolve(p, slots), Goto(p, label),
             now' \in [Syncers -> SUBSET Times]
      PROVE  UsageType' /\ RunType' /\ SyncType' /\ PlaceType'
  <2>1. PlaceType'
    BY <1>0, <1>8, GotoType DEF PlaceType, Resolve
  <2>2. RunType'
    BY <1>0, <1>8, Zenon DEF Resolve, run, RunType
  <2>3. batch[p] \in Usage
    BY <1>0 DEF SyncType
  <2>4. UsageType'
    BY <1>0, <1>8, <2>3, UsageOps DEF UsageType, Resolve, AddBack
  <2>5. SyncType'
    <3>1. Except(batch[p], slots) \in Usage
      BY <2>3, UsageOps
    <3> QED BY <1>0, <1>8, <3>1 DEF SyncType, Resolve
  <2> QED BY <2>1, <2>2, <2>4, <2>5
<1>9. CASE AddBackKeys(p)
  BY <1>0, <1>8, <1>9, SlotsOfCalls DEF AddBackKeys, Labels, SyncType
<1>10. CASE AddBackProjects(p)
  <2>1. now' \in [Syncers -> SUBSET Times]
    BY <1>0, <1>10 DEF AddBackProjects, SyncType
  <2> QED BY <1>8, <1>10, <2>1, SlotsOfCalls DEF AddBackProjects, Labels
<1> QED
  BY <1>1, <1>2, <1>3, <1>4, <1>6, <1>7, <1>9, <1>10 DEF SyncUsage

(* The steps of Run and Stop before a round, and the ticker. *)
LEMMA QuietType ==
  ASSUME TypeOK,
         \/ Tick
         \/ \E l \in Loops : RunCheck(l) \/ RunStart(l) \/ RunTick(l)
         \/ \E p \in Stoppers : StopCheck(p)
  PROVE  TypeOK'
<1>0. RunType /\ pc \in [Syncers -> Labels]
  BY TypeParts DEF PlaceType
<1>1. CASE Tick
  <2>1. RunType'
    BY <1>0, <1>1, Zenon DEF Tick, RunType
  <2> QED BY <1>0, <1>1, <2>1, RunTypes, Zenon DEF Tick
<1>2. ASSUME NEW l \in Loops, RunCheck(l) PROVE TypeOK'
  <2>1. RunType'
    BY <1>0, <1>2, Zenon DEF RunCheck, run, RunType
  <2>2. pc' \in [Syncers -> Labels]
    BY <1>0, <1>2, GotoType DEF RunCheck, Labels
  <2> QED BY <1>2, <2>1, <2>2, RunTypes, Zenon DEF RunCheck
<1>3. ASSUME NEW l \in Loops, RunStart(l) PROVE TypeOK'
  <2>1. running' \in 0..2
    BY <1>3 DEF RunStart
  <2>2. RunType'
    BY <1>0, <1>3, <2>1, Zenon DEF RunStart, RunType
  <2>3. pc' \in [Syncers -> Labels]
    BY <1>0, <1>3, GotoType DEF RunStart, Labels
  <2> QED BY <1>3, <2>2, <2>3, RunTypes, Zenon DEF RunStart
<1>4. ASSUME NEW l \in Loops, RunTick(l) PROVE TypeOK'
  <2>1. RunType'
    BY <1>0, <1>4, Zenon DEF RunTick, RunType
  <2>2. pc' \in [Syncers -> Labels]
    BY <1>0, <1>4, GotoType DEF RunTick, Labels
  <2> QED BY <1>4, <2>1, <2>2, RunTypes, Zenon DEF RunTick
<1>5. ASSUME NEW p \in Stoppers, StopCheck(p) PROVE TypeOK'
  <2>1. RunType'
    BY <1>0, <1>5, Zenon DEF StopCheck, run, RunType
  <2>2. pc' \in [Syncers -> Labels]
    BY <1>0, <1>5, GotoType DEF StopCheck, Labels
  <2> QED BY <1>5, <2>1, <2>2, RunTypes, Zenon DEF StopCheck
<1> QED
  BY <1>1, <1>2, <1>3, <1>4, <1>5

LEMMA StopTickerType ==
  ASSUME TypeOK, NEW p \in Stoppers, StopTicker(p)
  PROVE  TypeOK'
<1>0. UsageType /\ RunType /\ SyncType /\ PlaceType
  BY TypeParts, Zenon
<1>1. running' \in 0..2
  BY DEF StopTicker
<1>2. RunType'
  BY <1>1, Zenon DEF StopTicker, RunType
<1>3. PlaceType'
  BY <1>0, GotoType DEF StopTicker, PlaceType, UsageType, Labels
<1>4. UsageType' /\ SyncType'
  BY <1>0, Zenon DEF StopTicker, usage, sync, UsageType, SyncType
<1> QED
  BY <1>2, <1>3, <1>4, Zenon DEF TypeOK, UsageType, RunType, SyncType, PlaceType

LEMMA TrackerNextType == TypeOK /\ [Next]_vars => TypeOK'
<1> SUFFICES ASSUME TypeOK, [Next]_vars PROVE TypeOK'
  OBVIOUS
<1>1. CASE UNCHANGED vars
  BY <1>1, Zenon DEF vars, usage, run, sync, TypeOK
<1>2. CASE Next
  BY <1>2, AddUsageType, QuietType, StopTickerType, RoundType, Zenon
     DEF Next, RunStep, StopStep, Syncers
<1> QED
  BY <1>1, <1>2

-----------------------------------------------------------------------------
(* The invariant. *)

(* Steps outside a round: no usage moves and nobody enters or leaves one. *)
LEMMA QuietKept ==
  ASSUME TrackerInv, TypeOK',
         UNCHANGED <<tracked, stored, lost, recorded, doubled, mutex, sync>>,
         \A q \in Syncers : pc'[q] = pc[q] \/ {pc[q], pc'[q]} \cap Critical = {}
  PROVE  TrackerInv'
<1>0. OneRound /\ RoundCovers /\ AnswerOfCall /\ EveryUnitAccounted /\ DoubledIsStored
  BY DEF TrackerInv
<1>1. OneRound'
  BY <1>0 DEF OneRound, sync
<1>2. RoundCovers'
  <2> SUFFICES ASSUME NEW q \in Syncers, NEW s \in Slots, batch[q][s] > 0
               PROVE  /\ pc'[q] # "take"
                      /\ \/ s[1] \in todo[q]
                         \/ s \in KeySlots(q) /\ pc'[q] \in {"keys", "keysdone"}
                         \/ s \in ProjectSlots(q)
                              /\ pc'[q] \in {"keys", "keysdone", "projects", "projectsdone"}
    BY DEF RoundCovers, KeySlots, ProjectSlots, sync
  <2> QED
    BY <1>0 DEF RoundCovers, Critical
<1>3. AnswerOfCall'
  BY <1>0 DEF AnswerOfCall, KeySlots, ProjectSlots, sync, Critical
<1>4. EveryUnitAccounted'
  BY <1>0 DEF EveryUnitAccounted, InFlight, sync
<1>5. DoubledIsStored'
  BY <1>0 DEF DoubledIsStored
<1> QED
  BY <1>1, <1>2, <1>3, <1>4, <1>5 DEF TrackerInv

LEMMA AddUsageKept ==
  ASSUME TrackerInv, TypeOK', NEW s \in Slots, AddUsage(s)
  PROVE  TrackerInv'
<1>0. TypeOK /\ OneRound /\ RoundCovers /\ AnswerOfCall /\ EveryUnitAccounted /\ DoubledIsStored
  BY DEF TrackerInv
<1>1. OneRound' /\ RoundCovers' /\ AnswerOfCall'
  BY <1>0 DEF AddUsage, sync, OneRound, RoundCovers, AnswerOfCall, KeySlots, ProjectSlots
<1>2. EveryUnitAccounted'
  <2> SUFFICES ASSUME NEW r \in Slots
               PROVE  recorded'[r] + doubled[r] = tracked'[r] + stored[r] + lost[r] + InFlight[r]
    BY DEF EveryUnitAccounted, InFlight, AddUsage, sync
  <2>1. InFlight \in Usage
    BY <1>0, UsageOps DEF InFlight, TypeOK
  <2>2. recorded[r] + doubled[r] = tracked[r] + stored[r] + lost[r] + InFlight[r]
    BY <1>0 DEF EveryUnitAccounted
  <2>3. /\ {recorded[r], doubled[r], tracked[r], stored[r], lost[r], InFlight[r]} \subseteq Nat
        /\ \/ recorded'[r] = recorded[r] + 1 /\ tracked'[r] = tracked[r] + 1
           \/ recorded'[r] = recorded[r] /\ tracked'[r] = tracked[r]
    BY <1>0, <2>1 DEF AddUsage, TypeOK, Usage
  <2> QED
    BY <2>2, <2>3
<1>3. DoubledIsStored'
  BY <1>0 DEF AddUsage, DoubledIsStored
<1> QED
  BY <1>1, <1>2, <1>3 DEF TrackerInv

(* In a round, p holds the mutex and nobody else has usage in hand. *)
LEMMA Alone ==
  ASSUME TrackerInv, NEW p \in Syncers, pc[p] \in Critical
  PROVE  /\ mutex = p /\ mutex # Nobody /\ InFlight = batch[p]
         /\ \A q \in Syncers : q # p => batch[q] = None /\ pc[q] \notin Critical
  BY TrackerAssumption DEF TrackerInv, OneRound, InFlight

(* A step of p in its round leaves the other parties out of theirs. *)
LEMMA RoundFrame ==
  ASSUME TrackerInv, NEW p \in Syncers, pc[p] \in Critical,
         NEW label \in Critical, Goto(p, label), UNCHANGED mutex,
         NEW b, batch' = [batch EXCEPT ![p] = b],
         NEW f, failed' = [failed EXCEPT ![p] = f],
         label = "keysdone" => f \subseteq KeySlots(p)',
         label = "projectsdone" => f \subseteq ProjectSlots(p)',
         \A s \in Slots : b[s] > 0 =>
           /\ label # "take"
           /\ \/ s[1] \in todo'[p]
              \/ s \in KeySlots(p)' /\ label \in {"keys", "keysdone"}
              \/ s \in ProjectSlots(p)'
                   /\ label \in {"keys", "keysdone", "projects", "projectsdone"}
  PROVE  OneRound' /\ RoundCovers' /\ AnswerOfCall'
<1>0. /\ pc' = [pc EXCEPT ![p] = label]
      /\ pc \in [Syncers -> Labels] /\ batch \in [Syncers -> Usage]
      /\ failed \in [Syncers -> SUBSET Slots]
  BY DEF Goto, TrackerInv, TypeOK
<1>1. /\ mutex = p
      /\ \A q \in Syncers : q # p => batch[q] = None /\ pc[q] \notin Critical
  BY Alone
<1>2. OneRound'
  BY <1>0, <1>1 DEF OneRound
<1>3. RoundCovers'
  <2> SUFFICES ASSUME NEW q \in Syncers, NEW s \in Slots, batch'[q][s] > 0
               PROVE  /\ pc'[q] # "take"
                      /\ \/ s[1] \in todo'[q]
                         \/ s \in KeySlots(q)' /\ pc'[q] \in {"keys", "keysdone"}
                         \/ s \in ProjectSlots(q)'
                              /\ pc'[q] \in {"keys", "keysdone", "projects", "projectsdone"}
    BY DEF RoundCovers
  <2>1. CASE q = p
    BY <1>0, <2>1
  <2>2. CASE q # p
    <3>1. batch'[q] = None
      BY <1>0, <1>1, <2>2
    <3> QED BY <3>1 DEF None
  <2> QED BY <2>1, <2>2
<1>4. AnswerOfCall'
  <2> SUFFICES ASSUME NEW q \in Syncers
               PROVE  /\ pc'[q] = "keysdone" => failed'[q] \subseteq KeySlots(q)'
                      /\ pc'[q] = "projectsdone" => failed'[q] \subseteq ProjectSlots(q)'
    BY DEF AnswerOfCall
  <2>1. CASE q = p
    BY <1>0, <2>1
  <2>2. CASE q # p
    BY <1>0, <1>1, <2>2 DEF Critical
  <2> QED BY <2>1, <2>2
<1> QED
  BY <1>2, <1>3, <1>4

(* The units of p's batch are conserved when every slot keeps its sum. *)
LEMMA RoundAccount ==
  ASSUME TrackerInv, TypeOK', NEW p \in Syncers, pc[p] \in Critical,
         UNCHANGED <<mutex, recorded>>, NEW b, batch' = [batch EXCEPT ![p] = b],
         \A s \in Slots : tracked'[s] + stored'[s] + lost'[s] + b[s] + doubled[s]
                           = tracked[s] + stored[s] + lost[s] + batch[p][s] + doubled'[s]
  PROVE  EveryUnitAccounted'
<1>1. mutex = p /\ mutex # Nobody /\ InFlight = batch[p]
  BY Alone
<1>2. batch \in [Syncers -> Usage]
  BY DEF TrackerInv, TypeOK
<1>3. InFlight' = b
  BY <1>1, <1>2 DEF InFlight
<1>4. /\ b \in Usage /\ batch[p] \in Usage
      /\ \A f \in {tracked, stored, lost, recorded, doubled} : f \in Usage
      /\ \A f \in {tracked', stored', lost', recorded', doubled'} : f \in Usage
<2>1. b = batch'[p]
  BY <1>2
<2> QED
  BY <1>2, <2>1 DEF TrackerInv, TypeOK
<1> SUFFICES ASSUME NEW s \in Slots
             PROVE  recorded'[s] + doubled'[s] = tracked'[s] + stored'[s] + lost'[s] + b[s]
  BY <1>3 DEF EveryUnitAccounted
<1>5. recorded[s] + doubled[s] = tracked[s] + stored[s] + lost[s] + batch[p][s]
  BY <1>1 DEF EveryUnitAccounted, TrackerInv
<1>6. /\ {b[s], batch[p][s], tracked[s], stored[s], lost[s], recorded[s], doubled[s]} \subseteq Nat
      /\ {tracked'[s], stored'[s], lost'[s], doubled'[s]} \subseteq Nat /\ recorded'[s] = recorded[s]
  BY <1>4 DEF Usage
<1> QED
  BY <1>5, <1>6

LEMMA LockKept ==
  ASSUME TrackerInv, TypeOK', NEW p \in Syncers, Lock(p)
  PROVE  TrackerInv'
<1>0. /\ pc' = [pc EXCEPT ![p] = "take"] /\ pc[p] = "lock"
      /\ pc \in [Syncers -> Labels] /\ batch \in [Syncers -> Usage]
      /\ mutex = Nobody /\ mutex' = p /\ p # Nobody
      /\ UNCHANGED <<tracked, stored, lost, recorded, doubled, batch, todo, now, failed>>
  BY TrackerAssumption DEF Lock, Goto, TrackerInv, TypeOK, usage, sync
<1>1. \A q \in Syncers : batch[q] = None /\ pc[q] \notin Critical
  BY <1>0, TrackerAssumption DEF TrackerInv, OneRound
<1>2. OneRound'
  BY <1>0, <1>1 DEF OneRound
<1>3. RoundCovers'
  BY <1>0, <1>1 DEF RoundCovers, None
<1>4. AnswerOfCall'
  BY <1>0, <1>1 DEF AnswerOfCall, Critical
<1>5. EveryUnitAccounted'
  BY <1>0, <1>1 DEF EveryUnitAccounted, InFlight, TrackerInv
<1>6. DoubledIsStored'
  BY <1>0 DEF DoubledIsStored, TrackerInv
<1> QED
  BY <1>2, <1>3, <1>4, <1>5, <1>6 DEF TrackerInv

LEMMA UnlockKept ==
  ASSUME TrackerInv, TypeOK', NEW p \in Syncers, Unlock(p)
  PROVE  TrackerInv'
<1>0. /\ pc' = [pc EXCEPT ![p] = IF p \in Loops THEN "wait" ELSE "done"]
      /\ pc[p] = "next" /\ todo[p] = {} /\ mutex' = Nobody
      /\ pc \in [Syncers -> Labels] /\ batch \in [Syncers -> Usage]
      /\ UNCHANGED <<tracked, stored, lost, recorded, doubled, batch, todo, now, failed>>
  BY DEF Unlock, Goto, TrackerInv, TypeOK, usage, sync
<1>1. /\ mutex = p /\ mutex # Nobody /\ InFlight = batch[p]
      /\ \A q \in Syncers : q # p => batch[q] = None /\ pc[q] \notin Critical
  BY <1>0, Alone DEF Critical
<1>2. batch[p] = None
  <2>1. \A s \in Slots : ~(batch[p][s] > 0)
    BY <1>0 DEF TrackerInv, RoundCovers
  <2> QED BY <1>0, <2>1, NothingIsNone
<1>3. \A q \in Syncers : batch[q] = None /\ pc'[q] \notin Critical
  BY <1>0, <1>1, <1>2 DEF Critical
<1>4. OneRound'
  BY <1>0, <1>3 DEF OneRound
<1>5. RoundCovers'
  BY <1>0, <1>3 DEF RoundCovers, None
<1>6. AnswerOfCall'
  BY <1>3 DEF AnswerOfCall, Critical
<1>7. EveryUnitAccounted'
  BY <1>0, <1>1, <1>2 DEF EveryUnitAccounted, InFlight, TrackerInv
<1>8. DoubledIsStored'
  BY <1>0 DEF DoubledIsStored, TrackerInv
<1> QED
  BY <1>4, <1>5, <1>6, <1>7, <1>8 DEF TrackerInv

LEMMA GetUpdatesKept ==
  ASSUME TrackerInv, TypeOK', NEW p \in Syncers, GetUpdates(p)
  PROVE  TrackerInv'
<1>0. /\ pc[p] = "take" /\ tracked \in Usage /\ batch \in [Syncers -> Usage]
      /\ failed \in [Syncers -> SUBSET Slots] /\ todo \in [Syncers -> SUBSET Times]
      /\ stored \in Usage /\ lost \in Usage /\ doubled \in Usage
  BY DEF GetUpdates, TrackerInv, TypeOK
<1>1. \A s \in Slots : batch[p][s] = 0
  BY <1>0 DEF TrackerInv, RoundCovers, Usage
<1>2. todo'[p] = {s[1] : s \in {r \in Slots : tracked[r] > 0}}
  BY <1>0 DEF GetUpdates
<1>3. \A s \in Slots : tracked[s] > 0 => s[1] \in todo'[p]
  BY <1>2
<1>4. OneRound' /\ RoundCovers' /\ AnswerOfCall'
  <2>1. failed' = [failed EXCEPT ![p] = failed[p]]
    BY <1>0 DEF GetUpdates
  <2>2. batch' = [batch EXCEPT ![p] = tracked] /\ Goto(p, "next") /\ UNCHANGED mutex
    BY DEF GetUpdates
  <2>3. pc[p] \in Critical /\ "next" \in Critical
    BY <1>0 DEF Critical
  <2> QED BY <1>3, <2>1, <2>2, <2>3, RoundFrame
<1>5. EveryUnitAccounted'
  <2>1. \A s \in Slots : tracked'[s] + stored'[s] + lost'[s] + tracked[s] + doubled[s]
                         = tracked[s] + stored[s] + lost[s] + batch[p][s] + doubled'[s]
    BY <1>0, <1>1 DEF GetUpdates, None, Usage
  <2>2. batch' = [batch EXCEPT ![p] = tracked] /\ UNCHANGED <<mutex, recorded>>
    BY DEF GetUpdates
  <2>3. pc[p] \in Critical
    BY <1>0 DEF Critical
  <2> QED BY <2>1, <2>2, <2>3, RoundAccount
<1>6. DoubledIsStored'
  BY DEF GetUpdates, DoubledIsStored, TrackerInv
<1> QED
  BY <1>4, <1>5, <1>6 DEF TrackerInv

LEMMA NextTimeKept ==
  ASSUME TrackerInv, TypeOK', NEW p \in Syncers, NextTime(p)
  PROVE  TrackerInv'
<1>0. /\ pc[p] = "next" /\ batch \in [Syncers -> Usage]
      /\ failed \in [Syncers -> SUBSET Slots] /\ todo \in [Syncers -> SUBSET Times]
      /\ now \in [Syncers -> SUBSET Times]
  BY DEF NextTime, TrackerInv, TypeOK
<1>1. PICK t \in todo[p] : todo' = [todo EXCEPT ![p] = @ \ {t}] /\ now' = [now EXCEPT ![p] = {t}]
  BY DEF NextTime
<1>2. \A s \in Slots : batch[p][s] > 0 => s[1] \in todo'[p] \/ s \in KeySlots(p)' \/ s \in ProjectSlots(p)'
  <2>1. \A s \in Slots : batch[p][s] > 0 => s[1] \in todo[p]
    BY <1>0 DEF TrackerInv, RoundCovers
  <2>2. \A s \in Slots : s[1] = t => s \in KeySlots(p)' \/ s \in ProjectSlots(p)'
    BY <1>0, <1>1 DEF Slots, Accounts, KeySlots, ProjectSlots
  <2> QED BY <1>0, <1>1, <2>1, <2>2
<1>3. OneRound' /\ RoundCovers' /\ AnswerOfCall'
  <2>1. failed' = [failed EXCEPT ![p] = failed[p]] /\ batch' = [batch EXCEPT ![p] = batch[p]]
    BY <1>0 DEF NextTime
  <2>2. Goto(p, "keys") /\ UNCHANGED mutex
    BY DEF NextTime
  <2>3. pc[p] \in Critical /\ "keys" \in Critical
    BY <1>0 DEF Critical
  <2> QED BY <1>2, <2>1, <2>2, <2>3, RoundFrame
<1>4. EveryUnitAccounted'
  BY DEF NextTime, usage, EveryUnitAccounted, InFlight, TrackerInv
<1>5. DoubledIsStored'
  BY DEF NextTime, usage, DoubledIsStored, TrackerInv
<1> QED
  BY <1>3, <1>4, <1>5 DEF TrackerInv

LEMMA CallKept ==
  ASSUME TrackerInv, TypeOK', NEW p \in Syncers,
         SyncAccessKeyUsage(p) \/ SyncProjectUsage(p)
  PROVE  TrackerInv'
<1>0. /\ batch \in [Syncers -> Usage] /\ batch[p] \in Usage /\ stored \in Usage
      /\ tracked \in Usage /\ lost \in Usage /\ failed \in [Syncers -> SUBSET Slots]
      /\ doubled \in Usage
  BY DEF TrackerInv, TypeOK
<1>1. ASSUME NEW slots \in SUBSET Slots, NEW label \in Critical,
             Call(p, slots), Goto(p, label), pc[p] \in Critical,
             label = "keysdone" => slots = KeySlots(p) /\ pc[p] = "keys",
             label = "projectsdone" => slots = ProjectSlots(p) /\ pc[p] = "projects",
             label \in {"keysdone", "projectsdone"}
      PROVE  TrackerInv'
  <2>1. PICK done \in SUBSET (slots \ BadSlots), told \in SUBSET (slots \ BadSlots) :
          /\ told \subseteq done
          /\ told = done \/ (Doubtful /\ Transport = "local")
          /\ \/ told = slots \ BadSlots /\ UNCHANGED count
             \/ /\ told # slots \ BadSlots
                /\ count.failures < MaxFailures
                /\ count' = [count EXCEPT !.failures = @ + 1]
          /\ stored' = Plus(stored, Only(batch[p], done))
          /\ doubled' = Plus(doubled, Only(batch[p], done \ told))
          /\ batch' = [batch EXCEPT ![p] = Except(@, told)]
          /\ failed' = [failed EXCEPT ![p] = Reported(slots \ BadSlots, told)]
          /\ UNCHANGED <<tracked, lost, recorded, run, mutex, todo, now, before>>
    <3>1. Call(p, slots)
      BY <1>1
    <3> QED BY <3>1 DEF Call
  <2>12. PICK b : b = Except(batch[p], told)
    OBVIOUS
  <2>13. PICK f : f = Reported(slots \ BadSlots, told)
    OBVIOUS
  <2>2. batch' = [batch EXCEPT ![p] = b] /\ failed' = [failed EXCEPT ![p] = f]
    BY <2>1, <2>12, <2>13
  <2>3. f \subseteq slots
    BY <2>13 DEF Reported
  <2>4. \A s \in Slots : b[s] > 0 => batch[p][s] > 0
    BY <1>0, <2>12, UsageAt
  <2>5. KeySlots(p)' = KeySlots(p) /\ ProjectSlots(p)' = ProjectSlots(p)
    BY <2>1 DEF KeySlots, ProjectSlots
  <2>6. \A s \in Slots : b[s] > 0 =>
           /\ label # "take"
           /\ \/ s[1] \in todo'[p]
              \/ s \in KeySlots(p)' /\ label \in {"keys", "keysdone"}
              \/ s \in ProjectSlots(p)'
                   /\ label \in {"keys", "keysdone", "projects", "projectsdone"}
    BY <1>1, <2>1, <2>4, <2>5 DEF TrackerInv, RoundCovers
  <2>10. UNCHANGED <<mutex, recorded>> /\ UNCHANGED mutex
    BY <2>1
  <2>11. /\ label = "keysdone" => f \subseteq KeySlots(p)'
         /\ label = "projectsdone" => f \subseteq ProjectSlots(p)'
    BY <1>1, <2>3, <2>5
  <2>7. OneRound' /\ RoundCovers' /\ AnswerOfCall'
    <3>1. pc[p] \in Critical /\ Goto(p, label)
      BY <1>1
    <3> QED BY <2>2, <2>6, <2>10, <2>11, <3>1, RoundFrame
  <2>14. \A s \in Slots :
           /\ doubled'[s] = doubled[s] + (IF s \in done \ told THEN batch[p][s] ELSE 0)
           /\ stored'[s] = stored[s] + (IF s \in done THEN batch[p][s] ELSE 0)
    <3> TAKE s \in Slots
    <3>1. Only(batch[p], done) \in Usage /\ Only(batch[p], done \ told) \in Usage
      BY <1>0, UsageOps
    <3>2. /\ stored'[s] = stored[s] + Only(batch[p], done)[s]
          /\ doubled'[s] = doubled[s] + Only(batch[p], done \ told)[s]
      BY <1>0, <2>1, <3>1, PlusAt
    <3>3. /\ Only(batch[p], done)[s] = IF s \in done THEN batch[p][s] ELSE 0
          /\ Only(batch[p], done \ told)[s] = IF s \in done \ told THEN batch[p][s] ELSE 0
      BY DEF Only
    <3> QED BY <3>2, <3>3
  <2>8. \A s \in Slots : tracked'[s] + stored'[s] + lost'[s] + b[s] + doubled[s]
                         = tracked[s] + stored[s] + lost[s] + batch[p][s] + doubled'[s]
    <3> TAKE s \in Slots
    <3>1. b[s] = IF s \in told THEN 0 ELSE batch[p][s]
      BY <1>0, <2>12, UsageAt
    <3>2. {tracked[s], stored[s], lost[s], batch[p][s], doubled[s]} \subseteq Nat
      BY <1>0 DEF Usage
    <3>3. tracked'[s] = tracked[s] /\ lost'[s] = lost[s]
      BY <2>1
    <3>4. s \in told => s \in done
      BY <2>1
    <3> QED BY <2>14, <3>1, <3>2, <3>3, <3>4
  <2>15. DoubledIsStored'
    <3>1. DoubledIsStored /\ \A s \in Slots : {stored[s], batch[p][s], doubled[s]} \subseteq Nat
      BY <1>0 DEF Usage, TrackerInv
    <3>2. \A s \in Slots : doubled'[s] <= stored'[s]
      BY <2>14, <3>1 DEF DoubledIsStored
    <3>3. doubled' = None \/ (Doubtful /\ Transport = "local")
      <4>1. CASE told = done
        <5>1. \A s \in Slots : doubled'[s] = doubled[s]
          BY <2>14, <3>1, <4>1
        <5>2. doubled' = doubled
          BY <1>0, <5>1 DEF TypeOK, Usage
        <5> QED BY <3>1, <5>2 DEF DoubledIsStored
      <4> QED BY <2>1, <4>1
    <3> QED BY <3>2, <3>3 DEF DoubledIsStored
  <2>9. EveryUnitAccounted'
    BY <1>1, <2>2, <2>8, <2>10, RoundAccount
  <2> QED BY <2>7, <2>9, <2>15 DEF TrackerInv
<1>2. TypeOK
  BY DEF TrackerInv
<1>3. CASE SyncAccessKeyUsage(p)
  BY <1>1, <1>2, <1>3, SlotsOfCalls DEF SyncAccessKeyUsage, Critical
<1>4. CASE SyncProjectUsage(p)
  BY <1>1, <1>2, <1>4, SlotsOfCalls DEF SyncProjectUsage, Critical
<1> QED
  BY <1>3, <1>4

LEMMA AddBackKept ==
  ASSUME TrackerInv, TypeOK', NEW p \in Syncers, AddBackKeys(p) \/ AddBackProjects(p)
  PROVE  TrackerInv'
<1>0. /\ TypeOK /\ batch \in [Syncers -> Usage] /\ batch[p] \in Usage
      /\ stored \in Usage /\ tracked \in Usage /\ lost \in Usage
      /\ now \in [Syncers -> SUBSET Times] /\ failed \in [Syncers -> SUBSET Slots]
      /\ doubled \in Usage
  BY DEF TrackerInv, TypeOK
<1>1. ASSUME NEW slots \in SUBSET Slots, Resolve(p, slots), failed[p] \subseteq slots,
             pc[p] \in Critical
      PROVE  EveryUnitAccounted' /\ DoubledIsStored'
  <2>1. PICK b : b = Except(batch[p], slots)
    OBVIOUS
  <2>2. batch' = [batch EXCEPT ![p] = b] /\ UNCHANGED <<mutex, recorded>> /\ UNCHANGED <<stored, doubled>>
    BY <1>1, <2>1 DEF Resolve
  <2>3. \A s \in Slots : tracked'[s] + stored'[s] + lost'[s] + b[s] + doubled[s]
                         = tracked[s] + stored[s] + lost[s] + batch[p][s] + doubled'[s]
    <3> TAKE s \in Slots
    <3> DEFINE back == Only(batch[p], failed[p])
               gone == Only(batch[p], slots \ failed[p])
    <3>1. back \in Usage /\ gone \in Usage
      BY <1>0, UsageOps
    <3>2. /\ back[s] = IF s \in failed[p] THEN batch[p][s] ELSE 0
          /\ gone[s] = IF s \in slots \ failed[p] THEN batch[p][s] ELSE 0
      BY <1>0, UsageAt
    <3>3. tracked' = Plus(tracked, back) /\ lost' = Plus(lost, gone)
      BY <1>1 DEF Resolve, AddBack
    <3> HIDE DEF back, gone
    <3>4. tracked'[s] = tracked[s] + back[s] /\ lost'[s] = lost[s] + gone[s]
      BY <1>0, <3>1, <3>3, PlusAt
    <3>5. b[s] = IF s \in slots THEN 0 ELSE batch[p][s]
      BY <1>0, <2>1, UsageAt
    <3>6. /\ {tracked[s], stored[s], lost[s], batch[p][s], doubled[s]} \subseteq Nat
          /\ stored'[s] = stored[s] /\ doubled'[s] = doubled[s]
      BY <1>0, <2>2, UsageAt
    <3> QED BY <1>1, <3>2, <3>4, <3>5, <3>6
  <2>4. DoubledIsStored'
    BY <2>2 DEF DoubledIsStored, TrackerInv
  <2> QED BY <1>1, <2>2, <2>3, <2>4, RoundAccount
<1>2. CASE AddBackKeys(p)
  <2>1. /\ pc[p] = "keysdone" /\ Resolve(p, KeySlots(p)) /\ Goto(p, "projects")
        /\ UNCHANGED now /\ UNCHANGED todo /\ UNCHANGED mutex
    BY <1>2 DEF AddBackKeys, Resolve
  <2>2. failed[p] \subseteq KeySlots(p) /\ KeySlots(p) \in SUBSET Slots
    BY <1>0, <2>1, SlotsOfCalls DEF TrackerInv, AnswerOfCall
  <2>3. pc[p] \in Critical /\ "projects" \in Critical
    BY <2>1 DEF Critical
  <2>4. EveryUnitAccounted' /\ DoubledIsStored'
    BY <1>1, <2>1, <2>2, <2>3
  <2>5. PICK b : b = Except(batch[p], KeySlots(p))
    OBVIOUS
  <2>6. batch' = [batch EXCEPT ![p] = b] /\ failed' = [failed EXCEPT ![p] = {}]
    BY <2>1, <2>5 DEF Resolve
  <2>7. ProjectSlots(p)' = ProjectSlots(p)
    BY <2>1 DEF ProjectSlots
  <2>8. \A s \in Slots : b[s] > 0 => batch[p][s] > 0 /\ s \notin KeySlots(p)
    BY <1>0, <2>5, UsageAt
  <2>9. \A s \in Slots : b[s] > 0 => s[1] \in todo'[p] \/ s \in ProjectSlots(p)'
    BY <2>1, <2>7, <2>8 DEF TrackerInv, RoundCovers
  <2>10. OneRound' /\ RoundCovers' /\ AnswerOfCall'
    BY <2>1, <2>3, <2>6, <2>9, RoundFrame
  <2> QED BY <2>4, <2>10 DEF TrackerInv
<1>3. CASE AddBackProjects(p)
  <2>1. /\ pc[p] = "projectsdone" /\ Resolve(p, ProjectSlots(p)) /\ Goto(p, "next")
        /\ UNCHANGED todo /\ UNCHANGED mutex
    BY <1>3 DEF AddBackProjects, Resolve
  <2>2. failed[p] \subseteq ProjectSlots(p) /\ ProjectSlots(p) \in SUBSET Slots
    BY <1>0, <2>1, SlotsOfCalls DEF TrackerInv, AnswerOfCall
  <2>3. pc[p] \in Critical /\ "next" \in Critical
    BY <2>1 DEF Critical
  <2>4. EveryUnitAccounted' /\ DoubledIsStored'
    BY <1>1, <2>1, <2>2, <2>3
  <2>5. PICK b : b = Except(batch[p], ProjectSlots(p))
    OBVIOUS
  <2>6. batch' = [batch EXCEPT ![p] = b] /\ failed' = [failed EXCEPT ![p] = {}]
    BY <2>1, <2>5 DEF Resolve
  <2>7. \A s \in Slots : b[s] > 0 => batch[p][s] > 0 /\ s \notin ProjectSlots(p)
    BY <1>0, <2>5, UsageAt
  <2>8. \A s \in Slots : b[s] > 0 => s[1] \in todo'[p]
    BY <2>1, <2>7 DEF TrackerInv, RoundCovers
  <2>9. OneRound' /\ RoundCovers' /\ AnswerOfCall'
    BY <2>1, <2>3, <2>6, <2>8, RoundFrame
  <2> QED BY <2>4, <2>9 DEF TrackerInv
<1> QED
  BY <1>2, <1>3

-----------------------------------------------------------------------------

LEMMA TrackerStep == TrackerInv /\ [Next]_vars => TrackerInv'
<1> SUFFICES ASSUME TrackerInv, [Next]_vars PROVE TrackerInv'
  OBVIOUS
<1>0. TypeOK' /\ pc \in [Syncers -> Labels]
  BY TrackerNextType DEF TrackerInv, TypeOK
<1>1. CASE UNCHANGED vars
  <2>1. \A q \in Syncers : pc'[q] = pc[q]
    BY <1>1 DEF vars
  <2> QED BY <1>0, <1>1, <2>1, QuietKept DEF vars, usage
<1>2. ASSUME NEW s \in Slots, AddUsage(s) PROVE TrackerInv'
  BY <1>0, <1>2, AddUsageKept
<1>3. CASE Tick
  <2>1. \A q \in Syncers : pc'[q] = pc[q]
    BY <1>3 DEF Tick
  <2> QED BY <1>0, <1>3, <2>1, QuietKept DEF Tick, usage
<1>4. ASSUME NEW p \in Syncers, NEW label \in Labels, label \notin Critical, pc[p] \notin Critical,
             Goto(p, label), UNCHANGED <<tracked, stored, lost, recorded, doubled, mutex, sync>>
      PROVE  TrackerInv'
  <2>1. \A q \in Syncers : pc'[q] = pc[q] \/ {pc[q], pc'[q]} \cap Critical = {}
    BY <1>0, <1>4 DEF Goto
  <2> QED BY <1>0, <1>4, <2>1, QuietKept
<1>5. ASSUME NEW l \in Loops, RunStep(l) PROVE TrackerInv'
  <2>1. CASE RunCheck(l)
    BY <1>4, <2>1 DEF RunCheck, usage, Syncers, Labels, Critical
  <2>2. CASE RunStart(l)
    BY <1>4, <2>2 DEF RunStart, usage, Syncers, Labels, Critical
  <2>3. CASE RunTick(l)
    BY <1>4, <2>3 DEF RunTick, usage, Syncers, Labels, Critical
  <2>4. CASE SyncUsage(l)
    BY <1>0, <2>4, LockKept, GetUpdatesKept, NextTimeKept, UnlockKept, CallKept, AddBackKept
       DEF SyncUsage, Syncers
  <2> QED BY <1>5, <2>1, <2>2, <2>3, <2>4 DEF RunStep
<1>6. ASSUME NEW p \in Stoppers, StopStep(p) PROVE TrackerInv'
  <2>1. CASE StopCheck(p)
    BY <1>4, <2>1 DEF StopCheck, usage, Syncers, Labels, Critical
  <2>2. CASE StopTicker(p)
    BY <1>4, <2>2 DEF StopTicker, usage, Syncers, Labels, Critical
  <2>3. CASE SyncUsage(p)
    BY <1>0, <2>3, LockKept, GetUpdatesKept, NextTimeKept, UnlockKept, CallKept, AddBackKept
       DEF SyncUsage, Syncers
  <2> QED BY <1>6, <2>1, <2>2, <2>3 DEF StopStep
<1> QED
  BY <1>1, <1>2, <1>3, <1>5, <1>6 DEF Next

(* The tracker's inductive invariant: rounds exclude one another, and a round *)
(* keeps hold of every time it has not synced (Tracker.SyncUsage).            *)
THEOREM TrackerInvCorrect == Spec => []TrackerInv
  BY InitTracker, TrackerStep, PTL DEF Spec

(* Conservation: however AddUsage, Run and Stop interleave and whatever calls *)
(* fail, each unit recorded is in the tracker, in the store, in hand or lost  *)
(* with a failed call, and in one of them only; a second one is in the store  *)
(* only when an insert was done and reported as failed (server.go:270, 301).  *)
THEOREM UsageIsConserved == Spec => []EveryUnitAccounted
<1>1. TrackerInv => EveryUnitAccounted
  BY DEF TrackerInv
<1> QED
  BY <1>1, TrackerInvCorrect, PTL
-----------------------------------------------------------------------------
(* What becomes of the usage a round has in hand. *)

(* The steps of one call of Run or Stop. *)
SyncerStep(p) == (p \in Loops /\ RunStep(p)) \/ (p \in Stoppers /\ StopStep(p))

LEMMA NextIsBy ==
  Next <=> (\E s \in Slots : AddUsage(s)) \/ Tick \/ \E p \in Syncers : SyncerStep(p)
  BY DEF Next, SyncerStep, Syncers

(* A step of p leaves the others where they are, with what they have. *)
LEMMA OthersStay ==
  ASSUME TypeOK, NEW p \in Syncers, SyncerStep(p), NEW q \in Syncers, q # p
  PROVE  /\ pc'[q] = pc[q] /\ batch'[q] = batch[q] /\ failed'[q] = failed[q]
         /\ now'[q] = now[q] /\ (q \in Stoppers => before'[q] = before[q])
<1>0. /\ pc \in [Syncers -> Labels] /\ batch \in [Syncers -> Usage]
      /\ now \in [Syncers -> SUBSET Times] /\ failed \in [Syncers -> SUBSET Slots]
      /\ before \in [Stoppers -> Usage]
  BY DEF TypeOK
<1> DEFINE Stay == /\ pc'[q] = pc[q] /\ batch'[q] = batch[q] /\ failed'[q] = failed[q]
                   /\ now'[q] = now[q] /\ (q \in Stoppers => before'[q] = before[q])
<1>1. ASSUME RunCheck(p) \/ RunStart(p) \/ RunTick(p) \/ StopCheck(p) \/ Lock(p) \/ Unlock(p) PROVE Stay
  BY <1>0, <1>1 DEF RunCheck, RunStart, RunTick, StopCheck, Lock, Unlock, Goto, sync
<1>2. ASSUME StopTicker(p) PROVE Stay
  BY <1>0, <1>2 DEF StopTicker, Goto, sync
<1>3. ASSUME GetUpdates(p) \/ NextTime(p) PROVE Stay
  BY <1>0, <1>3 DEF GetUpdates, NextTime, Goto
<1>4. ASSUME NEW slots, Call(p, slots), NEW label, Goto(p, label) PROVE Stay
  BY <1>0, <1>4 DEF Call, Goto
<1>5. ASSUME NEW slots, Resolve(p, slots), NEW label, Goto(p, label),
             now' = now \/ now' = [now EXCEPT ![p] = {}]
      PROVE  Stay
  BY <1>0, <1>5 DEF Resolve, Goto
<1> HIDE DEF Stay
<1>6. ASSUME SyncUsage(p) PROVE Stay
  BY <1>1, <1>3, <1>4, <1>5, <1>6
     DEF SyncUsage, SyncAccessKeyUsage, SyncProjectUsage, AddBackKeys, AddBackProjects
<1>7. Stay
  BY <1>1, <1>2, <1>6 DEF SyncerStep, RunStep, StopStep
<1> QED
  BY <1>7 DEF Stay

(* With every key known, a call inserts slots of its own, is told of some of *)
(* them, and in process reports exactly the rest; if no call has failed it   *)
(* is told of them all.                                                      *)
LEMMA CallIs ==
  ASSUME TypeOK, BadKeys = {}, NEW p \in Syncers, NEW slots \in SUBSET Slots, Call(p, slots)
  PROVE  \E done \in SUBSET slots, told \in SUBSET slots :
           /\ told \subseteq done
           /\ stored' = Plus(stored, Only(batch[p], done))
           /\ batch' = [batch EXCEPT ![p] = Except(@, told)]
           /\ failed' = [failed EXCEPT ![p] = Reported(slots, told)]
           /\ UNCHANGED <<tracked, lost, recorded, mutex, todo, now, before>>
           /\ count'.failures = 0 => told = slots /\ count.failures = 0
<1>1. slots \ BadSlots = slots
  BY DEF BadSlots
<1>2. PICK done \in SUBSET slots, told \in SUBSET slots :
        /\ told \subseteq done
        /\ \/ told = slots /\ UNCHANGED count
           \/ /\ told # slots
              /\ count.failures < MaxFailures
              /\ count' = [count EXCEPT !.failures = @ + 1]
        /\ stored' = Plus(stored, Only(batch[p], done))
        /\ batch' = [batch EXCEPT ![p] = Except(@, told)]
        /\ failed' = [failed EXCEPT ![p] = Reported(slots, told)]
        /\ UNCHANGED <<tracked, lost, recorded, run, mutex, todo, now, before>>
  BY <1>1 DEF Call
<1>3. count'.failures = 0 => told = slots /\ count.failures = 0
  BY <1>2, TrackerAssumption DEF TypeOK
<1> QED
  BY <1>2, <1>3

(* Failures are never forgotten. *)
LEMMA FailuresStay ==
  ASSUME TypeOK, [Next]_vars, count'.failures = 0
  PROVE  count.failures = 0
<1>1. CASE UNCHANGED count
  BY <1>1
<1>2. ASSUME NEW s \in Slots, AddUsage(s) PROVE count.failures = 0
  BY <1>2 DEF AddUsage, TypeOK
<1>3. ASSUME NEW p \in Syncers, NEW slots, Call(p, slots) PROVE count.failures = 0
  BY <1>3, TrackerAssumption DEF Call, TypeOK
<1>4. ASSUME NEW p \in Syncers, SyncerStep(p) PROVE count.failures = 0
  BY <1>1, <1>3, <1>4
     DEF SyncerStep, RunStep, StopStep, RunCheck, RunStart, RunTick, StopCheck, StopTicker, SyncUsage,
         Lock, Unlock, GetUpdates, NextTime, SyncAccessKeyUsage, SyncProjectUsage,
         AddBackKeys, AddBackProjects, Resolve, usage
<1>5. CASE Tick \/ UNCHANGED vars
  BY <1>1, <1>5 DEF Tick, vars, usage
<1> QED
  BY <1>2, <1>4, <1>5, NextIsBy

(* What an answer does not report has been inserted, when errors are         *)
(* reported or there were none.                                              *)
Faithful == Transport = "local" \/ count.failures = 0

NothingDropped ==
  /\ lost = None
  /\ \A p \in Syncers, s \in Slots : batch[p][s] > 0 =>
       /\ pc[p] = "keysdone" /\ s \in KeySlots(p) => s \in failed[p]
       /\ pc[p] = "projectsdone" /\ s \in ProjectSlots(p) => s \in failed[p]

LEMMA DroppedOfOthers ==
  ASSUME TypeOK, NothingDropped, NEW p \in Syncers, SyncerStep(p), lost' = None,
         \A s \in Slots : batch'[p][s] > 0 =>
           /\ pc'[p] = "keysdone" /\ s \in KeySlots(p)' => s \in failed'[p]
           /\ pc'[p] = "projectsdone" /\ s \in ProjectSlots(p)' => s \in failed'[p]
  PROVE  NothingDropped'
<1> SUFFICES ASSUME NEW q \in Syncers, NEW s \in Slots, batch'[q][s] > 0
             PROVE  /\ pc'[q] = "keysdone" /\ s \in KeySlots(q)' => s \in failed'[q]
                    /\ pc'[q] = "projectsdone" /\ s \in ProjectSlots(q)' => s \in failed'[q]
  BY DEF NothingDropped
<1>1. CASE q = p
  BY <1>1
<1>2. CASE q # p
<2>1. /\ pc'[q] = pc[q] /\ batch'[q] = batch[q] /\ failed'[q] = failed[q] /\ now'[q] = now[q]
  BY <1>2, OthersStay
<2> QED
  BY <2>1 DEF NothingDropped, KeySlots, ProjectSlots
<1> QED
  BY <1>1, <1>2

LEMMA CallDropsNothing ==
  ASSUME TrackerInv, NothingDropped, BadKeys = {}, NEW p \in Syncers, Faithful',
         SyncAccessKeyUsage(p) \/ SyncProjectUsage(p), SyncerStep(p)
  PROVE  NothingDropped'
<1>0. TypeOK /\ batch \in [Syncers -> Usage] /\ batch[p] \in Usage
      /\ failed \in [Syncers -> SUBSET Slots] /\ pc \in [Syncers -> Labels]
  BY DEF TrackerInv, TypeOK
<1>1. PICK slots \in SUBSET Slots :
        /\ Call(p, slots)
        /\ \/ slots = KeySlots(p) /\ pc'[p] = "keysdone"
           \/ slots = ProjectSlots(p) /\ pc'[p] = "projectsdone"
  BY <1>0, SlotsOfCalls DEF SyncAccessKeyUsage, SyncProjectUsage, Goto
<1>2. PICK told \in SUBSET slots :
        /\ batch' = [batch EXCEPT ![p] = Except(@, told)]
        /\ failed' = [failed EXCEPT ![p] = Reported(slots, told)]
        /\ UNCHANGED <<tracked, lost, recorded, mutex, todo, now, before>>
        /\ count'.failures = 0 => told = slots /\ count.failures = 0
  BY <1>0, <1>1, CallIs
<1>3. KeySlots(p)' = KeySlots(p) /\ ProjectSlots(p)' = ProjectSlots(p) /\ lost' = None
  BY <1>2 DEF KeySlots, ProjectSlots, NothingDropped
<1>4. batch'[p] = Except(batch[p], told) /\ failed'[p] = Reported(slots, told)
  BY <1>0, <1>2
<1>5. ASSUME NEW s \in Slots, batch'[p][s] > 0, s \in slots
      PROVE  s \in failed'[p]
<2>1. s \notin told
  BY <1>0, <1>4, <1>5, UsageAt
<2> QED
  BY <1>2, <1>4, <1>5, <2>1 DEF Faithful, Reported
<1> QED
  BY <1>0, <1>1, <1>3, <1>5, DroppedOfOthers

LEMMA ResolveDropsNothing ==
  ASSUME TrackerInv, TypeOK', NothingDropped, NEW p \in Syncers, SyncerStep(p),
         AddBackKeys(p) \/ AddBackProjects(p)
  PROVE  NothingDropped'
<1>0. TypeOK /\ batch \in [Syncers -> Usage] /\ batch[p] \in Usage /\ pc \in [Syncers -> Labels]
      /\ lost = None /\ lost \in Usage
  BY DEF TrackerInv, TypeOK, NothingDropped
<1>1. PICK slots \in SUBSET Slots :
        /\ Resolve(p, slots)
        /\ \/ slots = KeySlots(p) /\ pc[p] = "keysdone" /\ pc'[p] = "projects"
           \/ slots = ProjectSlots(p) /\ pc[p] = "projectsdone" /\ pc'[p] = "next"
  BY <1>0, SlotsOfCalls DEF AddBackKeys, AddBackProjects, Goto
<1>2. \A s \in slots \ failed[p] : batch[p][s] = 0
<2>1. \A s \in slots \ failed[p] : ~(batch[p][s] > 0)
  BY <1>1 DEF NothingDropped
<2> QED
  BY <1>0, <2>1 DEF Usage
<1>3. lost' = None
<2>1. PICK gone : gone = Only(batch[p], slots \ failed[p])
  OBVIOUS
<2>2. lost' = Plus(lost, gone) /\ gone \in Usage
  BY <1>0, <1>1, <2>1, UsageOps DEF Resolve
<2>3. ASSUME NEW s \in Slots PROVE ~(lost'[s] > 0)
<3>1. gone[s] = 0
  BY <1>0, <1>2, <2>1, UsageAt
<3>2. lost[s] = 0
  BY <1>0 DEF None
<3> QED
  BY <1>0, <2>2, <3>1, <3>2, PlusAt
<2>4. lost' \in Usage
  BY DEF TypeOK
<2> QED
  BY <2>3, <2>4, NothingIsNone
<1> QED
  BY <1>0, <1>1, <1>3, DroppedOfOthers

LEMMA DroppedStep ==
  ASSUME TrackerInv, TrackerInv', BadKeys = {}, [Next]_vars, Faithful => NothingDropped, Faithful'
  PROVE  NothingDropped'
<1>0. TypeOK /\ TypeOK' /\ NothingDropped /\ pc \in [Syncers -> Labels] /\ lost = None
  BY FailuresStay DEF TrackerInv, TypeOK, Faithful, NothingDropped
<1>1. CASE UNCHANGED vars \/ Tick \/ \E s \in Slots : AddUsage(s)
  BY <1>0, <1>1 DEF vars, Tick, AddUsage, usage, sync, NothingDropped, KeySlots, ProjectSlots
<1>2. ASSUME NEW p \in Syncers, SyncerStep(p) PROVE NothingDropped'
<2>1. CASE SyncAccessKeyUsage(p) \/ SyncProjectUsage(p)
  BY <1>0, <1>2, <2>1, CallDropsNothing
<2>2. CASE AddBackKeys(p) \/ AddBackProjects(p)
  BY <1>0, <1>2, <2>2, ResolveDropsNothing
<2>3. CASE RunCheck(p) \/ RunStart(p) \/ RunTick(p) \/ StopCheck(p) \/ StopTicker(p)
<3>1. pc'[p] \notin {"keysdone", "projectsdone"} /\ lost' = lost
  BY <1>0, <2>3 DEF RunCheck, RunStart, RunTick, StopCheck, StopTicker, Goto, usage
<3> QED
  BY <1>0, <1>2, <3>1, DroppedOfOthers
<2>4. CASE Lock(p) \/ GetUpdates(p) \/ NextTime(p) \/ Unlock(p)
<3>1. pc'[p] \notin {"keysdone", "projectsdone"} /\ lost' = lost
  BY <1>0, <2>4 DEF Lock, GetUpdates, NextTime, Unlock, Goto, usage
<3> QED
  BY <1>0, <1>2, <3>1, DroppedOfOthers
<2> QED
  BY <1>2, <2>1, <2>2, <2>3, <2>4 DEF SyncerStep, RunStep, StopStep, SyncUsage
<1> QED
  BY <1>1, <1>2, NextIsBy

LEMMA DroppedCorrect == BadKeys = {} /\ Spec => [](Faithful => NothingDropped)
<1>1. ASSUME BadKeys = {} PROVE Spec => [](Faithful => NothingDropped)
<2>1. Init => (Faithful => NothingDropped)
  BY DEF Init, NothingDropped
<2>2. TrackerInv /\ TrackerInv' /\ [Next]_vars /\ (Faithful => NothingDropped)
        => (Faithful => NothingDropped)'
  BY <1>1, DroppedStep
<2> QED
  BY <2>1, <2>2, TrackerInvCorrect, PTL DEF Spec
<1> QED
  BY <1>1

(* Usage that a call to the server could not insert is in the tracker again  *)
(* when the round ends, whichever calls fail and however often: nothing is   *)
(* lost when the server is called in process and knows every key             *)
(* (Tracker.SyncUsage adds the failed updates back, usage.go:85 and 98).     *)
THEOREM FailedUsageReturns ==
  ASSUME Transport = "local", BadKeys = {}
  PROVE  Spec => []NoUsageLost
<1>1. (Faithful => NothingDropped) => NoUsageLost
  BY DEF Faithful, NothingDropped, NoUsageLost
<1> QED
  BY <1>1, DroppedCorrect, PTL

-----------------------------------------------------------------------------
(* Stop. *)

LEMMA OnlyGrow ==
  ASSUME TrackerInv, [Next]_vars, NEW s \in Slots
  PROVE  stored[s] <= stored'[s] /\ recorded[s] <= recorded'[s]
<1>0. /\ TypeOK /\ stored[s] \in Nat /\ recorded[s] \in Nat
      /\ stored \in Usage /\ recorded \in Usage /\ batch \in [Syncers -> Usage]
  BY UsageAt DEF TrackerInv, TypeOK
<1>1. CASE UNCHANGED <<stored, recorded>>
  BY <1>0, <1>1
<1>2. ASSUME NEW r \in Slots, AddUsage(r) PROVE stored[s] <= stored'[s] /\ recorded[s] <= recorded'[s]
  BY <1>0, <1>2 DEF AddUsage, Usage
<1>3. ASSUME NEW p \in Syncers, NEW slots, Call(p, slots)
      PROVE  stored[s] <= stored'[s] /\ recorded[s] <= recorded'[s]
<2>1. PICK done \in SUBSET (slots \ BadSlots) : stored' = Plus(stored, Only(batch[p], done)) /\ recorded' = recorded
  BY <1>3 DEF Call
<2>2. Only(batch[p], done) \in Usage
  BY <1>0, UsageOps
<2>3. stored'[s] = stored[s] + Only(batch[p], done)[s] /\ Only(batch[p], done)[s] \in Nat
  BY <1>0, <2>1, <2>2, PlusAt, UsageAt
<2> QED
  BY <1>0, <2>1, <2>3
<1>4. ASSUME NEW p \in Syncers, SyncerStep(p) PROVE stored[s] <= stored'[s] /\ recorded[s] <= recorded'[s]
  BY <1>1, <1>3, <1>4
     DEF SyncerStep, RunStep, StopStep, RunCheck, RunStart, RunTick, StopCheck, StopTicker, SyncUsage,
         Lock, Unlock, GetUpdates, NextTime, SyncAccessKeyUsage, SyncProjectUsage,
         AddBackKeys, AddBackProjects, Resolve, usage
<1>5. CASE Tick \/ UNCHANGED vars
  BY <1>1, <1>5 DEF Tick, vars, usage
<1> QED
  BY <1>2, <1>4, <1>5, NextIsBy

(* No failure, nothing to retry. *)
NothingFailed == \A p \in Syncers : failed[p] = {}

(* How far the usage recorded before a Stop has come. *)
Flushing(p, s) ==
  /\ before[p][s] <= recorded[s]
  /\ pc[p] \in {"idle", "stopping"} => before[p][s] = 0
  /\ pc[p] \in Critical \ {"take"} => before[p][s] <= stored[s] + batch[p][s]
  /\ pc[p] = "done" => before[p][s] <= stored[s]

StopInv ==
  count.failures = 0 =>
    NothingDropped /\ NothingFailed /\ \A p \in Stoppers, s \in Slots : Flushing(p, s)

LEMMA NothingFailedStep ==
  ASSUME TrackerInv, BadKeys = {}, [Next]_vars, count'.failures = 0, NothingFailed
  PROVE  NothingFailed'
<1>0. TypeOK /\ failed \in [Syncers -> SUBSET Slots]
  BY DEF TrackerInv, TypeOK
<1>1. CASE UNCHANGED failed
  BY <1>1 DEF NothingFailed
<1>2. ASSUME NEW p \in Syncers, NEW slots \in SUBSET Slots, Call(p, slots) PROVE NothingFailed'
<2>1. PICK told \in SUBSET slots : told = slots /\ failed' = [failed EXCEPT ![p] = Reported(slots, told)]
  BY <1>0, <1>2, CallIs
<2>2. Reported(slots, told) = {}
  BY <2>1 DEF Reported
<2> QED
  BY <1>0, <2>1, <2>2 DEF NothingFailed
<1>3. ASSUME NEW p \in Syncers, NEW slots, Resolve(p, slots) PROVE NothingFailed'
  BY <1>0, <1>3 DEF Resolve, NothingFailed
<1>4. ASSUME NEW p \in Syncers, SyncerStep(p) PROVE NothingFailed'
  BY <1>0, <1>1, <1>2, <1>3, <1>4, SlotsOfCalls
     DEF SyncerStep, RunStep, StopStep, RunCheck, RunStart, RunTick, StopCheck, StopTicker, SyncUsage,
         Lock, Unlock, GetUpdates, NextTime, SyncAccessKeyUsage, SyncProjectUsage,
         AddBackKeys, AddBackProjects, sync
<1>5. CASE Tick \/ UNCHANGED vars \/ \E s \in Slots : AddUsage(s)
  BY <1>1, <1>5 DEF Tick, vars, AddUsage, sync
<1> QED
  BY <1>4, <1>5, NextIsBy

(* A step of the Stop itself. *)
LEMMA OwnFlush ==
  ASSUME TrackerInv, TrackerInv', BadKeys = {}, [Next]_vars, count'.failures = 0,
         NothingDropped, NothingFailed, NEW p \in Stoppers, StopStep(p),
         NEW s \in Slots, Flushing(p, s)
  PROVE  Flushing(p, s)'
<1>0. /\ TypeOK /\ p \in Syncers /\ pc \in [Syncers -> Labels] /\ before \in [Stoppers -> Usage]
      /\ batch \in [Syncers -> Usage] /\ batch[p] \in Usage /\ stored \in Usage
      /\ tracked \in Usage
  BY DEF TrackerInv, TypeOK, Syncers
<1>1. /\ {before[p][s], recorded[s], stored[s], batch[p][s], tracked[s]} \subseteq Nat
      /\ lost[s] = 0 /\ before[p][s] <= recorded[s]
      /\ stored[s] <= stored'[s] /\ recorded[s] <= recorded'[s]
  BY <1>0, OnlyGrow DEF TrackerInv, TypeOK, Usage, NothingDropped, None, Flushing
<1>2. CASE StopCheck(p)
<2>1. /\ before' = before /\ stored' = stored /\ recorded' = recorded /\ before[p][s] = 0
      /\ pc'[p] \in {"stopping", "done"}
  BY <1>0, <1>2 DEF StopCheck, Goto, usage, Flushing
<2> QED
  BY <1>1, <2>1 DEF Flushing, Critical
<1>3. CASE StopTicker(p)
<2>1. before'[p] = recorded /\ recorded' = recorded /\ pc'[p] = "lock"
  BY <1>0, <1>3 DEF StopTicker, Goto, usage
<2> QED
  BY <1>1, <2>1 DEF Flushing, Critical
<1>4. CASE Lock(p)
<2>1. before' = before /\ recorded' = recorded /\ pc'[p] = "take"
  BY <1>0, <1>4 DEF Lock, Goto, usage
<2> QED
  BY <1>1, <2>1 DEF Flushing, Critical
<1>5. CASE GetUpdates(p)
<2>1. /\ before' = before /\ recorded' = recorded /\ stored' = stored
      /\ pc[p] = "take" /\ pc'[p] = "next" /\ batch'[p] = tracked
  BY <1>0, <1>5 DEF GetUpdates, Goto
<2>2. InFlight = batch[p] /\ batch[p][s] = 0
  BY <1>0, <1>1, <2>1, Alone DEF Critical, TrackerInv, RoundCovers
<2>3. recorded[s] + doubled[s] = tracked[s] + stored[s] + lost[s] + InFlight[s] /\ doubled[s] \in Nat
  BY DEF TrackerInv, EveryUnitAccounted, TypeOK, Usage
<2>4. before[p][s] <= stored[s] + tracked[s]
  BY <1>1, <2>2, <2>3
<2> QED
  BY <1>1, <2>1, <2>4 DEF Flushing
<1>6. CASE NextTime(p)
<2>1. /\ before' = before /\ recorded' = recorded /\ stored' = stored /\ batch' = batch
      /\ pc[p] = "next" /\ pc'[p] = "keys"
  BY <1>0, <1>6 DEF NextTime, Goto, usage
<2> QED
  BY <1>1, <2>1 DEF Flushing, Critical
<1>7. CASE Unlock(p)
<2>1. /\ before' = before /\ recorded' = recorded /\ stored' = stored
      /\ pc[p] = "next" /\ todo[p] = {} /\ pc'[p] = "done"
  BY <1>0, <1>7, TrackerAssumption DEF Unlock, Goto, usage
<2>2. batch[p][s] = 0
  BY <1>0, <1>1, <2>1 DEF TrackerInv, RoundCovers
<2> QED
  BY <1>1, <2>1, <2>2 DEF Flushing, Critical
<1>8. CASE SyncAccessKeyUsage(p) \/ SyncProjectUsage(p)
<2>1. PICK slots \in SUBSET Slots :
        Call(p, slots) /\ pc[p] \in {"keys", "projects"} /\ pc'[p] \in {"keysdone", "projectsdone"}
  BY <1>0, <1>8, SlotsOfCalls DEF SyncAccessKeyUsage, SyncProjectUsage, Goto
<2>2. PICK done \in SUBSET slots, told \in SUBSET slots :
        /\ told \subseteq done
        /\ stored' = Plus(stored, Only(batch[p], done))
        /\ batch' = [batch EXCEPT ![p] = Except(@, told)]
        /\ UNCHANGED <<tracked, lost, recorded, mutex, todo, now, before>>
  BY <1>0, <2>1, CallIs
<2>3. Only(batch[p], done) \in Usage
  BY <1>0, UsageOps
<2>4. stored'[s] = stored[s] + Only(batch[p], done)[s]
  BY <1>0, <2>2, <2>3, PlusAt
<2>5. batch'[p] = Except(batch[p], told)
  BY <1>0, <2>2
<2>6. /\ stored[s] + batch[p][s] <= stored'[s] + batch'[p][s]
      /\ stored'[s] \in Nat /\ batch'[p][s] \in Nat
<3>1. /\ Only(batch[p], done)[s] = IF s \in done THEN batch[p][s] ELSE 0
      /\ Except(batch[p], told)[s] = IF s \in told THEN 0 ELSE batch[p][s]
  BY DEF Only, Except
<3> QED
  BY <1>1, <2>2, <2>4, <2>5, <3>1
<2> QED
  BY <1>1, <2>1, <2>2, <2>6 DEF Flushing, Critical
<1>9. CASE AddBackKeys(p) \/ AddBackProjects(p)
<2>1. PICK slots \in SUBSET Slots :
        /\ Resolve(p, slots) /\ pc'[p] \in {"projects", "next"}
        /\ \/ slots = KeySlots(p) /\ pc[p] = "keysdone"
           \/ slots = ProjectSlots(p) /\ pc[p] = "projectsdone"
  BY <1>0, <1>9, SlotsOfCalls DEF AddBackKeys, AddBackProjects, Goto
<2>2. /\ batch'[p] = Except(batch[p], slots)
      /\ before' = before /\ recorded' = recorded /\ stored' = stored
  BY <1>0, <2>1 DEF Resolve
<2>3. s \in slots => batch[p][s] = 0
  BY <1>0, <1>1, <2>1 DEF NothingDropped, NothingFailed
<2>4. batch'[p][s] = batch[p][s]
  BY <1>0, <1>1, <2>2, <2>3, UsageAt
<2> QED
  BY <1>1, <2>1, <2>2, <2>4 DEF Flushing, Critical
<1> QED
  BY <1>2, <1>3, <1>4, <1>5, <1>6, <1>7, <1>8, <1>9 DEF StopStep, SyncUsage

LEMMA StopInvStep ==
  ASSUME TrackerInv, TrackerInv', BadKeys = {}, [Next]_vars, StopInv
  PROVE  StopInv'
<1> SUFFICES ASSUME count'.failures = 0
             PROVE  NothingDropped' /\ NothingFailed' /\ \A p \in Stoppers, s \in Slots : Flushing(p, s)'
  BY DEF StopInv
<1>0. TypeOK /\ count.failures = 0
  BY FailuresStay DEF TrackerInv
<1>1. NothingDropped /\ NothingFailed /\ \A p \in Stoppers, s \in Slots : Flushing(p, s)
  BY <1>0 DEF StopInv
<1>2. NothingDropped' /\ NothingFailed'
  BY <1>1, DroppedStep, NothingFailedStep DEF Faithful
<1>3. ASSUME NEW p \in Stoppers, NEW s \in Slots PROVE Flushing(p, s)'
<2>1. CASE StopStep(p)
  BY <1>1, <2>1, OwnFlush
<2>2. CASE pc'[p] = pc[p] /\ batch'[p] = batch[p] /\ before'[p] = before[p]
<3>1. /\ {before[p][s], recorded[s], stored[s], batch[p][s], recorded'[s], stored'[s]} \subseteq Nat
      /\ stored[s] <= stored'[s] /\ recorded[s] <= recorded'[s]
  BY OnlyGrow DEF TrackerInv, TypeOK, Usage, Syncers
<3>2. Flushing(p, s)
  BY <1>1
<3> QED
  BY <2>2, <3>1, <3>2 DEF Flushing
<2>3. CASE UNCHANGED vars \/ Tick \/ \E r \in Slots : AddUsage(r)
<3>1. pc' = pc /\ batch' = batch /\ before' = before
  BY <2>3 DEF vars, Tick, AddUsage, sync
<3> QED
  BY <2>2, <3>1
<2>4. ASSUME NEW q \in Syncers, SyncerStep(q), ~StopStep(p) PROVE Flushing(p, s)'
<3>1. q # p /\ p \in Syncers
  BY <2>4, TrackerAssumption DEF SyncerStep, Syncers
<3> QED
  BY <1>0, <2>2, <2>4, <3>1, OthersStay
<2> QED
  BY <2>1, <2>3, <2>4, NextIsBy
<1> QED
  BY <1>2, <1>3

(* When a Stop that went ahead returns, all that was recorded before it is   *)
(* in the store, also what a round of the loop had in hand at the time,      *)
(* unless a call has failed (Client.Stop, client.go; any transport).         *)
THEOREM StopIsAFlush ==
  ASSUME BadKeys = {}
  PROVE  Spec => []StopFlushes
<1>1. Init => StopInv
<2> SUFFICES ASSUME Init PROVE StopInv
  OBVIOUS
<2>1. NothingDropped /\ NothingFailed
  BY DEF Init, NothingDropped, NothingFailed
<2>2. \A p \in Stoppers, s \in Slots : Flushing(p, s)
  BY DEF Init, Flushing, None, Syncers, Critical
<2> QED
  BY <2>1, <2>2 DEF StopInv
<1>2. TrackerInv /\ TrackerInv' /\ [Next]_vars /\ StopInv => StopInv'
  BY StopInvStep
<1>3. StopInv => StopFlushes
  BY DEF StopInv, StopFlushes, Flushing
<1> QED
  BY <1>1, <1>2, <1>3, TrackerInvCorrect, PTL DEF Spec

(* Running is 0 until a Run starts it, and 2 only by a Stop that went ahead. *)
RunningTells ==
  /\ running = 0 => \A l \in Loops : pc[l] \in {"idle", "starting"}
  /\ running = 2 => \E p \in Stoppers : pc[p] \notin {"idle", "stopping"}

LEMMA RunningStep == TypeOK /\ RunningTells /\ [Next]_vars => RunningTells'
<1> SUFFICES ASSUME TypeOK, RunningTells, [Next]_vars PROVE RunningTells'
  OBVIOUS
<1>0. /\ pc \in [Syncers -> Labels] /\ Loops \subseteq Syncers /\ Stoppers \subseteq Syncers
      /\ Loops \cap Stoppers = {}
  BY TrackerAssumption DEF TypeOK, Syncers
<1>1. CASE UNCHANGED vars \/ Tick \/ \E s \in Slots : AddUsage(s)
  BY <1>1 DEF vars, run, Tick, AddUsage, RunningTells
<1>2. ASSUME NEW p \in Syncers, pc[p] \notin {"idle", "starting"}, pc[p] \notin {"idle", "stopping"},
             NEW label, Goto(p, label), label \notin {"idle", "stopping"}, UNCHANGED running
      PROVE  RunningTells'
<2>1. running = 0 => \A l \in Loops : pc'[l] \in {"idle", "starting"}
<3> SUFFICES ASSUME running = 0, NEW l \in Loops PROVE pc'[l] \in {"idle", "starting"}
  OBVIOUS
<3>1. pc[l] \in {"idle", "starting"} /\ l # p
  BY <1>2 DEF RunningTells
<3> QED
  BY <1>0, <1>2, <3>1 DEF Goto
<2>2. running = 2 => \E q \in Stoppers : pc'[q] \notin {"idle", "stopping"}
  BY <1>0, <1>2 DEF Goto, RunningTells
<2> QED
  BY <1>2, <2>1, <2>2 DEF RunningTells
<1>3. ASSUME NEW p \in Syncers, SyncUsage(p) PROVE RunningTells'
<2>1. /\ pc[p] \in {"lock", "take", "next", "keys", "keysdone", "projects", "projectsdone"}
      /\ running' = running
      /\ \E label \in Labels \ {"idle", "stopping"} : Goto(p, label)
  BY <1>3 DEF SyncUsage, Lock, GetUpdates, NextTime, Unlock, SyncAccessKeyUsage, SyncProjectUsage,
              AddBackKeys, AddBackProjects, Call, Resolve, run, Labels
<2> QED
  BY <1>2, <2>1
<1>4. ASSUME NEW l \in Loops, RunCheck(l) \/ RunStart(l) \/ RunTick(l) PROVE RunningTells'
<2>1. CASE RunCheck(l)
  BY <1>0, <2>1 DEF RunCheck, Goto, run, RunningTells
<2>2. CASE RunStart(l)
  BY <1>0, <2>2 DEF RunStart, RunningTells
<2>3. CASE RunTick(l)
  BY <1>0, <1>2, <2>3 DEF RunTick
<2> QED
  BY <1>4, <2>1, <2>2, <2>3
<1>5. ASSUME NEW p \in Stoppers, StopCheck(p) \/ StopTicker(p) PROVE RunningTells'
<2>1. CASE StopCheck(p)
<3>1. running' = running /\ \A q \in Syncers : pc[q] # "idle" => pc'[q] = pc[q]
  BY <1>0, <2>1 DEF StopCheck, Goto, run
<3>2. \A l \in Loops : pc'[l] = pc[l]
  BY <1>0, <2>1 DEF StopCheck, Goto
<3> QED
  BY <1>0, <3>1, <3>2 DEF RunningTells
<2>2. CASE StopTicker(p)
  BY <1>0, <2>2 DEF StopTicker, Goto, RunningTells
<2> QED
  BY <1>5, <2>1, <2>2
<1> QED
  BY <1>0, <1>1, <1>3, <1>4, <1>5 DEF Next, RunStep, StopStep

(* "Calling Stop while another sync is running will wait for the sync to     *)
(* finish" (usage.go:40) is true of a process in which Stop is called once:  *)
(* no round is going on when it returns.  A second call may return at once   *)
(* (client.go:361).                                                          *)
THEOREM OneStopWaits ==
  ASSUME \A p, q \in Stoppers : p = q
  PROVE  Spec => StopWaits
<1> DEFINE Waits == \A p \in Stoppers : pc[p] # "done" /\ pc'[p] = "done" =>
                      \A q \in Syncers : pc'[q] \notin Critical
<1>1. Init => RunningTells
  BY DEF Init, RunningTells, Syncers
<1>2. TrackerInv /\ TrackerInv' /\ RunningTells /\ [Next]_vars => [Waits]_vars
<2> SUFFICES ASSUME TrackerInv, TrackerInv', RunningTells, [Next]_vars,
                    NEW p \in Stoppers, pc[p] # "done", pc'[p] = "done", NEW q \in Syncers
             PROVE  pc'[q] \notin Critical
  OBVIOUS
<2>0. /\ pc \in [Syncers -> Labels] /\ p \in Syncers /\ Nobody \notin Syncers
      /\ Loops \cap Stoppers = {} /\ TypeOK
  BY TrackerAssumption DEF TrackerInv, TypeOK, Syncers
<2>1. CASE Unlock(p)
  BY <2>0, <2>1 DEF Unlock, TrackerInv, OneRound
<2>2. CASE StopCheck(p)
<3>1. running # 1 /\ pc[p] = "idle" /\ pc'[q] \in {pc[q], "done"}
  BY <2>0, <2>2 DEF StopCheck, Goto
<3>2. running # 2
  BY <3>1 DEF RunningTells
<3>3. running = 0
  BY <2>0, <3>1, <3>2 DEF TypeOK
<3>4. CASE q \in Loops
  BY <3>1, <3>3, <3>4 DEF RunningTells, Critical
<3>5. CASE q \in Stoppers
  BY <3>1, <3>5 DEF Critical
<3> QED
  BY <3>4, <3>5 DEF Syncers
<2>3. CASE UNCHANGED vars \/ Tick \/ \E s \in Slots : AddUsage(s)
  BY <2>3 DEF vars, Tick, AddUsage
<2>4. ASSUME NEW r \in Syncers, SyncerStep(r), r # p PROVE FALSE
  BY <2>0, <2>4, OthersStay
<2>5. CASE SyncerStep(p)
<3>1. CASE StopTicker(p) \/ Lock(p) \/ GetUpdates(p) \/ NextTime(p) \/ SyncAccessKeyUsage(p)
           \/ SyncProjectUsage(p) \/ AddBackKeys(p) \/ AddBackProjects(p)
  BY <2>0, <3>1 DEF StopTicker, Lock, GetUpdates, NextTime, SyncAccessKeyUsage, SyncProjectUsage,
                    AddBackKeys, AddBackProjects, Goto
<3> QED
  BY <2>0, <2>1, <2>2, <2>5, <3>1 DEF SyncerStep, StopStep, SyncUsage
<2> QED
  BY <2>3, <2>4, <2>5, NextIsBy
<1>3. StopWaits <=> [][Waits]_vars
  BY PTL DEF StopWaits
<1> HIDE DEF Waits
<1> QED
  BY <1>1, <1>2, <1>3, RunningStep, TrackerInvCorrect, PTL DEF Spec, TrackerInv

-----------------------------------------------------------------------------
(* The ledger of SpendQuota. *)

(* What the store has, each unit once. *)
Once == [s \in Slots |-> stored[s] - doubled[s]]

(* What is not recorded now is moved, to one side at a time. *)
LEMMA MovesOneWay ==
  ASSUME TypeOK, [Next]_vars
  PROVE  \/ \E s \in Slots :
              recorded' = [recorded EXCEPT ![s] = @ + 1] /\ UNCHANGED <<stored, doubled, lost>>
         \/ recorded' = recorded /\ (UNCHANGED <<stored, doubled>> \/ lost' = lost)
<1> DEFINE Moved == recorded' = recorded /\ (UNCHANGED <<stored, doubled>> \/ lost' = lost)
<1>1. ASSUME NEW p \in Syncers, SyncerStep(p) PROVE Moved
  BY <1>1 DEF SyncerStep, RunStep, StopStep, RunCheck, RunStart, RunTick, StopCheck, StopTicker,
       SyncUsage, Lock, Unlock, GetUpdates, NextTime, SyncAccessKeyUsage, SyncProjectUsage, Call,
       AddBackKeys, AddBackProjects, Resolve, usage
<1>2. CASE Tick \/ UNCHANGED vars
  BY <1>2 DEF Tick, vars, usage
<1>3. ASSUME NEW s \in Slots, AddUsage(s)
      PROVE  recorded' = [recorded EXCEPT ![s] = @ + 1] /\ UNCHANGED <<stored, doubled, lost>>
  BY <1>3 DEF AddUsage
<1> QED
  BY <1>1, <1>2, <1>3, NextIsBy

(* What is stored once stays stored: only what a call was not told of is     *)
(* added to both.                                                            *)
LEMMA OnceOnlyGrows ==
  ASSUME TypeOK, [Next]_vars, NEW s \in Slots
  PROVE  Once[s] <= Once'[s]
<1>0. /\ stored[s] \in Nat /\ doubled[s] \in Nat /\ stored \in Usage /\ doubled \in Usage
      /\ batch \in [Syncers -> Usage]
  BY UsageAt DEF TypeOK
<1> SUFFICES stored[s] - doubled[s] <= stored'[s] - doubled'[s]
  BY DEF Once
<1>1. CASE UNCHANGED <<stored, doubled>>
  BY <1>0, <1>1
<1>2. ASSUME NEW p \in Syncers, NEW slots, Call(p, slots)
      PROVE  stored[s] - doubled[s] <= stored'[s] - doubled'[s]
<2>1. PICK done \in SUBSET (slots \ BadSlots), told \in SUBSET (slots \ BadSlots) :
        /\ stored' = Plus(stored, Only(batch[p], done))
        /\ doubled' = Plus(doubled, Only(batch[p], done \ told))
  BY <1>2 DEF Call
<2>2. Only(batch[p], done) \in Usage /\ Only(batch[p], done \ told) \in Usage
  BY <1>0, UsageOps
<2>3. /\ stored'[s] = stored[s] + Only(batch[p], done)[s]
      /\ doubled'[s] = doubled[s] + Only(batch[p], done \ told)[s]
  BY <1>0, <2>1, <2>2, PlusAt
<2>4. /\ Only(batch[p], done)[s] = IF s \in done THEN batch[p][s] ELSE 0
      /\ Only(batch[p], done \ told)[s] = IF s \in done \ told THEN batch[p][s] ELSE 0
      /\ batch[p][s] \in Nat
  BY <1>0 DEF Only, Usage
<2> QED
  BY <1>0, <2>3, <2>4
<1>3. ASSUME NEW p \in Syncers, SyncerStep(p)
      PROVE  stored[s] - doubled[s] <= stored'[s] - doubled'[s]
  BY <1>1, <1>2, <1>3
     DEF SyncerStep, RunStep, StopStep, RunCheck, RunStart, RunTick, StopCheck, StopTicker,
       SyncUsage, Lock, Unlock, GetUpdates, NextTime, SyncAccessKeyUsage, SyncProjectUsage,
       AddBackKeys, AddBackProjects, Resolve, usage
<1>4. (\E r \in Slots : AddUsage(r)) \/ Tick \/ UNCHANGED vars => UNCHANGED <<stored, doubled>>
  BY DEF AddUsage, Tick, vars, usage
<1> QED
  BY <1>1, <1>3, <1>4, NextIsBy

LEMMA LostOnlyGrows ==
  ASSUME TypeOK, [Next]_vars, NEW s \in Slots
  PROVE  lost[s] <= lost'[s]
<1>0. lost \in Usage /\ lost[s] \in Nat /\ batch \in [Syncers -> Usage]
  BY UsageAt DEF TypeOK
<1>1. CASE UNCHANGED lost
  BY <1>0, <1>1
<1>2. ASSUME NEW p \in Syncers, NEW slots, Resolve(p, slots)
      PROVE  lost[s] <= lost'[s]
<2> DEFINE gone == Only(batch[p], slots \ failed[p])
<2>1. gone \in Usage /\ lost' = Plus(lost, gone)
  BY <1>0, <1>2, UsageOps DEF Resolve
<2> HIDE DEF gone
<2>2. lost'[s] = lost[s] + gone[s] /\ gone[s] \in Nat
<3>1. Plus(lost, gone)[s] = lost[s] + gone[s]
  BY <1>0, <2>1, PlusAt
<3>2. gone[s] \in Nat
  BY <2>1 DEF Usage
<3> QED
  BY <2>1, <3>1, <3>2
<2> QED
  BY <1>0, <2>2
<1>3. ASSUME NEW p \in Syncers, SyncerStep(p) PROVE lost[s] <= lost'[s]
  BY <1>1, <1>2, <1>3
     DEF SyncerStep, RunStep, StopStep, RunCheck, RunStart, RunTick, StopCheck, StopTicker,
       SyncUsage, Lock, Unlock, GetUpdates, NextTime, SyncAccessKeyUsage, SyncProjectUsage, Call,
       AddBackKeys, AddBackProjects, usage
<1>4. (\E r \in Slots : AddUsage(r)) \/ Tick \/ UNCHANGED vars => UNCHANGED lost
  BY DEF AddUsage, Tick, vars, usage
<1> QED
  BY <1>1, <1>3, <1>4, NextIsBy

(* Every recorded unit is on one side of the ledger. *)
AddsUp ==
  /\ Total(tracked) \in Nat /\ Total(Once) \in Nat /\ Total(lost) \in Nat
  /\ Total(InFlight) \in Nat /\ Total(recorded) \in Nat
  /\ Total(Once) = Total(stored) - Total(doubled)
  /\ Total(recorded) = Total(Once) + (Total(tracked) + Total(InFlight)) + Total(lost)

LEMMA OnceIsUsage ==
  ASSUME TypeOK, DoubledIsStored
  PROVE  Once \in Usage
<1>1. \A s \in Slots : stored[s] \in Nat /\ doubled[s] \in Nat /\ doubled[s] <= stored[s]
  BY DEF TypeOK, DoubledIsStored, Usage
<1> QED
  BY <1>1 DEF Once, Usage

LEMMA TotalOfOnce ==
  ASSUME IsFiniteSet(Slots), TypeOK, Once \in Usage
  PROVE  Total(Once) = Total(stored) - Total(doubled)
<1>1. Once \in [Slots -> Int] /\ doubled \in [Slots -> Int] /\ stored \in [Slots -> Int]
  BY DEF TypeOK, Usage
<1> DEFINE all == [s \in Slots |-> Once[s] + doubled[s]]
<1>2. stored = all
<2>1. \A s \in Slots : stored[s] = all[s]
<3> SUFFICES ASSUME NEW s \in Slots PROVE stored[s] = Once[s] + doubled[s]
  OBVIOUS
<3>1. Once[s] = stored[s] - doubled[s]
  BY DEF Once
<3> QED
  BY <1>1, <3>1
<2>2. stored = [s \in Slots |-> stored[s]]
  BY <1>1
<2> QED
  BY <2>1, <2>2
<1>3. SumFunction(all) = SumFunction(Once) + SumFunction(doubled)
  BY <1>1, SumOfSums
<1>4. SumFunction(Once) \in Int /\ SumFunction(doubled) \in Int
  BY <1>1, SumOfInts
<1> HIDE DEF all
<1> QED
  BY <1>2, <1>3, <1>4 DEF Total

LEMMA TotalsAddUp ==
  ASSUME IsFiniteSet(Slots), TrackerInv
  PROVE  AddsUp
<1>1. /\ tracked \in Usage /\ stored \in Usage /\ lost \in Usage /\ recorded \in Usage
      /\ doubled \in Usage /\ InFlight \in Usage /\ Once \in Usage
  BY UsageOps, OnceIsUsage DEF TrackerInv, TypeOK, InFlight
<1> DEFINE held == [s \in Slots |-> tracked[s] + InFlight[s]]
           kept == [s \in Slots |-> held[s] + Once[s]]
           all == [s \in Slots |-> kept[s] + lost[s]]
<1>2. /\ tracked \in [Slots -> Int] /\ Once \in [Slots -> Int] /\ lost \in [Slots -> Int]
      /\ InFlight \in [Slots -> Int] /\ held \in [Slots -> Int] /\ kept \in [Slots -> Int]
  BY <1>1 DEF Usage
<1>3. recorded = all
<2>1. \A s \in Slots : recorded[s] = all[s]
<3> SUFFICES ASSUME NEW s \in Slots
             PROVE  recorded[s] = ((tracked[s] + InFlight[s]) + Once[s]) + lost[s]
  OBVIOUS
<3>1. /\ recorded[s] + doubled[s] = tracked[s] + stored[s] + lost[s] + InFlight[s]
      /\ Once[s] = stored[s] - doubled[s]
  BY DEF TrackerInv, EveryUnitAccounted, Once
<3>2. {tracked[s], stored[s], lost[s], InFlight[s], doubled[s], recorded[s]} \subseteq Nat
  BY <1>1 DEF Usage
<3> QED
  BY <3>1, <3>2
<2>2. recorded = [s \in Slots |-> recorded[s]]
  BY <1>1 DEF Usage
<2> QED
  BY <2>1, <2>2
<1>4. SumFunction(held) = SumFunction(tracked) + SumFunction(InFlight)
<2> HIDE DEF held
<2> QED
  BY <1>2, SumOfSums DEF held
<1>5. SumFunction(kept) = SumFunction(held) + SumFunction(Once)
<2> HIDE DEF held
<2> QED
  BY <1>2, SumOfSums
<1>6. SumFunction(all) = SumFunction(kept) + SumFunction(lost)
<2> HIDE DEF kept
<2> QED
  BY <1>2, SumOfSums
<1>7. /\ SumFunction(tracked) \in Nat /\ SumFunction(Once) \in Nat /\ SumFunction(lost) \in Nat
      /\ SumFunction(InFlight) \in Nat /\ SumFunction(recorded) \in Nat
  BY <1>1, SumOfNats DEF Usage
<1>8. Total(Once) = Total(stored) - Total(doubled)
  BY <1>1, TotalOfOnce DEF TrackerInv
<1> HIDE DEF held, kept, all
<1> QED
  BY <1>3, <1>4, <1>5, <1>6, <1>7, <1>8 DEF AddsUp, Total

LEMMA LedgerStep ==
  ASSUME IsFiniteSet(Slots), TrackerInv, TrackerInv', AddsUp, AddsUp', [Next]_vars
  PROVE  [Ledger!LedgerNext]_(Ledger!ledger)
<1> DEFINE pending == Total(tracked) + Total(InFlight)
           pending_ == Total(tracked)' + Total(InFlight)'
           settled == Total(stored) - Total(doubled)
           settled_ == Total(stored)' - Total(doubled)'
<1>1. /\ pending \in Nat /\ settled \in Nat /\ Total(lost) \in Nat /\ settled = Total(Once)
      /\ Total(recorded) = settled + pending + Total(lost)
  BY DEF AddsUp
<1>2. /\ pending_ \in Nat /\ settled_ \in Nat /\ Total(lost)' \in Nat /\ settled_ = Total(Once)'
      /\ Total(recorded)' = settled_ + pending_ + Total(lost)'
  BY DEF AddsUp
<1>3. /\ lost \in [Slots -> Int] /\ recorded \in [Slots -> Int] /\ Once \in [Slots -> Int]
      /\ lost' \in [Slots -> Int] /\ recorded' \in [Slots -> Int] /\ Once' \in [Slots -> Int]
  BY DEF TrackerInv, TypeOK, Usage, Once
<1>4. TypeOK
  BY DEF TrackerInv
<1>5. CASE \E s \in Slots :
             recorded' = [recorded EXCEPT ![s] = @ + 1] /\ UNCHANGED <<stored, doubled, lost>>
<2>1. PICK s \in Slots :
        recorded' = [recorded EXCEPT ![s] = @ + 1] /\ UNCHANGED <<stored, doubled, lost>>
  BY <1>5
<2>2. recorded[s] \in Int /\ recorded'[s] = recorded[s] + 1
      /\ \A t \in Slots : t # s => recorded'[t] = recorded[t]
  BY <1>3, <2>1
<2>3. SumFunction(recorded') = SumFunction(recorded) + (recorded'[s] - recorded[s])
  BY <1>3, <2>2, SumChanges
<2>4. Total(recorded)' = Total(recorded) + 1
<3>1. SumFunction(recorded) \in Int
  BY <1>3, SumOfInts
<3> QED
  BY <2>2, <2>3, <3>1 DEF Total
<2>5. settled_ = settled /\ Total(lost)' = Total(lost)
  BY <2>1 DEF Total
<2>6. pending_ - pending >= 0 /\ pending_ = pending + (pending_ - pending)
<3> HIDE DEF pending_, pending, settled, settled_
<3> QED
  BY <1>1, <1>2, <2>4, <2>5
<2> QED
  BY <2>5, <2>6 DEF Ledger!LedgerNext, Ledger!AddUsage
<1>6. CASE recorded' = recorded /\ lost' = lost
<2>1. Total(recorded)' = Total(recorded) /\ Total(lost)' = Total(lost)
  BY <1>6 DEF Total
<2>2. settled <= settled_
<3>1. Total(Once) <= Total(Once)'
  BY <1>3, <1>4, OnceOnlyGrows, SumGrows DEF Total
<3> QED
  BY <1>1, <1>2, <3>1
<2>3. CASE settled_ = settled
<3>1. pending_ = pending
  BY <1>1, <1>2, <2>1, <2>3
<3> QED
  BY <2>1, <2>3, <3>1 DEF Ledger!ledger
<2>4. CASE settled_ # settled
<3>1. /\ settled_ - settled \in 1..pending /\ pending_ = pending - (settled_ - settled)
      /\ settled_ = settled + (settled_ - settled)
<4> HIDE DEF pending_, pending, settled, settled_
<4> QED
  BY <1>1, <1>2, <2>1, <2>2, <2>4
<3>2. Ledger!Settle(settled_ - settled)
  BY <2>1, <3>1 DEF Ledger!Settle
<3> QED
  BY <3>2 DEF Ledger!LedgerNext
<2> QED
  BY <2>3, <2>4
<1>7. CASE recorded' = recorded /\ UNCHANGED <<stored, doubled>>
<2>1. Total(recorded)' = Total(recorded) /\ settled_ = settled
  BY <1>7 DEF Total
<2>2. Total(lost) <= Total(lost)'
  BY <1>3, <1>4, LostOnlyGrows, SumGrows DEF Total
<2>3. CASE Total(lost)' = Total(lost)
<3>1. pending_ = pending
  BY <1>1, <1>2, <2>1, <2>3
<3> QED
  BY <2>1, <2>3, <3>1 DEF Ledger!ledger
<2>4. CASE Total(lost)' # Total(lost)
<3>1. /\ Total(lost)' - Total(lost) \in 1..pending
      /\ pending_ = pending - (Total(lost)' - Total(lost))
      /\ Total(lost)' = Total(lost) + (Total(lost)' - Total(lost))
<4> HIDE DEF pending_, pending, settled, settled_
<4> QED
  BY <1>1, <1>2, <2>1, <2>2, <2>4
<3>2. Ledger!Drop(Total(lost)' - Total(lost))
  BY <2>1, <3>1 DEF Ledger!Drop
<3> QED
  BY <3>2 DEF Ledger!LedgerNext
<2> QED
  BY <2>3, <2>4
<1> QED
  BY <1>4, <1>5, <1>6, <1>7, MovesOneWay

(* The tracker and its rounds keep the ledger that SpendQuota is built on:  *)
(* usage is charged, settled in the store or lost, and never made up, but   *)
(* for what the store inserts and reports as failed, which the ledger does  *)
(* not count (Tracker.SyncUsage, usage.go 42-109).                          *)
THEOREM TrackerKeepsLedger ==
  ASSUME IsFiniteSet(Times), IsFiniteSet(Keys), IsFiniteSet(Projects)
  PROVE  Spec => SyncedAsLedger
<1>1. IsFiniteSet(Slots)
  BY FS_Union, FS_Product DEF Slots, Accounts
<1>2. TrackerInv => AddsUp
  BY <1>1, TotalsAddUp
<1>3. Init => Ledger!LedgerInit
<2> SUFFICES ASSUME Init PROVE Ledger!LedgerInit
  OBVIOUS
<2>1. None \in [Slots -> Int] /\ \A s \in Slots : None[s] = 0
  BY DEF None
<2>2. Total(None) = 0
  BY <1>1, <2>1, SumOfNothing DEF Total
<2>3. tracked = None /\ stored = None /\ lost = None /\ InFlight = None /\ doubled = None
  BY DEF Init, InFlight
<2> QED
  BY <2>2, <2>3 DEF Ledger!LedgerInit
<1>4. TrackerInv /\ TrackerInv' /\ AddsUp /\ AddsUp' /\ [Next]_vars
        => [Ledger!LedgerNext]_(Ledger!ledger)
  BY <1>1, LedgerStep
<1> QED
  BY <1>2, <1>3, <1>4, TrackerInvCorrect, PTL DEF Spec, SyncedAsLedger, Ledger!LedgerSpec
=============================================================================
