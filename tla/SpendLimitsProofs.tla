------------------------- MODULE SpendLimitsProofs -------------------------
(* What GetSpendResult charges and raises, for every valid limit and spend. *)
EXTENDS SpendLimits, TLAPS

Capped(n, cap) == IF n < cap THEN n ELSE cap

(* The reference for proto.go GetSpendResult: a spend is charged for the      *)
(* units it moved the counter by, counting up to the hard limit only.         *)
THEOREM SpendResultIsCapped ==
  ASSUME NEW l, ValidLimit(l), NEW v \in Nat \ {0}, NEW total \in Int
  PROVE  GetSpendResult(l, v, total).usage
           = Capped(total, l.OverMax) - Capped(total - v, l.OverMax)
<1>1. l.FreeMax \in Int /\ l.OverMax \in Int /\ l.OverMax >= l.FreeMax
  BY DEF ValidLimit, ServiceLimits
<1>2. UsageOf(l, v, total) = Capped(total, l.OverMax) - Capped(total - v, l.OverMax)
  BY <1>1 DEF UsageOf, GetOverThreshold, Capped
<1>3. QED
  BY <1>2 DEF GetSpendResult

(* A charge is never negative, never above the cost, and ends within the      *)
(* hard limit; only an uncharged spend may lie beyond it.                     *)
LEMMA UsageOfBounds ==
  ASSUME NEW l, ValidLimit(l), NEW v \in Nat \ {0}, NEW total \in Int
  PROVE  /\ UsageOf(l, v, total) \in 0..v
         /\ UsageOf(l, v, total) > 0 => total - v + UsageOf(l, v, total) <= l.OverMax
<1>1. l.FreeMax \in Int /\ l.OverMax \in Int /\ l.OverMax >= l.FreeMax
  BY DEF ValidLimit, ServiceLimits
<1>2. QED
  BY <1>1 DEF UsageOf, GetOverThreshold

(* An event is raised by the spend that moved the counter over its threshold, *)
(* so spends with disjoint units never raise the same one.                    *)
LEMMA EventMeetsThreshold ==
  ASSUME NEW l, ValidLimit(l), NEW v \in Nat \ {0}, NEW total \in Int,
         EventOf(l, v, total) # NoEvent
  PROVE  /\ EventOf(l, v, total) \in EventTypes
         /\ Threshold(l, EventOf(l, v, total)) \in (total - v + 1)..total
<1>1. /\ l.FreeMax \in Int /\ l.OverMax \in Int
      /\ l.FreeWarn \in Int /\ l.OverWarn \in Int
  BY DEF ValidLimit, ServiceLimits
<1>2. CASE total < l.FreeMax
  BY <1>1, <1>2 DEF EventOf, GetOverThreshold, EventTypes, NoEvent, Threshold
<1>3. CASE ~(total < l.FreeMax) /\ total < l.OverMax
  BY <1>1, <1>3 DEF EventOf, GetOverThreshold, EventTypes, NoEvent, Threshold
<1>4. CASE ~(total < l.FreeMax) /\ ~(total < l.OverMax)
  BY <1>1, <1>4 DEF EventOf, GetOverThreshold, EventTypes, NoEvent, Threshold
<1>5. QED
  BY <1>2, <1>3, <1>4
=============================================================================
