---------------------------- MODULE SpendLimits ----------------------------
(***************************************************************************)
(* The arithmetic of a service limit: proto/proto.go.  Compute units are    *)
(* numbered from 1; a counter that stands at n has given out the units      *)
(* 1..n, and a spend of v that brings it to total got (total - v + 1)..total*)
(***************************************************************************)
EXTENDS Integers

ServiceLimits == [FreeWarn : Int, FreeMax : Int, OverWarn : Int, OverMax : Int]

(* The rate limit of a ServiceLimit plays no part in spending. *)
ValidLimit(l) ==
  /\ l \in ServiceLimits
  /\ l.FreeMax > 0
  /\ l.FreeWarn # 0 => l.FreeWarn <= l.FreeMax
  /\ l.OverMax >= l.FreeMax
  /\ l.OverWarn # 0 => l.OverWarn <= l.OverMax

EventTypes == {"FreeWarn", "FreeMax", "OverWarn", "OverMax"}
NoEvent == "none"

ThresholdReached(v, total, threshold) ==              \* mutant: before not looked at
  total >= threshold

(* The spend of v that reached total is the one that met the threshold. *)
GetOverThreshold(v, total, threshold) ==
  /\ total >= threshold
  /\ total - v < threshold

(* The event a spend raises: the first match of the branch total falls in. *)
EventOf(l, v, total) ==
  LET met(threshold) == GetOverThreshold(v, total, threshold)
      notify(event) == IF met(l[event]) THEN event ELSE NoEvent
  IN  IF total < l.FreeMax THEN notify("FreeWarn")
      ELSE IF total >= l.OverMax THEN notify("OverMax")
      ELSE IF met(l.FreeMax) THEN "FreeMax"
      ELSE notify("OverWarn")

UsageUncut(l, v, total) == v                          \* mutant: no hard limit

UsageAllOrNothing(l, v, total) ==                     \* mutant: a cut spend is free
  IF total <= l.OverMax THEN v ELSE 0

(* The part of v that is charged: what lies within the hard limit. *)
UsageOf(l, v, total) ==
  IF total < l.FreeMax \/ total < l.OverMax
    THEN v
    ELSE IF GetOverThreshold(v, total, l.OverMax) THEN v - (total - l.OverMax) ELSE 0

GetSpendResult(l, v, total) ==
  [usage |-> UsageOf(l, v, total), event |-> EventOf(l, v, total)]

(* The threshold an event type stands for. *)
Threshold(l, event) == l[event]
=============================================================================
