--------------------------- MODULE MCAccessQuota ---------------------------
(* Instances of AccessQuota for TLC. *)
EXTENDS AccessQuota, TLC

CONSTANTS k1, k2, k3, p1, p2, f1, f2, c1, c2

OneProjectsKeys == [k \in Keys |-> p1]
NewRecord(default) == [active |-> TRUE, default |-> default, settings |-> "set"]
(* Two keys, one of them the default, and a name for a third. *)
TwoKeys == {(k1 :> NewRecord(TRUE)) @@ (k2 :> NewRecord(FALSE)) @@ (k3 :> Missing)}

TwoClients == (f1 :> c1) @@ (f2 :> c2)

OldPlan == {[p \in Projects |-> "old"]}

Both(names) == [f \in Fetchers |-> names]
OnlyOf(g, names) == [f \in Fetchers |-> IF f = g THEN names ELSE {}]

(* The operations alone; a key's quota while one of them runs; a project's  *)
(* while its plan changes; and those of two projects behind an LRU.         *)
FourScenarios ==
  {[asks |-> Both({}), calls |-> 3, plans |-> {}],
   [asks |-> Both({k1}), calls |-> 1, plans |-> {}],
   [asks |-> OnlyOf(f1, {p1}), calls |-> 0, plans |-> {"new"}],
   [asks |-> OnlyOf(f1, {p1, p2}), calls |-> 0, plans |-> {}]}
OperationsAlone == {[asks |-> Both({}), calls |-> 2, plans |-> {}]}
Asked == {s.asks : s \in FourScenarios}
=============================================================================
