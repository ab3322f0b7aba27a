--------------------------- MODULE MCUsageTracker ---------------------------
(* Instances of UsageTracker for TLC. *)
EXTENDS UsageTracker, TLC

CONSTANTS t1, t2, key, badkey, project, loop1, loop2, stop1, stop2

OneTime == {t1}
TwoTimes == {t1, t2}
GoodKey == {key}
BothKeys == {key, badkey}
OneBadKey == {badkey}
OneProject == {project}
OneLoop == {loop1}
TwoLoops == {loop1, loop2}
OneStop == {stop1}
TwoStops == {stop1, stop2}
Symmetry == Permutations(Times) \cup Permutations(Loops) \cup Permutations(Stoppers)
=============================================================================
