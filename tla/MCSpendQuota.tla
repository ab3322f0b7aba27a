--------------------------- MODULE MCSpendQuota ---------------------------
(* Instances of SpendQuota for TLC. *)
EXTENDS SpendQuota, TLC

CONSTANTS c1, c2, c3, s1

TwoClients == {c1, c2}
ThreeClients == {c1, c2, c3}
ClientSymmetry == Permutations(Clients)

(* Four units, with an event at each of them. *)
SmallLimit == {[FreeWarn |-> 1, FreeMax |-> 2, OverWarn |-> 3, OverMax |-> 4]}
(* The limit before and after an upgrade of the plan. *)
TwoLimits == {[FreeWarn |-> 0, FreeMax |-> 1, OverWarn |-> 0, OverMax |-> 2],
              [FreeWarn |-> 1, FreeMax |-> 2, OverWarn |-> 3, OverMax |-> 4]}
(* One unit on the free plan, no overage. *)
TinyLimit == {[FreeWarn |-> 0, FreeMax |-> 1, OverWarn |-> 0, OverMax |-> 1]}
Safe == {}
Failing == {"crash", "rpc", "redis"}
Expiring == {"expire"}
Refilling == {"refill"}
Slow == {"slow"}
Everything == FaultKinds

---------------------------------------------------------------------------
(* What the documentation and the tests say, and the code does not keep.    *)

(* server_test.go:175-176: a denied request reports nothing remaining and    *)
(* the overage, that is a usage at the hard limit or beyond.  SpendQuota     *)
(* drops the usage SpendUsage refused it with (client.go:301-304).           *)
RefusalReportsUsage ==
  [][\A c \in Clients :
       Answered(c, "exceeded") => reply'.total >= req[c].limit.OverMax]_vars
=============================================================================
