------------------------- MODULE MCRequestPipeline -------------------------
(* Instances of RequestPipeline for TLC. *)
EXTENDS RequestPipeline, TLC

CONSTANTS p1, p2, p3, k1, k2, k3, bad, u1, r1, r2

RequestSymmetry == Permutations(Requests)
KeyProjects == (k1 :> p1) @@ (k2 :> p2) @@ (k3 :> p3) @@ (bad :> p1)
OneUser == {<<p1, u1>>}
Restricted == (p1 :> {1}) @@ (p2 :> {}) @@ (p3 :> {})
(* Three units a project, of which one is used; p3 lacks the service. *)
ThreeUnits == [FreeWarn |-> 0, FreeMax |-> 2, OverWarn |-> 0, OverMax |-> 3]
SmallLimits == (p1 :> ThreeUnits) @@ (p2 :> ThreeUnits) @@ (p3 :> None)
Rates == (p1 :> 3) @@ (p2 :> 3) @@ (p3 :> 3) @@ (u1 :> 1) @@ ("public" :> 1) @@ ("service" :> 0)

Request(session, project, user, key, price) ==
  [session |-> session, project |-> project, user |-> user, key |-> key,
   chains |-> {1}, cost |-> price]
ByKey(k, price) == Request("key", None, None, k, price)
OnChain2(kind) == [kind EXCEPT !.chains = {2}]

(* The chain of the service's tests with every middleware that counts;      *)
(* users of projects; sessions without a project; a client turned off.      *)
SomeDeployments ==
  {[chain |-> <<"verify", "cost", "rate", "ensure", "spend">>, enabled |-> TRUE,
    least |-> 1, baseCost |-> 0,
    gets |-> {ByKey(k1, 1), ByKey(k1, 2), ByKey(bad, 1), ByKey(k1, 0), OnChain2(ByKey(k1, 1)),
              Request("project", p1, None, k1, None), Request("project", p1, None, k2, 2)}],
   [chain |-> <<"verify", "permission", "spend">>, enabled |-> TRUE,
    least |-> 2, baseCost |-> 1,
    gets |-> {Request("project", p1, u1, None, 1), ByKey(k1, 1)}],
   [chain |-> <<"verify", "rate", "spend">>, enabled |-> TRUE,
    least |-> 1, baseCost |-> 1,
    gets |-> {Request("public", None, None, None, None), Request("account", None, u1, None, None),
              Request("service", None, None, k1, None), ByKey(None, 1), ByKey(k3, 1),
              Request("project", None, None, k1, 1), Request("project", p1, None, None, 1), OnChain2(Request("project", p1, u1, None, 1))}],
   [chain |-> <<"verify", "permission", "ensure", "spend">>, enabled |-> FALSE,
    least |-> 2, baseCost |-> 1,
    gets |-> {Request("project", p1, u1, None, 1), ByKey(k1, 1)}]}
=============================================================================
