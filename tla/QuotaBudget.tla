---------------------------- MODULE QuotaBudget ----------------------------
(***************************************************************************)
(* What a quota promises: the units of a cycle are sold once each, none     *)
(* beyond a hard limit in force, and what is billed is what was sold.       *)
(***************************************************************************)
EXTENDS UsageLedger, FiniteSets

CONSTANT Limits         \* the service limits in force at some time

VARIABLE sold           \* the units sold so far

(* A sale hands out units nobody has, up to some hard limit, and bills them. *)
Sell(units) ==
  /\ units # {}
  /\ units \cap sold = {}
  /\ \E l \in Limits : units \subseteq (InitialUsage + 1)..l.OverMax
  /\ sold' = sold \cup units
  /\ AddUsage(Cardinality(units))

BudgetInit == LedgerInit /\ sold = {}

BudgetNext ==
  \/ Sell(sold' \ sold)
  \/ UNCHANGED sold /\ (Settle(stored' - stored) \/ Drop(lost' - lost))

BudgetSpec == BudgetInit /\ [][BudgetNext]_<<ledger, sold>>
=============================================================================
