-------------------------- MODULE MCRuntimeBudget --------------------------
(***************************************************************************)
(* RuntimeBudget for TLC: one provider call and two tool calls of one       *)
(* session.  The estimates and costs are small numbers with the orderings   *)
(* that matter: two reservations fit the account, three do not; a cost is   *)
(* below, or above, the reservation; a window holds less than the account.  *)
(***************************************************************************)
EXTENDS RuntimeBudget

CONSTANTS p1, t1, t2, a1, s1

MCAccountOf == [c \in Calls |-> a1]
MCSessionOf == [c \in Calls |-> s1]
MCKindOf == [c \in Calls |-> IF c = p1 THEN "provider" ELSE "tool"]
MCEstimate == [c \in Calls |-> IF c = p1 THEN 2 ELSE 3]
=============================================================================
