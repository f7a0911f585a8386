-------------------------- MODULE MCTriggerRuntime --------------------------
(***************************************************************************)
(* TriggerRuntime for TLC: a cron trigger next to a webhook event and, where *)
(* the instance has it, a topic that no pass executes.                       *)
(***************************************************************************)
EXTENDS TriggerRuntime, TLC

CONSTANTS cron, hook, manual, w1, w2, e1, e2, e3

MCKind ==
    [c \in Chains |-> IF c = cron THEN "recurring" ELSE IF c = hook THEN "single" ELSE "inert"]

MCSymmetry == Permutations(Slots) \cup Permutations(Workers)
=============================================================================
