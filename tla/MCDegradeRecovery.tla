--------------------------- MODULE MCDegradeRecovery ---------------------------
(* Instances of DegradeRecovery for TLC. *)
EXTENDS DegradeRecovery

CONSTANTS a1, a2

\* A read-only profile outlives the others, as in degrade_profile_from_kind.
MCLife == [k \in Expiring |-> IF k = "ReadOnly" THEN 2 ELSE 1]
=============================================================================
