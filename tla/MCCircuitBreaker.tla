-------------------------- MODULE MCCircuitBreaker --------------------------
(***************************************************************************)
(* CircuitBreaker for TLC: an MCP tool with its server and a built-in tool; *)
(* two failures trip a breaker, a server cools down longer than a tool.  A   *)
(* configuration takes one tool or the other.                               *)
(***************************************************************************)
EXTENDS CircuitBreaker

CONSTANTS mcp, shell, srv, w1, w2

MCServerOf == [t \in Tools |-> IF t = mcp THEN srv ELSE NoServer]
MCThreshold == [k \in Keys |-> 2]
MCCooldown == [k \in Keys |-> IF k \in Servers THEN 2 ELSE 1]
=============================================================================
