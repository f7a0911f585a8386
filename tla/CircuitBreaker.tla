--------------------------- MODULE CircuitBreaker ---------------------------
(***************************************************************************)
(* The circuit breakers of RuntimeKernel: one row per tool and one per MCP  *)
(* server in the state store.  The guard reads the tool's row, then the     *)
(* server's; when a call has ended, record_execution_outcome loads, changes *)
(* and stores the tool's row, then the server's.  No lock spans a load and  *)
(* its store, so the swarms (one call each at a time) overwrite each other. *)
(*                                                                          *)
(* Time is relative: a row keeps what is left of its cooldown, a recording  *)
(* how long ago it took its now_ms.  failure_count is only compared with    *)
(* the threshold and is kept saturated there.  An absent row behaves as     *)
(* default_circuit_state.  The guard's refusals that do not depend on a row *)
(* (manifest, permission mode, PDP) leave everything unchanged.             *)
(***************************************************************************)
EXTENDS Integers, FiniteSets

CONSTANTS
    Workers,    \* swarms running at the same time
    Tools, Servers, NoServer,
    ServerOf,   \* the MCP server of a tool, or NoServer
    Threshold,  \* tool_ and mcp_breaker_failure_threshold, per row
    Cooldown,   \* tool_ and mcp_breaker_cooldown_ms, per row
    MaxCooldown

Keys == Tools \cup Servers

ASSUME BreakerAssumption ==
    /\ IsFiniteSet(Workers) /\ Tools # {}
    /\ NoServer \notin Servers /\ ServerOf \in [Tools -> Servers \cup {NoServer}]
    /\ Threshold \in [Keys -> Nat \ {0}]
    /\ MaxCooldown \in Nat /\ Cooldown \in [Keys -> 0..MaxCooldown]

VARIABLES
    circuit,  \* the stored rows
    stage,    \* where a worker's call is
    tool,     \* which tool it calls
    ok,       \* `succeeded` of the report being recorded
    copy,     \* the row a recording has loaded
    lag,      \* time since a recording took now_ms
    failed    \* history: failed executions of a tool since its last success

workerVars == <<stage, tool, ok, copy, lag>>
breakerVars == <<circuit, workerVars, failed>>

AnyTool == CHOOSE t \in Tools : TRUE

Row(phase, failures, cool) == [phase |-> phase, failures |-> failures, cool |-> cool]

Fresh == Row("Closed", 0, 0)

Lower(x, y) == IF x <= y THEN x ELSE y

\* u64::saturating_sub
SatSub(x, y) == IF x >= y THEN x - y ELSE 0

BreakerInit ==
    /\ circuit = [k \in Keys |-> Fresh]
    /\ stage = [w \in Workers |-> "idle"]
    /\ tool = [w \in Workers |-> AnyTool]
    /\ ok = [w \in Workers |-> FALSE]
    /\ copy = [w \in Workers |-> Fresh]
    /\ lag = [w \in Workers |-> 0]
    /\ failed = [t \in Tools |-> 0]

-----------------------------------------------------------------------------
(* The guard *)

\* circuit_block_reason: open, and the cooldown is not over.
Cooling(k) == circuit[k].phase = "Open" /\ circuit[k].cool > 0

GuardTool(w, t) ==
    /\ stage[w] = "idle"
    /\ ~Cooling(t)
    /\ tool' = [tool EXCEPT ![w] = t]
    /\ stage' = [stage EXCEPT ![w] = IF ServerOf[t] = NoServer THEN "running" ELSE "server"]
    /\ UNCHANGED <<circuit, ok, copy, lag, failed>>

\* Back to the caller; nothing of the call is kept.
Reset(w) ==
    /\ stage' = [stage EXCEPT ![w] = "idle"]
    /\ tool' = [tool EXCEPT ![w] = AnyTool]
    /\ ok' = [ok EXCEPT ![w] = FALSE]
    /\ copy' = [copy EXCEPT ![w] = Fresh]
    /\ lag' = [lag EXCEPT ![w] = 0]

\* Mutated form: the server's circuit does not block.
GuardServerOpen(w) ==
    /\ stage[w] = "server"
    /\ stage' = [stage EXCEPT ![w] = "running"]
    /\ UNCHANGED <<circuit, tool, ok, copy, lag, failed>>

GuardServer(w) ==
    /\ stage[w] = "server"
    /\ \/ Cooling(ServerOf[tool[w]]) /\ Reset(w)
       \/ /\ ~Cooling(ServerOf[tool[w]])
          /\ stage' = [stage EXCEPT ![w] = "running"]
          /\ UNCHANGED <<tool, ok, copy, lag>>
    /\ UNCHANGED <<circuit, failed>>

-----------------------------------------------------------------------------
(* The call ends *)

Streak(t, good) == IF good THEN 0 ELSE Lower(failed[t] + 1, Threshold[t])

\* execute returns Allow with a content that reads as success or as failure;
\* execute_swarm goes on to record_execution_outcome, which takes now_ms.
CallReported(w, good) ==
    /\ stage[w] = "running"
    /\ ok' = [ok EXCEPT ![w] = good]
    /\ lag' = [lag EXCEPT ![w] = 0]
    /\ stage' = [stage EXCEPT ![w] = "loadTool"]
    /\ failed' = [failed EXCEPT ![tool[w]] = Streak(tool[w], good)]
    /\ UNCHANGED <<circuit, tool, copy>>

\* The tool errs.  For an mcp:: capability execute answers RequiresApproval,
\* which record_execution_outcome ignores; for any other it returns the error,
\* and the `?` of execute_swarm leaves before the outcome is recorded.
CallErrs(w) ==
    /\ stage[w] = "running"
    /\ failed' = [failed EXCEPT ![tool[w]] = Streak(tool[w], FALSE)]
    /\ Reset(w)
    /\ UNCHANGED circuit

-----------------------------------------------------------------------------
(* record_execution_outcome *)

\* load_circuit_state: an open row whose cooldown is over is read as HalfOpen.
Loaded(k) ==
    IF circuit[k].phase = "Open" /\ circuit[k].cool = 0
    THEN [circuit[k] EXCEPT !.phase = "HalfOpen"]
    ELSE circuit[k]

\* Mutated forms: a success leaves the failures counted; a failure is not counted.
TransitionKeepsCount(k, row, good, age) ==
    IF good
    THEN [row EXCEPT !.phase = "Closed", !.cool = 0]
    ELSE LET n == Lower(row.failures + 1, Threshold[k]) IN
         IF n >= Threshold[k] \/ row.phase = "HalfOpen"
         THEN Row("Open", n, SatSub(Cooldown[k], age))
         ELSE [row EXCEPT !.failures = n]

TransitionForgets(k, row, good, age) == IF good THEN Fresh ELSE row

\* transition_circuit_state, age after its now_ms.
Transition(k, row, good, age) ==
    IF good
    THEN Fresh
    ELSE LET n == Lower(row.failures + 1, Threshold[k]) IN
         IF n >= Threshold[k] \/ row.phase = "HalfOpen"
         THEN Row("Open", n, SatSub(Cooldown[k], age))
         ELSE [row EXCEPT !.failures = n]

Load(w, k) ==
    /\ copy' = [copy EXCEPT ![w] = Loaded(k)]
    /\ UNCHANGED <<circuit, tool, ok, lag, failed>>

LoadTool(w) ==
    /\ stage[w] = "loadTool"
    /\ stage' = [stage EXCEPT ![w] = "storeTool"]
    /\ Load(w, tool[w])

LoadServer(w) ==
    /\ stage[w] = "loadServer"
    /\ stage' = [stage EXCEPT ![w] = "storeServer"]
    /\ Load(w, ServerOf[tool[w]])

Store(w, k) == circuit' = [circuit EXCEPT ![k] = Transition(k, copy[w], ok[w], lag[w])]

StoreTool(w) ==
    /\ stage[w] = "storeTool"
    /\ Store(w, tool[w])
    /\ IF ServerOf[tool[w]] = NoServer
       THEN Reset(w)
       ELSE /\ stage' = [stage EXCEPT ![w] = "loadServer"]
            /\ UNCHANGED <<tool, ok, copy, lag>>
    /\ UNCHANGED failed

StoreServer(w) ==
    /\ stage[w] = "storeServer"
    /\ Store(w, ServerOf[tool[w]])
    /\ Reset(w)
    /\ UNCHANGED failed

\* The swarm's timeout drops the future, or a store call fails with `?`.
Interrupted(w) ==
    /\ stage[w] # "idle"
    /\ Reset(w)
    /\ UNCHANGED <<circuit, failed>>

Tick ==
    /\ circuit' = [k \in Keys |-> [circuit[k] EXCEPT !.cool = SatSub(@, 1)]]
    /\ lag' = [w \in Workers |->
                 IF stage[w] \in {"idle", "server", "running"} THEN 0
                 ELSE Lower(lag[w] + 1, MaxCooldown)]
    /\ UNCHANGED <<stage, tool, ok, copy, failed>>

WorkerStep(w) ==
    \/ \E t \in Tools : GuardTool(w, t)
    \/ GuardServer(w)
    \/ \E good \in BOOLEAN : CallReported(w, good)
    \/ CallErrs(w)
    \/ LoadTool(w) \/ StoreTool(w) \/ LoadServer(w) \/ StoreServer(w)
    \/ Interrupted(w)

BreakerNext == (\E w \in Workers : WorkerStep(w)) \/ Tick

BreakerSpec == BreakerInit /\ [][BreakerNext]_breakerVars

\* Time passes.  Nothing is assumed of the workers: a call may hang for ever.
BreakerFairSpec == BreakerSpec /\ WF_breakerVars(Tick)

-----------------------------------------------------------------------------
(* Properties *)

\* Every row, copy and worker has its type; HalfOpen is never stored.
BreakerTypeOK ==
    /\ circuit \in [Keys -> [phase : {"Closed", "Open"}, failures : Nat, cool : 0..MaxCooldown]]
    /\ copy \in [Workers -> [phase : {"Closed", "Open", "HalfOpen"}, failures : Nat,
                              cool : 0..MaxCooldown]]
    /\ stage \in [Workers -> {"idle", "server", "running", "loadTool", "storeTool",
                           "loadServer", "storeServer"}]
    /\ tool \in [Workers -> Tools]
    /\ ok \in [Workers -> BOOLEAN]
    /\ lag \in [Workers -> 0..MaxCooldown]
    /\ failed \in [Tools -> Nat]

\* The row a recording in progress will overwrite.
Target(w) == IF stage[w] = "storeTool" THEN tool[w] ELSE ServerOf[tool[w]]

\* A breaker is open exactly when its failures have reached the threshold, in
\* the store and in every copy a recording holds, however the recordings of
\* several swarms overwrite each other: no mixture of a stale load and a later
\* store makes a row that blocks without failures, or counts to the threshold
\* without blocking.
TrippedAtThreshold ==
    /\ \A k \in Keys : circuit[k].phase = "Open" <=> circuit[k].failures >= Threshold[k]
    /\ \A w \in Workers : stage[w] \in {"storeTool", "storeServer"} =>
          (copy[w].phase # "Closed" <=> copy[w].failures >= Threshold[Target(w)])

\* A cooldown ends: failures that are recorded late, by calls the guard admitted
\* before the breaker tripped, start it again, but not for ever, since the guard
\* admits no others meanwhile.
CoolingEnds == \A k \in Keys : Cooling(k) ~> ~Cooling(k)

\* The tool's row is stored with a failure, or with a success.
StoredFailure(t) == \E w \in Workers : tool[w] = t /\ ~ok[w] /\ StoreTool(w)
StoredSuccess(t) == \E w \in Workers : tool[w] = t /\ ok[w] /\ StoreTool(w)

\* Lost updates delay a trip but cannot prevent it: a tool whose failures keep
\* being recorded, and whose successes have ended, has an open breaker again and
\* again.
FailuresTrip ==
    \A t \in Tools :
        /\ []<><<StoredFailure(t)>>_breakerVars
        /\ <>[][~StoredSuccess(t)]_breakerVars
        => []<>(circuit[t].phase = "Open")

\* runtime/mod.rs, test circuit_state_opens_after_threshold_failures: a tool that
\* failed `threshold` times in a row is blocked by an open circuit.  Read when
\* nothing is being recorded.
RepeatedFailuresOpen ==
    (\A w \in Workers : stage[w] = "idle") =>
        \A t \in Tools : failed[t] >= Threshold[t] => circuit[t].phase = "Open"
=============================================================================
