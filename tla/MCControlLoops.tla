---------------------------- MODULE MCControlLoops ----------------------------
(***************************************************************************)
(* The control loops for TLC: the ordering of a swarm's tasks, the circuit  *)
(* breakers around its calls, the trusted kernel and the signal pipeline.   *)
(* The four share no state, so a behaviour is one of one of them: `loop`    *)
(* says of which, the others stay as they are.                              *)
(***************************************************************************)
EXTENDS TaskOrder, CircuitBreaker, TrustKernel, SignalPipeline

CONSTANTS mcp, srv, w1, w2, e1, e2, e3, f1, f2

VARIABLE loop

-----------------------------------------------------------------------------
(* An MCP tool with its server; two failures trip a breaker, a server cools *)
(* down longer than a tool.                                                 *)

MCServerOf == [t \in Tools |-> srv]
MCThreshold == [k \in Keys |-> 2]
MCCooldown == [k \in Keys |-> IF k \in Servers THEN 2 ELSE 1]

-----------------------------------------------------------------------------
(* Three calls of the kernel: e1 has two steps, the second with the higher  *)
(* priority, e2 is a routed model call, which costs two units, and e3 has   *)
(* the execution_id of e1.  The memory holds any two of them but no three.  *)

MCExecId == [e \in Execs |-> IF e = e2 THEN "x" ELSE "y"]
MCPlan == [e \in Execs |->
    CASE e = e1 -> << [cost |-> 1, prio |-> 0], [cost |-> 1, prio |-> 1] >>
      [] e = e2 -> << [cost |-> 2, prio |-> 0] >>
      [] e = e3 -> << [cost |-> 1, prio |-> 0] >>]
MCNeed == [e \in Execs |-> [k \in Kinds |-> IF k = "memory" /\ e = e2 THEN 2 ELSE 1]]
MCLimit == [k \in Kinds |-> 3]

-----------------------------------------------------------------------------
(* The composition.                                                         *)

\* The ordering at rest is one that has ended.
OrderDone ==
    /\ dependsOn = [t \in TaskSet |-> {}]
    /\ remaining = <<>> /\ ordered = [i \in TaskSet |-> i] /\ satisfied = TaskSet
    /\ cursor = 1 /\ progressed = FALSE /\ sorting = FALSE

MCInit ==
    /\ loop \in {"order", "breaker", "kernel", "pipe"}
    /\ IF loop = "order" THEN OrderInit ELSE OrderDone
    /\ BreakerInit /\ KernelInit /\ PipeInit

InOrder(A) ==
    loop = "order" /\ A /\ UNCHANGED <<loop, breakerVars, kernelVars, pipeVars>>
InBreaker(A) ==
    loop = "breaker" /\ A /\ UNCHANGED <<loop, orderVars, kernelVars, pipeVars>>
InKernel(A) ==
    loop = "kernel" /\ A /\ UNCHANGED <<loop, orderVars, breakerVars, pipeVars>>
InPipe(A) ==
    loop = "pipe" /\ A /\ UNCHANGED <<loop, orderVars, breakerVars, kernelVars>>

mcVars == <<loop, orderVars, breakerVars, kernelVars, pipeVars>>

\* The ordering has ended, or every call of the kernel has returned: the only
\* states in which nothing else may happen.
Ended ==
    /\ \/ loop = "order" /\ ~sorting
       \/ loop = "kernel" /\ \A e \in Execs : result[e] # "running"
    /\ UNCHANGED mcVars

MCNext ==
    \/ InOrder(OrderNext)
    \/ InBreaker(BreakerNext)
    \/ InKernel(KernelNext)
    \/ InPipe(PipeNext)
    \/ Ended

\* The fairness of each loop's own specification.
MCSpec ==
    /\ MCInit /\ [][MCNext]_mcVars
    /\ WF_mcVars(InOrder(OrderNext))
    /\ WF_mcVars(InBreaker(Tick))
    /\ \A f \in Callers : WF_mcVars(InPipe(PipeStep(f)))

-----------------------------------------------------------------------------
(* Properties of the four loops. *)

\* Their types and bounds: the ordering loses no task, no breaker row is HalfOpen,
\* no account of the kernel goes below zero, and however often batches fail and are
\* processed again no more signals are accepted than rate_limit_event allows.
ControlTypesOK == OrderTypeOK /\ BreakerTypeOK /\ KernelTypeOK /\ PipeTypeOK
=============================================================================
