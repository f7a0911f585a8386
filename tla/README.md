# AutoLoop: a TLA+ verification project

AutoLoop is an agent runtime written in Rust. A requirement enters an
orchestration kernel, which plans a swarm of tasks and runs them one by one
through a runtime kernel. The runtime decides whether a provider or tool call
may run, charges it to a budget, runs it, and records what happened in a state
store. Around this core there are long-lived services: triggers that fire by
time or webhook, background tasks, a session store, plugins, memory, transport.

This directory holds TLA+ modules of the core, TLC configurations that check
them on small instances, and TLAPS proofs about them for all instances.
`PROJECT.json` maps every definition to the lines it models. Paths below are
relative to `src/src/` unless they start with `docs/` or `tests/`.

## 1. Inventory

### The parts modelled

| part | source | state | operations |
|---|---|---|---|
| workflow machine | `session/{state,signal,transition,machine,audit}.rs` | the workflow state; stored audit records | `apply`, `apply_single`, `record_transition` |
| requirement swarm driver | `orchestration/mod.rs` | position in `run_requirement_swarm`, reports, verdict | one workflow signal per stage, every result discarded |
| runtime kernel: execution and budget | `runtime/mod.rs` | account, quota-window and ledger rows; the parallel tool window of a session | `execute`, `precharge_budget`, `settle_budget`, `rollback_budget`, `reconcile_budget_account` |
| runtime kernel: circuit breakers | `runtime/mod.rs`, `orchestration/mod.rs` | a row per tool and per MCP server | `guard_tool_execution`, `record_execution_outcome` |
| runtime kernel: degrade and recovery | `runtime/mod.rs`, `command_dispatch.rs` | the active profile; failover rows | `apply_degrade_profile`, `recover_from_degrade`, the gate of `execute` |
| trigger runtime | `runtime/trigger_runtime.rs`, `main.rs` | schedule events of a session | register, `run_worker_once`, `trigger cancel` |
| background tasks | `services/background_tasks.rs` | table of handles, records, workers | `start_*_task`, `stop_task`, `restart_task` |
| task ordering | `orchestration/mod.rs` | what remains, what is ordered, what is satisfied | `topological_tasks` |
| session store | `session/{store,checkpoint,runtime,context_cache}.rs` | history, context items and cache in memory; conversation, checkpoint and evidence files | `append_message`, `history`, `load_from_checkpoint`, `bind_continuation`, `named_snapshot`, `context_cache_bundle` |
| signal pipeline | `observability/signal_{pipeline,facade}.rs` | the queue, the rate-limit bucket, stored records | `enqueue`, `flush_if_needed`, `shutdown_flush`, `execute` |
| evidence ledger | `runtime/evidence_ledger.rs` | hash-chained rows, a process-wide counter | `append_stage`, `verify_stage_chain` |
| remote sessions and bridge | `transport/{remote_session,bridge}.rs` | current token, used token ids, the bridge's entry, its status row | `issue_token`, `remote_start`, `remote_stop`, `ingest_envelope` |
| plugin lifecycle | `plugins/{lifecycle,host}.rs` | the plugin's record, what the host runs, a row and an index in the store | `install`, `enable`, `disable`, `update`, `rollback`, `rollout`, `host_load_subprocess` |
| flow state engine | `runtime/flow_state_engine.rs` | one row with all nodes of a session, views per node | `apply_runtime_update`, `set_budget_state` |
| patch review queue | `gitmemory_core/patch_review_queue.rs` | a row per millisecond and a row "latest" | `enqueue_*`, `list`, `approve`, `reject` |
| supermemory queue | `memory/supermemory.rs` | job rows, "latest", payload rows | `queue_ingestion`, `run_pipeline`, `run_queue_worker_once` |
| trusted kernel | `NoumenonCore/src/{kernel,state,resource,ledger,execution,syscall,replay}.rs` | resource pool, budget account, evidence records, a state machine per call | `execute`, `replay_check` |
| state store adapters | `autoloop-{state,postgres}-adapter/` | a row in memory, in `kv_records` and in its table; the rollback window and its audit events | `upsert_knowledge`, `get_knowledge`, the typed upserts, `append_spend_ledger`; not its grants, schedule events, relation bundles and comparison reports |

### The parts not modelled

| part | state | why |
|---|---|---|
| query engine (`query_engine/`) | attempts, git checkpoints | one loop over data, with git as its store; patching and compiling are functions of data |
| security and policy (`security/`, `contracts/`) | policy bundles | admission is a function of data, and what it answers is an input of the modules it gates |
| trust bridge, attestation (`runtime/`) | none | signatures and reports from outside; accepted or not is an input of `TrustKernel` |
| fabric, mode dispatcher (`runtime/`) | none that outlives a call | dispatch is a function of data |
| mediator, MCP manager (`services/`) | connections, resources | bookkeeping under one lock each |
| retrieval, learning, indexing (`memory/`, `gitmemory_core/`) | indexes | functions of data |
| plugin discovery, compatibility; frontend bridge, external adapters | none; child processes | yes-or-no inputs of `PluginLifecycle`; I/O |
| query plane, dashboard, providers, research, rag, tools, agent, evolution, org kernel, CLI, TUI | read models, heuristics, user interface | data, network and terminal I/O; what they answer is an input of the modules |
| event bus and hooks (`bus/`, `hooks/`) | none that outlives a call | what a hook may decide is an input of `RuntimeBudget` |

Most of the repository's lines are in these parts: prompts, JSON, formatting,
read models and command handlers. They keep no state of which a model could say
more than the code does.

### How the parts interact

`run_requirement_swarm` calls `execute_swarm`, which takes the tasks in
topological order and for each one calls the guard of the circuit breaker and
`execute`, and then `record_execution_outcome`. It folds the reports into the
workflow machine. `execute` passes the gate of the active degrade profile,
precharges the budget, runs the provider or the tool, and settles; a failing
provider or MCP call degrades the session on its way out. Two timeouts, of the
swarm and of the requirement, drop the whole future at whatever await it has
reached. Everything shared is in the state store, by get and upsert of single
rows: only `budget_lock` makes anything atomic over two store calls, inside one
process.

The fabric updates the flow map and appends evidence around each call; signals go
to the pipeline, whose sink appends evidence too. The session store, the plugins,
remote sessions, the review queue and the supermemory queue are reached through
the CLI and the services, each with its own rows or files, and none reads
another's. The trusted kernel is a crate of its own that the trust bridge calls.

### What is hard

* **Read-modify-write without a lock.** Breakers, degrades, recoveries, triggers,
  evidence records, the flow map and checkpoints are loaded, changed and stored
  with awaits between. Their writers overlap.
* **Copies written late.** A plugin's row and index, a bridge's status, a
  checkpoint and the row "latest" are copied under a lock and written without it.
* **Operations of several writes.** A store error or a dropped future between
  two of them leaves the rows apart: account and ledger, profile and failover,
  a completed event and its successor, a transition and its audit record, a
  checkpoint and its evidence, a job and its payload.
* **Restarts.** Used token ids, plugin records and histories live in memory; what
  is read back after a restart is not always what was written.
* **Results that nobody looks at.** The driver writes `let _ = workflow.apply(..)`.
* **Early returns.** `execute` has about two dozen; what each gives back differs.
* **Time.** Quota windows pass between a charge and its settlement; a cooldown
  is computed from a `now_ms` taken before an await; a join times out while its
  worker runs on; rows and token ids are keyed by milliseconds.
* **Check, then act.** `ensure_not_running` releases its lock before the task
  is inserted; a trigger worker executes a listing that is already old.

`PROJECT.json` lists these as hazards, each at its line.

## 2. The modules

`X` is the component, `MCX` its instance for TLC; section 4 says which `...Proofs`
module has its theorems.

| module | extends | models |
|---|---|---|
| `WorkflowMachine` | | the transition table and `apply` |
| `SwarmWorkflow` | `WorkflowMachine` | the driver composed with its machine |
| `RuntimeBudget` | | `execute`, its budget and its parallel window; refines `BudgetAccount` |
| `BudgetAccount` | | what the budget promises its callers |
| `CircuitBreaker` | | guard and recording of outcomes |
| `DegradeRecovery` | | profiles, failovers, recovery |
| `TriggerRuntime` | | the trigger worker processes of one session |
| `BackgroundTasks` | | one task name and its clients |
| `TaskOrder` | | `topological_tasks`, a step of its loops at a time |
| `SessionStore` | | one session in memory and in its files |
| `SignalPipeline` | | the signal queue and its retrying sink |
| `EvidenceChain` | | the evidence ledger of one trace; refines `WormLog` |
| `WormLog` | | what a write-once ledger promises |
| `RemoteSession` | | tokens, bridge and status of one session |
| `PluginLifecycle` | | one plugin, its operators and its host |
| `FlowState` | | the flow map of one session |
| `PatchReview` | | the review queue of one session |
| `SupermemoryQueue` | | the ingestion jobs of one session |
| `StateMirror` | | one row of the store behind its Postgres mirror |
| `TrustKernel` | | concurrent calls of the trusted kernel |
| `MCControlLoops` | `TaskOrder`, `CircuitBreaker`, `TrustKernel`, `SignalPipeline` | the loops around a call, for one run |
| `MCStoredState` | `SwarmWorkflow`, `SessionStore`, `PluginLifecycle`, `RemoteSession`, `SupermemoryQueue`, `PatchReview`, `FlowState`, `EvidenceChain`, `StateMirror` | everything that keeps stored state, for one run |

The components of `MCControlLoops` share no state, and neither do those of
`MCStoredState`. A behaviour of either is a behaviour of one of its components,
chosen at the start by `loop` or `store`, while the others stand still. This loses
nothing, since no step of one can enable or disable a step of another, and it
keeps the state space the sum of theirs.

**WorkflowMachine, SwarmWorkflow.** `Table` is `next_state`. `Apply` is `apply`,
with the two hops of a verification signal; `ApplySingle` moves the machine and
then stores the audit record, which may fail and leaves the machine moved
(`unaudited` counts those). An action of `SwarmWorkflow` is one signal of the
driver. `Abort` is any `?` or timeout.

**RuntimeBudget.** `pc` is where a call is in `execute`. Each store write of
the three budget operations is a step, all under `lock`. `OperationStops` is a
store error inside an operation, `Cancel` a dropped future; both release the
lock and the window guard as Rust's `Drop` does. `account`, `quota` and
`ledger` are the rows; the ledger is kept as the sums that
`reconcile_budget_account` folds it to. `held`, `torn` and `overrun` are
history: the reservations in the account, the accounts with an operation cut
short, and the cost above reservations.

**BudgetAccount.** The same budget as one atomic object: `Reserve` with its check,
then one `Charge` or one `GiveBack`. It has no lock, no rows and no half-done
operations; `RuntimeBudget` maps `fresh` to the calls before their precharge, `open`
to `held` and `spent` to the accounts' column.

**CircuitBreaker.** A worker is a swarm with one call. The guard reads the
tool's row and then the server's; a recording loads and stores each row in
separate steps. Time is relative: a row keeps the rest of its cooldown, a
recording the time since its `now_ms`. `CallErrs` is the path on which no
outcome is recorded.

**DegradeRecovery.** An actor is a call, a swarm or an operator's command; a
step is a store call. `Admit` is the gate of `execute`. `Stops` ends a sequence
of writes half way. `disturbed` (history) says that two sequences have
overlapped or one has stopped; `takeover` (history) that an operator's manual
takeover has not been ended by an operator.

**TriggerRuntime.** Every process that runs passes is a worker: it lists,
executes one event after the other from its own listing, and writes each status.
Event ids are slots that are reused when nothing refers to them, so behaviours
are unbounded in length. An interruption may come between any two store calls.
`broken` (history) collects the recurring triggers ended by a failure, a cancel
or such an interruption; `ran` (history) counts uninterrupted executions.

**BackgroundTasks.** A step ends at every lock and await that another step can
change. Worker slots are reused as event ids are. `raced` (history) says that
two starts were between check and insertion at once.

**TaskOrder.** `Take`, `SkipTask` and `EndSweep` are the branches of the two loops,
over every dependency relation, with cycles and names of tasks that do not exist.
`Runnable` is the reference: the least set closed under "all dependencies are in
it".

**SessionStore.** A history is the set of its messages, which are numbered in the
order of pushing; a digest is the history it digests. A step is one lock or one
file; `NamedSnapshot`, `SnapshotHistory` and `SnapshotItems` are the three reads of a
named snapshot. A failed write or a restart may leave a file cut off. `alone`, `settled`,
`safe` and `token` are history: which operations have had no company, and what
such an append or bind has left in the files.

**SignalPipeline.** A caller copies a batch, and then processes and sinks one
signal after the other; `attempt` counts as the code's saturating `u8` does.
`raced` (history) says that flushes overlapped or a signal came during a shutdown.

**EvidenceChain, WormLog.** A record's hash is what it digests. `SeqRank` is the
order of the sequence numbers as the store sorts them, as strings. `BeginAppend`
takes the time stamp, `ReadLatest` the previous hash, `PutRecord` the number and
the write. `WormLog` adds records that hang on the root or on a record that is
there, and removes none.

**RemoteSession.** A token has the millisecond of its issue as its id. `Present`
and `ConsumeJti` are the two halves of `validate_token`, `ReadStatus` and
`WriteStatus` those of `persist_status`. A restart forgets everything but the row;
`starts` and `replaced` (history) are of the present life of the process. When the
bridge expires is stored by the code and read by nobody, so it is not modelled: a
bridge runs, here as there, until somebody stops it.

**PluginLifecycle.** An operation reads the record, is admitted, changes the record
under its lock, writes the row from a copy, copies the index and writes it.
`admitted`, `enabledOnce`, `overtaken` and `clean` are history.

**FlowState, PatchReview, SupermemoryQueue.** Each reads rows, works on copies and
writes several rows one after the other; each write is a step and may fail.
`Target` is read from the first of the two reads of the map. `NewestRow` is what
`list` shows of a review; `BeginDecide` lists and `StampDecision` reads the clock.
`crossed` (history) has the reviews on which a decision read the clock while a call
with an earlier time had not written its row, `clashed` those whose row a call on
another review overwrote. `QueuedJobs` is what the worker's listing shows, the row
"latest" included.

A job of the supermemory queue is identified by its millisecond, as in the code
(`memory/supermemory.rs:396`): `QueueIngestion` takes the present millisecond or the
next, so calls may share an id, and with it the row, the payload and the document.
What the model follows is the id; which of the calls' data is left is not part of
it. `namesakes`, `passes`, `withContent`, `doubled` and `failed` are history: the
calls that got an id, its passes through the pipeline, the ids that came with their
content, how often one was picked while an agent had it in hand, and where calls and
runs gave up. `IngestedOnce` excuses no case: it bounds the passes of an id by the
calls that got it and the picks out of another agent's hands. That the content and not
the source is ingested is said of the job of one call that was never so picked.

**StateMirror.** One row, of any kind the adapter tells apart, written by concurrent
callers; a value is the number of the call. Each access to memory or to Postgres is
a step, and a Postgres write that fails may have been committed. `Read(up)` is what a
read answers when Postgres does, and does not, answer. `acked`, `fell`, `overlapped`,
`blind` and `late` are history. The other modules take the store for a map of rows
that is read as it was written: that is `AckedIsRead`, and its conditions are theirs.

**TrustKernel.** A step is a critical section of one of the kernel's locks, or code
that shares nothing. `Order` is the order in which the scheduler drains a plan,
`Walk` and `ById` the two ways in which a replay orders evidence. `charged`
(history) collects the calls that consumed their cost.

## 3. The runs

The numbers are of distinct states. With two TLC workers `stored_state` and
`control_loops` take two to three and a half minutes, the others about one or less.

| run | instance | states | what it shows |
|---|---|---|---|
| `swarm_workflow_blocked` | up to 2 reports | violation | a blocked report after a failed one does not block the run |
| `runtime_budget` | 3 calls, 1 account, 1 session, 2 windows, faults | 106,164 | `AccountHeld` (`ReservedIsHeld`, `BudgetRespected`), `QuotaHeld` (`QuotaRespected`, `QuotaCoversRunning`), `LedgerReconciles`, `ParallelWithinLimit`, `EveryCallEnds`, `KeepsBudgetPromise`: the refinement of `BudgetAccount` |
| `runtime_budget_reconcile` | 2 calls, no faults | violation | an overrun leaves the ledger inconsistent for ever |
| `runtime_budget_reserve` | 2 calls, no faults | violation | an early return keeps its reservation for ever |
| `circuit_breaker_errors` | 1 swarm, a built-in tool | violation | a tool that errs at every call never trips its breaker |
| `trigger_runtime` | 2 processes, a recurring and a single trigger, 3 ids | 638,485 | `RerunOnlyAfterInterrupt`, `ChainGoesOn` |
| `trigger_single_worker` | 1 process, a recurring and an inert trigger, 3 ids | 62,078 | `OneEventPerChain`, `RecurringKeepsFiring` |
| `background_tasks` | 2 clients, 2 worker slots, 1 restart | 370,650 | `RecordHeld` (`StoppingHasStopper`, `RecordTellsTheTruth`), `NoOrphan`, `StopReturns` |
| `degrade_recovery` | 2 actors, 2 start times | 705,323 | `RecoversWhatItClears`, `ServiceReturns` |
| `degrade_takeover` | 2 actors, 3 start times | violation | a failing provider call ends a manual takeover |
| `control_loops` | see below | 131,000 | one row per component in the next table |
| `stored_state` | see below | 1,709,000 | one row per component in the next table |

| component | run | instance | properties |
|---|---|---|---|
| task ordering | `control_loops` | 3 tasks, all 4,096 graphs | `ReturnsInOrder`: every task once, the runnable ones first, each after what it depends on, the rest in the given order; `OrderingEnds` |
| circuit breakers | `control_loops` | 2 swarms, an MCP tool and its server | `TrippedAtThreshold` under lost updates; `CoolingEnds`; `FailuresTrip` |
| trusted kernel | `control_loops` | 3 calls, one routed, two with one `execution_id` | `KernelAccountsHeld`: `PoolIsHeld` at every exit, `UnitsAreThere` until a call costs more than it reserved; `RecordReplays` whatever is interleaved |
| signal pipeline | `control_loops` | 2 callers, 2 signals, 1 retry | `NoSignalLost` unless flushes race; `CallsReturn` over a sink that always fails; in `ControlTypesOK`, no more signals accepted than the rate limit although batches are processed again |
| swarm workflow | `stored_state` | up to 3 reports | `DriverInStep`: at every point of the driver the machine is in the state that point assumes; `AuditTrailReplays`: the stored trail replays but for the lost records |
| session store | `stored_state` | 2 clients, 2 messages, 1 bind, 1 fault | `AloneAppendRepairs`; `SettledStateStays` (messages and continuation) |
| plugin lifecycle | `stored_state` | 2 operators, 2 manifests, 3 operations, 1 restart | `OnlyAdmitted` is enabled and run by the host |
| remote sessions | `stored_state` | 2 clients, 2 tokens, 3 instants, 1 restart | `OneStartPerToken`: one start per token, and none with a token that was replaced before it was presented |
| supermemory queue | `stored_state` | 2 agents, 2 calls in one or two milliseconds, 2 worker runs | `JobsAreKept`: `NoJobStranded`, no id is left behind but where a failure left it; `IngestedOnce`, an id is ingested once per call that got it and once more at most per pick out of another agent's hands; both however calls share ids and agents overlap on them, whatever failed |
| patch review queue | `stored_state` | 2 callers, 2 reviews, 2 decisions, 2 milliseconds | `DecisionStands`, and what needs a review is approved by a person only |
| flow state engine | `stored_state` | 2 updaters, 2 nodes, 3 updates | `LoneUpdateIsLocal` |
| evidence ledger | `stored_state` | 2 writers, 4 appends, 3 milliseconds, numbers from 8 | `ChainVerifies`; `WormLedger`: the refinement of `WormLog` |
| state store adapters | `stored_state` | 2 callers, 2 writes, 1 restart, every mode and preference | `MirrorHolds`: `AckedIsRead` unless a write fell back or two overlapped, `FallbackAudited`; `WrittenOnce` for evidence and ledger entries |

`RowsFollowState` of `stored_state` is of three components: the row and index of a
plugin, the status row of a bridge and the views of the flow map are those of the
process once an operation that nothing overlapped has gone through.
`ControlTypesOK` and `StoredTypesOK` are the type invariants of the components of
the two runs; those of the other modules are proved and not checked again.

`control_loops` checks deadlock: only an ordering that has ended and a kernel
whose calls have all returned may stop. In `stored_state` the bounds on messages,
operations and clocks end every behaviour, so it does not.

Several properties have the form "unless two operations overlapped": the code has
no lock there, and the exception is what it does, not a convenience. Such a
property says that nothing *but* that overlap breaks the promise: no failure
between two writes, no restart, no order of operations that do not overlap.

Every property of a passing run has a mutant, a plausible bug in the code under
which TLC finds the property violated.

### Bounds, and why they are enough

* *Reports.* The first adverse report decides; the others change nothing. Three
  reports give a clean, an adverse and a late one. The theorems cover any number.
* *Calls.* Two tool calls compete for a window of one, while a provider call
  competes for the money. Estimates and costs have the orderings that matter: two
  reservations fit the account, three do not; a cost is below or above its
  estimate; a quota window holds less than the account. Two windows let a call
  settle after its own has passed.
* *Breakers.* Two swarms are what a lost update needs. Thresholds of two leave a
  row that has counted and not tripped; the server cools down longer than the
  tool. A built-in tool goes through the steps of the MCP tool without the
  server's, with a row of its own.
* *Triggers.* Three ids hold an event of each of two processes and a successor.
* *Background tasks.* Two clients race; two slots hold an old worker that is
  still there and a new one. One restart gives both outcomes of a failure.
* *Degrades.* Two actors overlap. Start times 0 and 1 give two open failovers to
  choose from and rows written in the same millisecond; read-only profiles live
  longer than the others, as in the code. `Horizon` is the time by which every
  profile has expired, so that stopping the clock there hides nothing.
* *Task order.* Three tasks are the smallest number with a chain behind a cycle.
* *Kernel.* The memory holds any two calls and not three; a plan with two steps is
  drained against the order of submission; a routed call costs two units.
* *Signals.* One retry gives both outcomes of a failure. Two signals and a limit of
  one give a refusal; batches of one are flushed twice.
* *Session store.* Two messages, one of them a tool's or both, make memory and the
  saved conversation differ; one fault comes before, between or after two appends.
  The theorems cover any number.
* *Plugins.* Two manifests are an update and a rollback; three operations are
  an install and two that race. `PluginLifecycle` by itself was also checked with four
  (342,671 states).
* *Remote sessions.* Two units are a second, so that the expiry in whole seconds cuts
  off a part; two tokens can share an instant, and one replace the other.
* *Queue, reviews, flow.* Two of each let one be overtaken by the other, or share its
  millisecond; a third update finds what the first two left, and a second worker run
  what a late row "latest" brought back. `SupermemoryQueue` by itself was also checked
  with three runs (668,300 states).
* *Evidence.* Numbers from 8 reach 10 within four appends, which is where the keys
  sort against their order.
* *State mirror.* Two writes are one and its replacement, its duplicate or its rival;
  `StateMirror` by itself was also checked with three (661,550 states).

### Fairness

* `RuntimeBudget`: a call that can go on does. Futures are polled, provider requests and
  sandboxed tools have timeouts, and the swarm's timeouts drop the rest. Faults and
  time are never forced.
* `CircuitBreaker`: only time passes. A call may hang for ever.
* `TaskOrder`: a loop that has been entered goes on; it awaits nothing.
* `SignalPipeline`: a call that has begun goes on: the store answers, with an error
  perhaps every time, and the backoff between two attempts ends.
* `DegradeRecovery`: time passes, and a sequence of writes that has begun goes on
  or stops.
* `TriggerRuntime`: the daemon runs pass after pass. `Complete`, `ScheduleNext`
  and the execution of a chain are strongly fair: an interruption may disable
  them, but does not strike every time the same step is reached. An execution
  that returns may always fail; the property allows for that.
* `BackgroundTasks`: only the steps of a stop that has begun. Nothing is assumed
  of commands, which have no timeout.

### What the runs found

1. **A blocked report is lost** (`swarm_workflow_blocked`).
   `session/transition.rs:38` accepts `RuntimeBlocked` only in `Executing`; after
   a failed report the machine is `Planned`, the signal is an error, and the
   driver discards it. `docs/PROCESS_MODEL.md:67` promises `Any -> Blocked`.
2. **The ledger does not record overruns** (`runtime_budget_reconcile`).
   `settle_budget` writes a refund for a cost below the reservation and nothing
   for one above, so `consistent` is false from then on.
3. **Early returns keep the reservation** (`runtime_budget_reserve`): a denying
   hook, a full window, a `?` of the guard.
4. **A tool that errs never trips** (`circuit_breaker_errors`): its outcome is
   not recorded, on either of the two paths.
5. **A manual takeover ends without approval** (`degrade_takeover`): a provider
   call that fails during it installs `ProviderFallback`.

Met on the way and not the subject of a run: a recovered failover is stored
under the key of the recovery's time, so the original row stays open and
`resilience_report` counts it twice; a read-only profile expires although its
recovery plan asks for an operator; two racing starts of a background task leave
a worker that nothing can stop (`NoOrphan` says that nothing else does);
`max_retries = 255` makes a failing sink retry for ever, because its counter
saturates at the limit (the assumption of `SignalPipeline` excludes it); an
`llm.route` step costs two units of which one is reserved; a restart forgets which
tokens were used; in `Shadow` mode with the default preference, knowledge is written
to Postgres alone and read from memory alone, so that no write is ever seen
(`Visible`); inside a rollback window a ledger id that exists already is written a
second time, and a typed row that falls back to `kv_records` is read by nobody; an
evidence key is overwritten while Postgres fails to answer the check; a job
whose processing failed stays `Extracting`; a caller of `queue_ingestion` that writes
the row "latest" late, after a worker has taken the job from its own row and finished
it, brings it back as Queued, and the next worker ingests it again
(`memory/supermemory.rs:1696`; the test at line 3345 shows that a pass
nothing interrupts leaves no job queued); two calls of `queue_ingestion` in one
millisecond, one after the other too, share row, payload and document, so that the
first job is replaced without a word; a worker that comes between a job's row and its
payload ingests the name of its source; the host never
unloads a disabled plugin; a bridge's expiry is stored and never looked at, so that a
bridge outlives its token; within a millisecond record 10 of a trace is listed before record 9. The properties name
these cases where they would otherwise fail.

## 4. The proofs

All theorems hold for any values of the constants that satisfy the named
assumptions: finite sets where a cardinality or a sum is taken, thresholds and
limits at least one, sentinels outside the sets they extend, and in
`DegradeRecovery` a horizon after every expiry. TLC evaluates the assumptions on
every run.

| module | theorems | inductive invariant, and why it is needed |
|---|---|---|
| `RuntimeBudgetProofs` | `TypeInvariant`, `ReservationsExact`, `AccountsStayInBudget` (together `AccountsKept`), `QuotaBounded`, `LedgerAgrees`, `WindowBounded`, `BudgetPromiseKept`, `CallsOnlyAdvance` | the actions are first sorted by what they do to the budget. Sums of reservations are cardinalities of sets of units, which the finite-set library can reason about. The ledger needs to know, for the one call that holds the lock, which of its writes are done; a quota row needs `InFlight`: what the holder of the lock has read of the row is still there when it writes it, and `CountedIn` says which reservations the row must contain at each point. The refinement needs `ReservedIsHeld`: the row that the precheck reads is the sum of the open reservations, so the first write of an operation is the step of `BudgetAccount` and the others, an operation cut short included, are stutters |
| `TriggerRuntimeProofs` | `TriggerTypes`, `ExecutedOnce`, `TriggersGoOn`, `SingleRate` | `Untried`, `HeldOnce`, `StillPending`: where the count of an execution stands in a listing, in a worker's hands and in the store. `SchedulingSettled`: the event whose successor is due keeps its slot. `SingleRate` assumes one worker and needs `OneInHand`: what it has in hand are events of different chains, each the only live one of its chain |
| `BackgroundTasksProofs` | `ManagerTypes`, `StoppingIsTemporary`, `RecordsAreTruthful` (together `RecordsKept`), `StartsThatDoNotRaceLeaveNoOrphan`, `StopsOnlyAdvance` | `Managed`: `Tries`, `Placed`, `Told`: a client that will write `Stopped` has told its worker. `OneStart`, `Quiet`: while no starts have raced there is one, and the worker it replaces does not go on by itself. `JoinHasWaiter`: a join lock that is held is held inside a bounded wait |
| `DegradeRecoveryProofs` | `DegradeTypes`, `RecoveryFindsItsFailover` | `Carried`, and while undisturbed `Alone`, `Backed`, `NewestIsActive`, `NewestIsMine`, `Aligned`: one writer, the profile's failover open, none younger. The newest of a bounded set of times comes from well-founded induction on the naturals |
| `TrailsAndQueuesProofs`, swarm | `TypeInvariant`, `DriverInStepInvariant`, `TrailReplays` | `DriverInStep` with the types is inductive. `TableTargets` states the arms of the transition table once; the fold over the reports needs that the first adverse report stays the first when one is appended. The audit trail is inductive by itself: a record stored with its move opens no seam (`RecordedMove`), a lost one opens one at most (`LostMove`), and the two hops of a verdict are these two in a row |
| the same, evidence ledger | `ChainTypes`, `LedgerIsWorm`, `ChainIsVerified` | `Anchored`: a writer about to write carries the root or the hash of a stored record, and stored numbers are below the counter: then `PutRecord` is an `AddRecord` of a new record and every other step a stutter of `WormLog`. While appends take turns, `OneAppend`: the hash a writer has read is still the latest and nothing stored is younger than its time stamp, so that its record is listed last (`PutListedLast`) after the one it names. The listing is unique: where two differ first, each would list the other's record later |
| the same, supermemory queue | `QueueTypes`, `JobsKept` | `QueueInv`: of every id, a row that nobody is about to write again shows Queued or Done, or a failure left it (`Followed`); the passes an id has made, the agents that may still make one and the row that waits for one are together paid for by its calls and its picks out of another's hands (`Owed`: a step moves a unit from one of these to the next, or a call or pick adds one); of a job that one agent at a time has in hand (`Single`) the content is stored or on its way (`ContentKept`). Steps on other ids are a frame (`OthersUntouched`) |
| the same, patch reviews | `ReviewTypes`, `DecisionsStand` | `ReviewInv`: as long as the rows of a review are written in the order of their times (`InOrder`), its newest row (`NoneNewer`) has the status it was given last |
| `SessionProofs`, sessions | `SessionTypes`, `AppendsRepair`, `SettledStateIsKept` | `SessionInv` (theorem `SessionInvariant`): where an operation that has had no company is, its copy is what memory and files hold up to the write it is about to make. Without it nothing says that the last of an append's four writes belongs to the same history as the first |
| the same, remote sessions | `RemoteTypes`, `TokensStartOnce`, `StatusRowIsCurrent` | `RemoteInv`: the token of a client between the check of its jti and the start is consumed by that client alone (`MayStart`), and the current token of the rotation is none of the replaced ones; while operations do not overlap one client at a time writes the status row, with the entry it wrote (`StatusHeld`) |
| `StoredStateProofs`, plugins | `PluginTypes`, `AdmittedOnly`, `StoredIsRecord` | `PluginInv`: the manifest an operator carries past its admission has been admitted, and what `enable` and the host use is one of these; the rows of an operator that is alone are behind its record by exactly the writes it has still to make (`WritesHeld`) |
| the same, flow map | `FlowTypes`, `ViewsAreThoseOfTheMap`, `LoneUpdatesAreLocal` | `FlowInv`: an update that nothing overlapped carries the map as it is stored. `LoneUpdatesAreLocal` is an action property over it |
| the same, mirrored store | `MirrorTypes`, `MirrorKeeps`, `EntriesWrittenOnce` | `MirrorInv`: rows are only where their kind is written, memory has only what fell back, and as long as nothing fell back the acknowledged value is at home (`RowsPlaced`); a call past the write-once check is the only one under way, or something excuses it (`OnceHeld`) |
| the same, composition | `StoredTypes`, `RowsFollow` | a step of `MCStoredState` is a step of one component and leaves the others alone (`StoredSteps`), so each component's invariant is one of the whole |
| `ControlLoopsProofs`, ordering | `OrderTypes`, `OrderReturns`, `OrderDescends` | `OrderHolds`: what is ordered and what is left partition the tasks, at every point of a sweep. `SortInv`: what was taken out has all it depends on before it, what is left keeps its order, and a sweep that has taken out nothing has found nothing ready. When the sweeps end, `satisfied` is closed under "all dependencies are in it", and by induction along `ordered` every closed set contains it: so it is `Runnable` |
| the same, breakers | `BreakerTypes`, `OpenExactlyAtThreshold` | a loaded copy is tripped exactly at its threshold too, although it may be stale; calls at the server's steps have a server |
| the same, trusted kernel | `KernelTypes`, `AccountsHeld`, `DrainByPriority`, `EvidenceReplays` | `KernelInv`: the pool is the sum of what the held reservations need, and, as long as no call was charged more than its units, the account has at least the units of the calls between reservation and charge (`UnitsHeld`). Sums are again cardinalities (`TotalAdd`, `TotalRemove`). `DrainByPriority` says what `Order` computes for every plan. `ReplayInv`: the records of a call in the ledger are the ones its plan has got to, each naming the one before (`Chain`), whatever other calls append between; a replay then visits them all in their order (`WalkVisitsAll`) |
| the same, signal pipeline | `PipeTypes`, `NothingLost`, `CallsDescend` | `PipeInv`: the batch of a flush that nothing raced is the front of the queue, and what of it is no longer in hand has been sunk (`FrontIsSunk`); what was accepted or is being ruled on never exceeds the bucket (`RateHeld`) |
| the same, composition | `ControlTypes` | as for the stored state |

What a recursive function computes (`Order`, `Walk`) is proved by induction over a
*set* of numbers (`SetInduction`, from the well-foundedness of the naturals): first
that a function with the recursion's equations exists, which gives the equations of
the chosen one, and then the result for every length.

Of the properties of the passing runs, only the liveness properties (`EveryCallEnds`,
`CoolingEnds`, `FailuresTrip`, `RecurringKeepsFiring`, `StopReturns`, `ServiceReturns`,
`OrderingEnds`, `CallsReturn`) are model-checked and not proved, since fairness and
ENABLED are beyond the prover here. For four of them the part that does not need
fairness is proved: no step of anybody sets the operation back, each of its own steps
descends in a well-founded order, and a lock it may wait for is held only by somebody
who can go on (`CallsOnlyAdvance`, `StopsOnlyAdvance`, `OrderDescends`,
`CallsDescend`). What is left to TLC is that a step which can be taken is taken.

## 5. Abstractions

The content of prompts, responses, tool outputs, events, log lines and recovery
plans is left out: nothing modelled reads it. Amounts and times are natural
numbers; the code's `saturating_sub` is kept where it acts, and sums stay far
below 2^64. The budget is modelled with `budget_enforced = true`; without it
there is no budget state. A store call is atomic, and the store loses nothing it
has acknowledged. `budget_lock` is a process-wide lock, and the model is of one
process; triggers are modelled as several processes, because the CLI makes them
so. The cost of a call is any member of a small set, as `cost_breakdown` may say.

Hashes and digests are modelled by what they digest: two are equal exactly when
what they digest is. The evidence counter is of one process; a second process
would bring a counter of its own into the same keys. The trimming of context items
above 64 and the rate limit's change of minute are beyond the bounds. The states
of an ingestion job between its first and its last are one, and so are the
terminal states of a flow node.

## 6. What is left

1. **ExecutionGate**: the composition of budget, breaker and degrade in
   `execute_swarm`, where a failing call degrades, rolls back and is recorded.
2. More abstract specifications: a breaker that counts atomically, which the code
   implements only for one swarm.
