--------------------------- MODULE SignalPipeline ---------------------------
(***************************************************************************)
(* The signal pipeline (observability/signal_pipeline.rs behind            *)
(* signal_facade.rs): a queue of signals that any number of callers fill,   *)
(* flush in batches, flush at shutdown, or bypass with `emit`.              *)
(*                                                                         *)
(* A flush copies signals from the queue under its lock, processes and     *)
(* sinks them one by one without it, and removes as many from the front     *)
(* when it is done.  Signals are their sequence numbers.                    *)
(***************************************************************************)
EXTENDS Integers, Sequences, FiniteSets, SequencesExt

CONSTANTS Callers,       \* tasks that flush, shut down or emit
          MaxSignals,    \* bound: signals ingested
          BatchSize,     \* cfg.batch_size
          MaxRetries,    \* cfg.max_retries
          MaxAttempt,    \* u8::MAX, where the counter of attempts saturates
          RateLimit      \* rate_limit_per_minute, of one bucket

\* The counter must be able to pass the limit: with max_retries = u8::MAX, which
\* the configuration allows, a failing sink is tried for ever.
ASSUME PipelineConstants ==
    /\ MaxSignals \in Nat /\ BatchSize \in Nat \ {0}
    /\ MaxAttempt \in Nat /\ MaxRetries \in 0 .. MaxAttempt - 1
    /\ RateLimit \in Nat \ {0}

VARIABLES pending,       \* SignalPipelineState.pending
          issued,        \* NEXT_SIGNAL_SEQUENCE_NO
          bucket,        \* the rate limit counter; above the limit all counts are one
          call,          \* what each caller is doing
          batch,         \* the signals it still has to sink
          flushed,       \* outputs.len()
          attempt,       \* sink attempts for the first of them, 0: not processed
          ruling,        \* decision.accepted of the one in the sink
          accepted,      \* signals with a stored record that says accepted
          sunk,          \* signals that went through the sink, evidence included
          queued,        \* history: signals that were enqueued
          raced          \* history: flushes overlapped, or a signal came in
                         \* during a shutdown flush

pipeVars == <<pending, issued, bucket, call, batch, flushed, attempt, ruling,
              accepted, sunk, queued, raced>>

Calls == {"none", "flush", "shutdown", "emit"}

Flushing == { f \in Callers : call[f] \in {"flush", "shutdown"} }

PipeInit ==
    /\ pending = <<>> /\ issued = 0 /\ bucket = 0
    /\ call = [f \in Callers |-> "none"]
    /\ batch = [f \in Callers |-> <<>>]
    /\ flushed = [f \in Callers |-> 0]
    /\ attempt = [f \in Callers |-> 0]
    /\ ruling = [f \in Callers |-> FALSE]
    /\ accepted = {} /\ sunk = {} /\ queued = {} /\ raced = FALSE

-----------------------------------------------------------------------------
\* enqueue: ingest numbers the signal, the lock is held for the push.
Enqueue ==
    /\ issued < MaxSignals
    /\ issued' = issued + 1
    /\ pending' = Append(pending, issued + 1)
    /\ queued' = queued \cup {issued + 1}
    /\ raced' = (raced \/ \E f \in Callers : call[f] = "shutdown")
    /\ UNCHANGED <<bucket, call, batch, flushed, attempt, ruling, accepted, sunk>>

Begin(f, what, signals) ==
    /\ call[f] = "none"
    /\ call' = [call EXCEPT ![f] = what]
    /\ batch' = [batch EXCEPT ![f] = signals]

\* flush_if_needed, from the check of the queue's length to its copy.
BeginFlush(f) ==
    /\ Len(pending) >= BatchSize
    /\ Begin(f, "flush", SubSeq(pending, 1, BatchSize))
    /\ raced' = (raced \/ Flushing # {})
    /\ UNCHANGED <<pending, issued, bucket, flushed, attempt, ruling, accepted, sunk,
                   queued>>

\* shutdown_flush copies the whole queue.
BeginShutdown(f) ==
    /\ Begin(f, "shutdown", pending)
    /\ raced' = (raced \/ Flushing # {})
    /\ UNCHANGED <<pending, issued, bucket, flushed, attempt, ruling, accepted, sunk,
                   queued>>

\* execute: one signal, past the queue.
Emit(f) ==
    /\ issued < MaxSignals
    /\ issued' = issued + 1
    /\ Begin(f, "emit", <<issued + 1>>)
    /\ UNCHANGED <<pending, bucket, flushed, attempt, ruling, accepted, sunk, queued, raced>>

-----------------------------------------------------------------------------
\* Mutant: the counter is compared before it is incremented.
WithinRateLate(count) == count <= RateLimit

\* rate_limit_event: incremented, then compared.
WithinRate(count) == count + 1 <= RateLimit

\* `process`: context, filter and sampling decide first (any answer), then the
\* rate limit, which counts every signal that gets that far, again when a batch
\* is flushed again.
Process(f) ==
    /\ call[f] # "none" /\ batch[f] # <<>> /\ attempt[f] = 0
    /\ attempt' = [attempt EXCEPT ![f] = 1]
    /\ \/ /\ ruling' = [ruling EXCEPT ![f] = WithinRate(bucket)]
          /\ bucket' = IF bucket <= RateLimit THEN bucket + 1 ELSE bucket
       \/ /\ ruling' = [ruling EXCEPT ![f] = FALSE]
          /\ UNCHANGED bucket
    /\ UNCHANGED <<pending, issued, call, batch, flushed, accepted, sunk, queued, raced>>

Sinking(f) == call[f] # "none" /\ batch[f] # <<>> /\ attempt[f] > 0

\* The record that sink_once stores first.
StoreRecord(f) ==
    accepted' = IF ruling[f] THEN accepted \cup {Head(batch[f])} ELSE accepted

\* Mutant: the counter wraps around before it passes the limit.
RetryWrapping(f) ==
    /\ Sinking(f)
    /\ attempt' = [attempt EXCEPT ![f] = IF @ > MaxRetries THEN 1 ELSE @ + 1]
    /\ StoreRecord(f) \/ UNCHANGED accepted
    /\ UNCHANGED <<pending, issued, bucket, call, batch, flushed, ruling, sunk, queued, raced>>

\* sink_once fails, before or after its record was stored, and is tried again.
\* The attempts are counted with saturation.
Retry(f) ==
    /\ Sinking(f) /\ attempt[f] <= MaxRetries
    /\ attempt' = [attempt EXCEPT ![f] = IF @ < MaxAttempt THEN @ + 1 ELSE @]
    /\ StoreRecord(f) \/ UNCHANGED accepted
    /\ UNCHANGED <<pending, issued, bucket, call, batch, flushed, ruling, sunk, queued, raced>>

\* The caller returns, its local variables are gone.
EndCall(f) ==
    /\ call' = [call EXCEPT ![f] = "none"]
    /\ batch' = [batch EXCEPT ![f] = <<>>]
    /\ flushed' = [flushed EXCEPT ![f] = 0]
    /\ attempt' = [attempt EXCEPT ![f] = 0]
    /\ ruling' = [ruling EXCEPT ![f] = FALSE]

\* Mutant: the queue is drained although the flush failed.
GiveUpDrained(f) ==
    /\ Sinking(f) /\ attempt[f] > MaxRetries
    /\ StoreRecord(f) \/ UNCHANGED accepted
    /\ EndCall(f)
    /\ pending' = IF call[f] = "emit" THEN pending
                  ELSE SubSeq(pending, flushed[f] + 2, Len(pending))
    /\ UNCHANGED <<issued, bucket, sunk, queued, raced>>

\* Retries exhausted: the error leaves the queue as it is, the signals that went
\* through before the failing one included.
GiveUp(f) ==
    /\ Sinking(f) /\ attempt[f] > MaxRetries
    /\ StoreRecord(f) \/ UNCHANGED accepted
    /\ EndCall(f)
    /\ UNCHANGED <<pending, issued, bucket, sunk, queued, raced>>

\* sink_once succeeds: record, latest row and evidence are stored.
Sink(f) ==
    /\ Sinking(f)
    /\ StoreRecord(f)
    /\ sunk' = sunk \cup {Head(batch[f])}
    /\ batch' = [batch EXCEPT ![f] = Tail(@)]
    /\ flushed' = [flushed EXCEPT ![f] = @ + 1]
    /\ attempt' = [attempt EXCEPT ![f] = 0]
    /\ ruling' = [ruling EXCEPT ![f] = FALSE]
    /\ UNCHANGED <<pending, issued, bucket, call, queued, raced>>

\* The batch is through: a flush removes as many signals as it has sunk from the
\* front, a shutdown clears the queue.
Drain(f) ==
    /\ call[f] # "none" /\ batch[f] = <<>>
    /\ pending' = CASE call[f] = "flush"    -> SubSeq(pending, flushed[f] + 1, Len(pending))
                    [] call[f] = "shutdown" -> <<>>
                    [] call[f] = "emit"     -> pending
    /\ EndCall(f)
    /\ UNCHANGED <<issued, bucket, accepted, sunk, queued, raced>>

PipeStep(f) == Process(f) \/ Retry(f) \/ GiveUp(f) \/ Sink(f) \/ Drain(f)

PipeNext ==
    \/ Enqueue
    \/ \E f \in Callers : BeginFlush(f) \/ BeginShutdown(f) \/ Emit(f) \/ PipeStep(f)

\* A call that has begun goes on: the store answers, the backoff ends.
PipeFairness == \A f \in Callers : WF_pipeVars(PipeStep(f))

PipeSpec == PipeInit /\ [][PipeNext]_pipeVars /\ PipeFairness

-----------------------------------------------------------------------------
(* Properties. *)

\* Shapes; the sink is tried at most once more than there are retries, and no more
\* signals are accepted than the bucket allows.
PipeTypeOK ==
    LET Signal == 1 .. issued
    IN /\ issued \in 0 .. MaxSignals /\ bucket \in 0 .. RateLimit + 1
       /\ ToSet(pending) \subseteq queued /\ queued \subseteq Signal
       /\ call \in [Callers -> Calls]
       /\ \A f \in Callers : ToSet(batch[f]) \subseteq Signal
       /\ attempt \in [Callers -> 0 .. MaxRetries + 1]
       /\ ruling \in [Callers -> BOOLEAN]
       /\ accepted \subseteq Signal /\ sunk \subseteq Signal
       /\ Cardinality(accepted) <= RateLimit

\* A signal leaves the queue only after the sink has taken it, whatever fails and
\* is tried again, as long as no two flushes overlap (each removes what the other
\* was to flush) and nothing is enqueued while a shutdown flush runs (it clears
\* the queue without having seen it).
NoSignalLost == raced \/ queued \subseteq ToSet(pending) \cup sunk

\* Every flush, shutdown and emit returns although the store may always fail: the
\* retries of each signal are bounded.
CallsReturn == \A f \in Callers : call[f] # "none" ~> call[f] = "none"
=============================================================================
