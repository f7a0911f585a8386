--------------------------- MODULE TriggerRuntime ---------------------------
(***************************************************************************)
(* The trigger worker of one session.  Every `trigger run`, `trigger        *)
(* daemon` and `trigger webhook --run-now` process runs passes over the     *)
(* schedule events in the shared state store: it lists the pending events   *)
(* once, then executes them one by one and writes each one's status.  No    *)
(* event is claimed, so the passes of two processes overlap, and `trigger   *)
(* cancel` sweeps over its own listing in between.                          *)
(*                                                                          *)
(* A chain is a registered trigger with the successors created for it.  The *)
(* ids the store hands out are slots: a new event takes any slot whose old  *)
(* event is settled and in nobody's listing, which nothing can tell from a  *)
(* fresh id.  A pass takes its listing in any order.  The time to the next  *)
(* firing is relative.  An event whose topic is not a trigger, or a poll    *)
(* that is not ready, is inert: every pass skips it.                        *)
(***************************************************************************)
EXTENDS Integers

CONSTANTS
    Workers,  \* processes that run passes
    Slots,    \* bound: ids in use at the same time
    NoSlot,
    Chains,
    Kind,     \* the route kind of a chain
    Period    \* cron_interval_secs and its like

Kinds == {"recurring", "single", "inert"}

ASSUME TriggerAssumption ==
    /\ NoSlot \notin Slots /\ Chains # {}
    /\ Kind \in [Chains -> Kinds]
    /\ Period \in Nat

VARIABLES
    events,      \* the rows: chain, status, time left before it is due
    registered,  \* the chains whose first event was created
    pc, queue,   \* where a worker is, and what is left of its listing
    cur,         \* the event it is executing
    sweep,       \* what `trigger cancel` has still to write
    broken,      \* history: chains that a failure, a cancel or a crash ended
    ran          \* history: how often a worker executed an event and was not
                 \* interrupted before it wrote the event's status

store == <<events, registered>>
worker == <<pc, queue, cur>>
history == <<broken, ran>>
vars == <<store, worker, sweep, history>>

Settled == {"completed", "failed", "cancelled"}

AnyChain == CHOOSE c \in Chains : TRUE

Init ==
    /\ events = [e \in Slots |-> [chain |-> AnyChain, status |-> "none", wait |-> 0]]
    /\ registered = {}
    /\ pc = [w \in Workers |-> "idle"]
    /\ queue = [w \in Workers |-> {}]
    /\ cur = [w \in Workers |-> NoSlot]
    /\ sweep = {}
    /\ broken = {}
    /\ ran = [w \in Workers |-> [e \in Slots |-> 0]]

-----------------------------------------------------------------------------
(* The state store *)

Busy(w) == pc[w] \in {"executing", "completing", "failing", "scheduling"}

\* Mutated form: a failed event is listed, and tried, again.
PendingRetry == {e \in Slots : events[e].status \in {"queued", "failed"}}

\* list_pending: what is not completed, cancelled or failed.
Pending == {e \in Slots : events[e].status = "queued"}

\* A slot a new id may stand in.
Free(e) ==
    /\ events[e].status # "queued"
    /\ e \notin sweep
    /\ \A w \in Workers : e \notin queue[w] /\ (Busy(w) => cur[w] # e)

\* Mutated form: the new row is a copy of the row it follows, status included.
NewEventCopied(e, c, t) ==
    events' = [events EXCEPT ![e] =
        [chain |-> c, status |-> IF c \in registered THEN "completed" ELSE "queued", wait |-> t]]

\* create_schedule_event: a queued row at a fresh id.
NewEvent(e, c, t) ==
    events' = [events EXCEPT ![e] = [chain |-> c, status |-> "queued", wait |-> t]]

\* The history of the slot starts over with the new id.
Forget(e) == ran' = [w \in Workers |-> [ran[w] EXCEPT ![e] = 0]]

\* update_schedule_status: whatever the status was.
SetStatus(e, s) == events' = [events EXCEPT ![e].status = s]

\* A status that settles a pending event without a successor ends its chain.
Ends(e) ==
    broken' = IF events[e].status = "queued" THEN broken \cup {events[e].chain} ELSE broken

\* ingest_webhook_event, register_focus_triggers, `trigger set`.
Register(c, e) ==
    /\ c \notin registered /\ Free(e)
    /\ registered' = registered \cup {c}
    /\ NewEvent(e, c, 0)
    /\ Forget(e)
    /\ UNCHANGED <<worker, sweep, broken>>

-----------------------------------------------------------------------------
(* One pass of run_worker_once *)

Goto(w, l) == pc' = [pc EXCEPT ![w] = l]

\* Back to the loop over the listing.
NextEvent(w) ==
    /\ Goto(w, "scanning")
    /\ cur' = [cur EXCEPT ![w] = NoSlot]

ListPending(w) ==
    /\ pc[w] = "idle"
    /\ queue' = [queue EXCEPT ![w] = Pending]
    /\ Goto(w, "scanning")
    /\ UNCHANGED <<store, cur, sweep, history>>

\* Mutated form: fires only before its time.
EarlyOnly(e) == Kind[events[e].chain] = "recurring" => events[e].wait > 0

\* should_fire_event: next_fire_at_ms counts only for a recurring kind.
ShouldFire(e) == Kind[events[e].chain] = "recurring" => events[e].wait = 0

Skip(w, e) ==
    /\ pc[w] = "scanning" /\ e \in queue[w]
    /\ Kind[events[e].chain] = "inert" \/ ~ShouldFire(e)
    /\ queue' = [queue EXCEPT ![w] = @ \ {e}]
    /\ UNCHANGED <<store, pc, cur, sweep, history>>

\* The executor is called with the listed copy; the row is not read again.
Execute(w, e) ==
    /\ pc[w] = "scanning" /\ e \in queue[w]
    /\ Kind[events[e].chain] # "inert" /\ ShouldFire(e)
    /\ queue' = [queue EXCEPT ![w] = @ \ {e}]
    /\ cur' = [cur EXCEPT ![w] = e]
    /\ Goto(w, "executing")
    /\ ran' = [ran EXCEPT ![w][e] = @ + 1]
    /\ UNCHANGED <<store, sweep, broken>>

\* The executor (or the sync or refresh handler) answers Ok or Err.
ExecutorReturns(w, ok) ==
    /\ pc[w] = "executing"
    /\ Goto(w, IF ok THEN "completing" ELSE "failing")
    /\ UNCHANGED <<store, queue, cur, sweep, history>>

\* Mutated form: only a single-fire event is marked completed.
CompleteSingles(w) ==
    /\ pc[w] = "completing"
    /\ IF Kind[events[cur[w]].chain] = "recurring"
       THEN Goto(w, "scheduling") /\ UNCHANGED <<events, cur>>
       ELSE SetStatus(cur[w], "completed") /\ NextEvent(w)
    /\ UNCHANGED <<registered, queue, sweep, history>>

Complete(w) ==
    /\ pc[w] = "completing"
    /\ SetStatus(cur[w], "completed")
    /\ IF Kind[events[cur[w]].chain] = "recurring"
       THEN Goto(w, "scheduling") /\ UNCHANGED cur
       ELSE NextEvent(w)
    /\ UNCHANGED <<registered, queue, sweep, history>>

\* A failed recurring event gets no successor.
Fail(w) ==
    /\ pc[w] = "failing"
    /\ SetStatus(cur[w], "failed")
    /\ NextEvent(w)
    /\ Ends(cur[w])
    /\ UNCHANGED <<registered, queue, sweep, ran>>

\* schedule_next_event: the successor, due one period from now.
ScheduleNext(w, e) ==
    /\ pc[w] = "scheduling" /\ Free(e)
    /\ NewEvent(e, events[cur[w]].chain, Period)
    /\ Forget(e)
    /\ NextEvent(w)
    /\ UNCHANGED <<registered, queue, sweep, broken>>

PassEnds(w) ==
    /\ pc[w] = "scanning" /\ queue[w] = {}
    /\ Goto(w, "idle")
    /\ UNCHANGED <<store, queue, cur, sweep, history>>

\* The process stops, or a store call fails and its `?` ends the pass: the
\* daemon begins a new one after its sleep.
Interrupted(w) ==
    /\ pc[w] # "idle"
    /\ ran' = IF pc[w] \in {"executing", "completing", "failing"}
              THEN [ran EXCEPT ![w][cur[w]] = @ - 1] ELSE ran
    /\ broken' = IF pc[w] = "scheduling" THEN broken \cup {events[cur[w]].chain} ELSE broken
    /\ Goto(w, "idle")
    /\ queue' = [queue EXCEPT ![w] = {}]
    /\ cur' = [cur EXCEPT ![w] = NoSlot]
    /\ UNCHANGED <<store, sweep>>

-----------------------------------------------------------------------------
(* `trigger cancel`: lists every event, settled ones too, then writes each *)

CancelAll ==
    /\ sweep = {}
    /\ sweep' = {e \in Slots : events[e].status # "none"}
    /\ UNCHANGED <<store, worker, history>>

\* An error of the update is ignored.
CancelOne(e, written) ==
    /\ e \in sweep
    /\ sweep' = sweep \ {e}
    /\ IF written
       THEN SetStatus(e, "cancelled") /\ Ends(e)
       ELSE UNCHANGED <<events, broken>>
    /\ UNCHANGED <<registered, worker, ran>>

Tick ==
    /\ \E e \in Slots : events[e].wait > 0
    /\ events' = [e \in Slots |-> [events[e] EXCEPT !.wait = IF @ > 0 THEN @ - 1 ELSE 0]]
    /\ UNCHANGED <<registered, worker, sweep, history>>

Pass(w) ==
    \/ ListPending(w)
    \/ \E e \in Slots : Skip(w, e)
    \/ \E e \in Slots : Execute(w, e)
    \/ \E ok \in BOOLEAN : ExecutorReturns(w, ok)
    \/ Complete(w)
    \/ Fail(w)
    \/ \E e \in Slots : ScheduleNext(w, e)
    \/ PassEnds(w)
    \/ Interrupted(w)

Next ==
    \/ \E c \in Chains, e \in Slots : Register(c, e)
    \/ \E w \in Workers : Pass(w)
    \/ CancelAll
    \/ \E e \in Slots, written \in BOOLEAN : CancelOne(e, written)
    \/ Tick

Spec == Init /\ [][Next]_vars

\* The daemon runs pass after pass, and an interruption does not strike every
\* time the same step is reached: what is possible again and again is done.
FairSpec ==
    /\ Spec
    /\ WF_vars(Tick)
    /\ WF_vars(\E e \in Slots, written \in BOOLEAN : CancelOne(e, written))
    /\ \A w \in Workers :
        /\ WF_vars(ListPending(w)) /\ WF_vars(PassEnds(w))
        /\ WF_vars(\E e \in Slots : Skip(w, e))
        /\ WF_vars(\E ok \in BOOLEAN : ExecutorReturns(w, ok))
        /\ WF_vars(Fail(w))
        /\ SF_vars(Complete(w))
        /\ SF_vars(\E e \in Slots : ScheduleNext(w, e))
        /\ \A c \in Chains :
            SF_vars(\E e \in Slots : events[e].chain = c /\ Execute(w, e))

-----------------------------------------------------------------------------
(* Properties *)

\* Rows, listings and counts have the shape the store and the worker give them;
\* no successor is ever due later than one period from now.
TypeOK ==
    /\ events \in [Slots -> [chain : Chains, status : {"none", "queued"} \cup Settled,
                             wait : 0..Period]]
    /\ registered \subseteq Chains /\ broken \subseteq Chains
    /\ pc \in [Workers -> {"idle", "scanning", "executing", "completing", "failing",
                           "scheduling"}]
    /\ queue \in [Workers -> SUBSET Slots]
    /\ cur \in [Workers -> Slots \cup {NoSlot}]
    /\ sweep \subseteq Slots
    /\ ran \in [Workers -> [Slots -> Nat]]

Live(e, c) == events[e].status = "queued" /\ events[e].chain = c

\* However passes and cancels overlap, a worker executes an event again only
\* when it was interrupted before it had written the event's status: nothing
\* ever puts a settled event back into a listing.
RerunOnlyAfterInterrupt ==
    \A w \in Workers, e \in Slots : ran[w][e] <= 1

\* A registered recurring trigger goes on unless an execution failed, it was
\* cancelled, or a process died between marking an event completed and
\* creating its successor: there is an event still to fire, or a worker about
\* to create it.
ChainGoesOn ==
    \A c \in registered \ broken : Kind[c] = "recurring" =>
        \/ \E e \in Slots : Live(e, c)
        \/ \E w \in Workers : pc[w] = "scheduling" /\ events[cur[w]].chain = c

\* With one worker a trigger never has two events to fire: no interruption and
\* no cancel makes a recurring trigger run at twice its rate.
OneEventPerChain ==
    \A c \in Chains, e, f \in Slots : Live(e, c) /\ Live(f, c) => e = f

\* A recurring trigger that nothing ended fires for ever.
RecurringKeepsFiring ==
    \A c \in Chains : Kind[c] = "recurring" =>
        (c \in registered ~>
            (c \in broken \/ \E w \in Workers : pc[w] = "executing" /\ events[cur[w]].chain = c))

=============================================================================
