---------------------------- MODULE BackgroundTasks ----------------------------
(***************************************************************************)
(* The background task manager (src/services/background_tasks.rs): one     *)
(* task name, its entry in the table of handles, the records and workers   *)
(* behind the handles, and clients that start, stop and restart the task   *)
(* at the same time.                                                       *)
(*                                                                         *)
(* A step ends where the code awaits something another step can change:    *)
(* the table lock, the record lock, the join lock, the command.  A worker  *)
(* holds the record's write lock from its first assignment to the end of   *)
(* the log line it appends, so what it writes is one step.                 *)
(*                                                                         *)
(* A worker and its record are one member of Workers; a member is used     *)
(* again once its worker has ended and neither table nor client refers to  *)
(* it.                                                                     *)
(***************************************************************************)
EXTENDS Naturals

CONSTANTS
    Clients,        \* concurrent callers of the manager
    Workers,        \* worker slots: bounds the workers referred to at one time
    NoWorker,       \* no entry in the table
    MaxRestarts     \* the max_restarts every start passes

ASSUME RestartsAssumption == MaxRestarts \in Nat
ASSUME NoWorkerAssumption == NoWorker \notin Workers

VARIABLES
    table,      \* the worker whose handle is in `tasks`
    status,     \* record.status of each worker
    attempts,   \* the worker's attempts, and record.restart_count
    stop,       \* the value last sent on stop_tx
    join,       \* the handle's join: still there, awaited under its lock, taken
    worker,     \* where each spawned worker is
    client,     \* where each client is, on which worker, and for a restart or not
    raced       \* history: a start passed its check while another one was
                \* between its check and its insertion

vars == <<table, status, attempts, stop, join, worker, client, raced>>

Final == {"Completed", "Failed", "Stopped"}

Statuses == Final \cup {"Running", "Stopping"}

Stages == {"idle", "read", "checked", "spawned", "signalled", "marked",
           "waiting", "joined", "restarting"}

\* The part of stop_task in which the record may say Stopping.
Marked == {"marked", "waiting", "joined"}

Live(w) == worker[w] # "ended"

-----------------------------------------------------------------------------
Idle == [at |-> "idle", task |-> NoWorker, restart |-> FALSE]

Init ==
    /\ table = NoWorker
    /\ status = [w \in Workers |-> "Stopped"]
    /\ attempts = [w \in Workers |-> 0]
    /\ stop = [w \in Workers |-> FALSE]
    /\ join = [w \in Workers |-> "taken"]
    /\ worker = [w \in Workers |-> "ended"]
    /\ client = [c \in Clients |-> Idle]
    /\ raced = FALSE

Moves(c, stage) == client' = [client EXCEPT ![c].at = stage]

\* Forgets that a task being stopped is not startable.
NotRunningStopping == table # NoWorker => status[table] # "Stopping"

\* ensure_not_running accepts: there is no entry, or its record is final.
NotRunning == table # NoWorker => status[table] \notin {"Running", "Stopping"}

Mine(c, w) == client[c].task = w

Free(w) == ~Live(w) /\ table # w /\ \A c \in Clients : ~Mine(c, w)

-----------------------------------------------------------------------------
(* start_shell_task and start_agent_task *)

\* The check is done under the table's read lock, which is released again.
Check(c) ==
    /\ client[c].at \in {"idle", "restarting"}
    /\ NotRunning
    /\ client' = [client EXCEPT ![c] = [Idle EXCEPT !.at = "checked"]]
    /\ raced' = (raced \/ \E d \in Clients \ {c} : client[d].at \in {"checked", "spawned"})
    /\ UNCHANGED <<table, status, attempts, stop, join, worker>>

\* The start at the end of a restart finds the task running again.
RestartRefused(c) ==
    /\ client[c].at = "restarting"
    /\ ~NotRunning
    /\ client' = [client EXCEPT ![c] = Idle]
    /\ UNCHANGED <<table, status, attempts, stop, join, worker, raced>>

Spawn(c, w) ==
    /\ client[c].at = "checked"
    /\ Free(w)
    /\ status' = [status EXCEPT ![w] = "Running"]
    /\ attempts' = [attempts EXCEPT ![w] = 0]
    /\ stop' = [stop EXCEPT ![w] = FALSE]
    /\ join' = [join EXCEPT ![w] = "there"]
    /\ worker' = [worker EXCEPT ![w] = "top"]
    /\ client' = [client EXCEPT ![c] = [at |-> "spawned", task |-> w, restart |-> FALSE]]
    /\ UNCHANGED <<table, raced>>

\* The new handle replaces the one in the table, whoever put that there.
Insert(c) ==
    /\ client[c].at = "spawned"
    /\ table' = client[c].task
    /\ client' = [client EXCEPT ![c] = Idle]
    /\ UNCHANGED <<status, attempts, stop, join, worker, raced>>

-----------------------------------------------------------------------------
(* stop_task, alone or inside restart_task *)

\* restart_task reads what to start again before it stops the task.
BeginRestart(c) ==
    /\ client[c].at = "idle"
    /\ table # NoWorker
    /\ Moves(c, "read")
    /\ UNCHANGED <<table, status, attempts, stop, join, worker, raced>>

\* Does not tell the worker.
SignalNobody(c) ==
    /\ client[c].at \in {"idle", "read"}
    /\ table # NoWorker
    /\ client' = [client EXCEPT ![c] =
            [at |-> "signalled", task |-> table, restart |-> client[c].at = "read"]]
    /\ UNCHANGED <<table, status, attempts, stop, join, worker, raced>>

Signal(c) ==
    /\ client[c].at \in {"idle", "read"}
    /\ table # NoWorker
    /\ stop' = [stop EXCEPT ![table] = TRUE]
    /\ client' = [client EXCEPT ![c] =
            [at |-> "signalled", task |-> table, restart |-> client[c].at = "read"]]
    /\ UNCHANGED <<table, status, attempts, join, worker, raced>>

\* Whatever the record says by now, Completed included.
MarkStopping(c) ==
    /\ client[c].at = "signalled"
    /\ status' = [status EXCEPT ![client[c].task] = "Stopping"]
    /\ Moves(c, "marked")
    /\ UNCHANGED <<table, attempts, stop, join, worker, raced>>

\* The first client takes the join handle and keeps the join lock while it
\* awaits it; a later one waits for the lock and finds the handle taken.
TakeJoin(c) ==
    /\ client[c].at = "marked"
    /\ join[client[c].task] # "awaited"
    /\ IF join[client[c].task] = "there"
         THEN /\ join' = [join EXCEPT ![client[c].task] = "awaited"]
              /\ Moves(c, "waiting")
         ELSE /\ Moves(c, "joined")
              /\ UNCHANGED join
    /\ UNCHANGED <<table, status, attempts, stop, worker, raced>>

\* Waits for the worker with no timeout.
WaitEndsUntimed(c) ==
    /\ client[c].at = "waiting"
    /\ ~Live(client[c].task)
    /\ join' = [join EXCEPT ![client[c].task] = "taken"]
    /\ Moves(c, "joined")
    /\ UNCHANGED <<table, status, attempts, stop, worker, raced>>

\* The worker has ended or two seconds have passed; in the second case the
\* dropped join handle leaves the worker running.
WaitEnds(c) ==
    /\ client[c].at = "waiting"
    /\ join' = [join EXCEPT ![client[c].task] = "taken"]
    /\ Moves(c, "joined")
    /\ UNCHANGED <<table, status, attempts, stop, worker, raced>>

\* What follows the stop: the return, or the rest of restart_task.
AfterStop(c) ==
    client' = [client EXCEPT ![c] =
        IF @.restart THEN [Idle EXCEPT !.at = "restarting"] ELSE Idle]

FinishStop(c) ==
    /\ client[c].at = "joined"
    /\ status' = [status EXCEPT ![client[c].task] = IF @ = "Stopping" THEN "Stopped" ELSE @]
    /\ AfterStop(c)
    /\ UNCHANGED <<table, attempts, stop, join, worker, raced>>

-----------------------------------------------------------------------------
(* The spawned worker *)

Ends(w, final) ==
    /\ status' = [status EXCEPT ![w] = final]
    /\ worker' = [worker EXCEPT ![w] = "ended"]

ObserveStop(w) ==
    /\ worker[w] = "top"
    /\ stop[w]
    /\ Ends(w, "Stopped")
    /\ UNCHANGED <<table, attempts, stop, join, client, raced>>

RunCommand(w) ==
    /\ worker[w] = "top"
    /\ ~stop[w]
    /\ worker' = [worker EXCEPT ![w] = "command"]
    /\ UNCHANGED <<table, status, attempts, stop, join, client, raced>>

CommandSucceeds(w) ==
    /\ worker[w] = "command"
    /\ Ends(w, "Completed")
    /\ UNCHANGED <<table, attempts, stop, join, client, raced>>

CommandFails(w) ==
    /\ worker[w] = "command"
    /\ attempts' = [attempts EXCEPT ![w] = @ + 1]
    /\ IF attempts[w] + 1 > MaxRestarts
         THEN Ends(w, "Failed")
         ELSE /\ worker' = [worker EXCEPT ![w] = "top"]
              /\ UNCHANGED status
    /\ UNCHANGED <<table, stop, join, client, raced>>

-----------------------------------------------------------------------------
Serves(c) ==
    \/ Check(c) \/ RestartRefused(c) \/ Insert(c)
    \/ \E w \in Workers : Spawn(c, w)
    \/ BeginRestart(c) \/ Signal(c) \/ MarkStopping(c) \/ TakeJoin(c)
    \/ WaitEnds(c) \/ FinishStop(c)

Works(w) ==
    \/ ObserveStop(w) \/ RunCommand(w) \/ CommandSucceeds(w) \/ CommandFails(w)

Next ==
    \/ \E c \in Clients : Serves(c)
    \/ \E w \in Workers : Works(w)

Spec == Init /\ [][Next]_vars

(***************************************************************************)
(* A stop that has begun is polled to its end: the locks it waits for are  *)
(* released and the timeout fires.  Nothing is assumed of the command,     *)
(* which has no timeout, and so nothing of the worker.                     *)
(***************************************************************************)
StopGoesOn(c) == MarkStopping(c) \/ TakeJoin(c) \/ WaitEnds(c) \/ FinishStop(c)

FairSpec == Spec /\ \A c \in Clients : WF_vars(StopGoesOn(c))

-----------------------------------------------------------------------------
ClientState ==
    [at: Stages, task: Workers \cup {NoWorker}, restart: BOOLEAN]

\* The types of the state; a task is tried at most max_restarts + 1 times.
TypeOK ==
    /\ table \in Workers \cup {NoWorker}
    /\ status \in [Workers -> Statuses]
    /\ attempts \in [Workers -> 0..(MaxRestarts + 1)]
    /\ stop \in [Workers -> BOOLEAN]
    /\ join \in [Workers -> {"there", "awaited", "taken"}]
    /\ worker \in [Workers -> {"top", "command", "ended"}]
    /\ client \in [Clients -> ClientState]
    /\ raced \in BOOLEAN

(***************************************************************************)
(* A task whose record says Stopping is being stopped by a client that     *)
(* will write the record again: the name never stays refused by            *)
(* ensure_not_running with nobody left to release it, also when several    *)
(* clients stop it, the worker ends before the mark, or the wait times     *)
(* out.                                                                    *)
(***************************************************************************)
StoppingHasStopper ==
    \A w \in Workers : status[w] = "Stopping" =>
        \E c \in Clients : client[c].at \in Marked /\ Mine(c, w)

(***************************************************************************)
(* What the record says of the worker: a worker that has ended is not      *)
(* reported Running, and one that is still there while its record is final *)
(* has been told to stop.  The second happens: the join timed out.         *)
(***************************************************************************)
RecordTellsTheTruth ==
    \A w \in Workers :
        /\ status[w] = "Running" => Live(w)
        /\ Live(w) /\ status[w] \in Final => stop[w]

(***************************************************************************)
(* The record of a task can be relied on: no stop leaves it at Stopping    *)
(* for good, and what it says of its worker is so, whichever of stop_task  *)
(* and the worker writes it last.                                          *)
(***************************************************************************)
RecordHeld == StoppingHasStopper /\ RecordTellsTheTruth

(***************************************************************************)
(* Every worker that will go on by itself can be stopped: it is the one in *)
(* the table or the one its start is about to put there, however starts,   *)
(* stops and restarts of several clients interleave, as long as no two     *)
(* starts race from their checks to their insertions.  When they do, the   *)
(* second insertion drops the only handle of the first worker.             *)
(***************************************************************************)
NoOrphan ==
    ~raced => \A w \in Workers : Live(w) /\ ~stop[w] =>
        \/ table = w
        \/ \E c \in Clients : client[c].at = "spawned" /\ Mine(c, w)

(***************************************************************************)
(* A stop returns, or goes on to the start of a restart, whatever the      *)
(* command does and however many clients stop the task at once.            *)
(***************************************************************************)
StopReturns ==
    \A c \in Clients :
        client[c].at \in Marked \cup {"signalled"} ~> client[c].at \in {"idle", "restarting"}
=============================================================================
