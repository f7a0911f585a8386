------------------------- MODULE BackgroundTasksProofs -------------------------
(***************************************************************************)
(* Proofs about BackgroundTasks for any clients, worker slots and number    *)
(* of restarts.                                                             *)
(*                                                                          *)
(* The types need Tries (a worker that is still there has not used up its   *)
(* attempts) and Placed (a client that acts on a worker has one).  The      *)
(* record is truthful because a client that will write Stopped has told its *)
(* worker to stop (Told); that survives the reuse of a slot because a slot  *)
(* a client refers to is not free.  NoOrphan needs that, while no two       *)
(* starts have raced, there is one start at a time (OneStart) and nothing   *)
(* between its check and its insertion makes the worker in the table one    *)
(* that goes on by itself (Quiet).                                          *)
(***************************************************************************)
EXTENDS BackgroundTasks, TLAPS

\* Where a client acts on a worker.
Acting == {"spawned", "signalled"} \cup Marked

\* A live worker has attempts left.
Tries == \A w \in Workers : Live(w) => attempts[w] <= MaxRestarts

\* A client that acts has a worker to act on.
Placed == \A c \in Clients : client[c].at \in Acting => client[c].task \in Workers

\* A worker whose client is past the signal has been told to stop.
Told == \A c \in Clients :
    client[c].at \in {"signalled"} \cup Marked => stop[client[c].task]

\* The inductive invariant of the manager with any number of clients.
Managed ==
    /\ TypeOK /\ Tries /\ Placed /\ Told
    /\ StoppingHasStopper /\ RecordTellsTheTruth

\* A worker that goes on by itself.
Goes(w) == Live(w) /\ ~stop[w]

\* A client of start_task between its check and its insertion.
Starting(c) == client[c].at \in {"checked", "spawned"}

\* As long as no starts raced, one client starts.
OneStart == ~raced => \A c, d \in Clients : Starting(c) /\ Starting(d) => c = d

\* As long as no starts raced, the worker a start replaces does not go on by itself.
Quiet == ~raced => \A c \in Clients : Starting(c) /\ table # NoWorker => ~Goes(table)

\* An empty table satisfies the invariant.
LEMMA InitManaged == Init => Managed
<1>1. Init => raced \in BOOLEAN
  BY Zenon DEF Init
<1> QED
  BY <1>1, RestartsAssumption DEF Init, Managed, TypeOK, Tries, Placed, Told, StoppingHasStopper,
     RecordTellsTheTruth, Live, Mine, Idle, Acting, Marked, Statuses, Final, Stages, ClientState

-----------------------------------------------------------------------------
(* Types *)

\* Every step keeps table, records and clients in their types.
LEMMA TypeStep == Managed /\ [Next]_vars => TypeOK' /\ Tries' /\ Placed'
<1> DEFINE Goal == TypeOK' /\ Tries' /\ Placed'
<1> SUFFICES ASSUME Managed, [Next]_vars PROVE Goal
  OBVIOUS
<1> USE RestartsAssumption
    DEF Managed, TypeOK, Tries, Placed, Acting, Marked, Live, ClientState, Stages, Statuses, Final
<1>1. ASSUME NEW c \in Clients, Check(c) PROVE Goal
  BY <1>1 DEF Check, Idle
<1>2. ASSUME NEW c \in Clients, RestartRefused(c) PROVE Goal
  BY <1>2 DEF RestartRefused, Idle
<1>3. ASSUME NEW c \in Clients, NEW w \in Workers, Spawn(c, w) PROVE Goal
  BY <1>3 DEF Spawn
<1>4. ASSUME NEW c \in Clients, Insert(c) PROVE Goal
  BY <1>4 DEF Insert, Idle
<1>5. ASSUME NEW c \in Clients, BeginRestart(c) PROVE Goal
  BY <1>5 DEF BeginRestart, Moves
<1>6. ASSUME NEW c \in Clients, Signal(c) PROVE Goal
  BY <1>6 DEF Signal
<1>7. ASSUME NEW c \in Clients, MarkStopping(c) PROVE Goal
  BY <1>7 DEF MarkStopping, Moves
<1>8. ASSUME NEW c \in Clients, TakeJoin(c) PROVE Goal
  BY <1>8 DEF TakeJoin, Moves
<1>9. ASSUME NEW c \in Clients, WaitEnds(c) PROVE Goal
  BY <1>9 DEF WaitEnds, Moves
<1>10. ASSUME NEW c \in Clients, FinishStop(c) PROVE Goal
  BY <1>10 DEF FinishStop, AfterStop, Idle
<1>11. ASSUME NEW w \in Workers, ObserveStop(w) PROVE Goal
  BY <1>11 DEF ObserveStop, Ends
<1>12. ASSUME NEW w \in Workers, RunCommand(w) PROVE Goal
  BY <1>12 DEF RunCommand
<1>13. ASSUME NEW w \in Workers, CommandSucceeds(w) PROVE Goal
  BY <1>13 DEF CommandSucceeds, Ends
<1>14. ASSUME NEW w \in Workers, CommandFails(w) PROVE Goal
  BY <1>14 DEF CommandFails, Ends
<1>15. ASSUME UNCHANGED vars PROVE Goal
  BY <1>15 DEF vars
<1> QED
  BY <1>1, <1>2, <1>3, <1>4, <1>5, <1>6, <1>7, <1>8, <1>9, <1>10, <1>11, <1>12, <1>13,
     <1>14, <1>15 DEF Next, Serves, Works

-----------------------------------------------------------------------------
(* Stoppers and records *)

\* Every step keeps the stop signals where clients rely on them.
LEMMA ToldStep == Managed /\ [Next]_vars => Told'
<1> SUFFICES ASSUME Managed, [Next]_vars PROVE Told'
  OBVIOUS
<1> USE DEF Managed, TypeOK, Placed, Acting, Told, Marked, ClientState
<1>1. ASSUME NEW c \in Clients, NEW w \in Workers, Spawn(c, w) PROVE Told'
  BY <1>1 DEF Spawn, Free, Mine
<1>2. ASSUME NEW c \in Clients, Signal(c) PROVE Told'
  BY <1>2 DEF Signal
<1>3. ASSUME NEW c \in Clients, Check(c) \/ RestartRefused(c) \/ Insert(c) PROVE Told'
  BY <1>3 DEF Check, RestartRefused, Insert, Idle
<1>4. ASSUME NEW c \in Clients, BeginRestart(c) PROVE Told'
  BY <1>4 DEF BeginRestart, Moves
<1>5. ASSUME NEW c \in Clients, MarkStopping(c) \/ TakeJoin(c) \/ WaitEnds(c) PROVE Told'
  BY <1>5 DEF MarkStopping, TakeJoin, WaitEnds, Moves
<1>6. ASSUME NEW c \in Clients, FinishStop(c) PROVE Told'
  BY <1>6 DEF FinishStop, AfterStop, Idle
<1>7. ASSUME NEW w \in Workers, Works(w) PROVE Told'
  BY <1>7 DEF Works, ObserveStop, RunCommand, CommandSucceeds, CommandFails
<1>8. ASSUME UNCHANGED vars PROVE Told'
  BY <1>8 DEF vars
<1> QED
  BY <1>1, <1>2, <1>3, <1>4, <1>5, <1>6, <1>7, <1>8 DEF Next, Serves

\* Every step keeps a stopper with each record at Stopping.
LEMMA StopperStep == Managed /\ [Next]_vars => StoppingHasStopper'
<1> SUFFICES ASSUME Managed, [Next]_vars PROVE StoppingHasStopper'
  OBVIOUS
<1> USE DEF Managed, TypeOK, Placed, Acting, StoppingHasStopper, Mine, Marked, ClientState
<1>1. ASSUME NEW c \in Clients, NEW w \in Workers, Spawn(c, w) PROVE StoppingHasStopper'
  BY <1>1 DEF Spawn
<1>2. ASSUME NEW c \in Clients, Signal(c) PROVE StoppingHasStopper'
  BY <1>2 DEF Signal
<1>3. ASSUME NEW c \in Clients, Check(c) \/ RestartRefused(c) \/ Insert(c)
      PROVE  StoppingHasStopper'
  BY <1>3 DEF Check, RestartRefused, Insert, Idle
<1>4. ASSUME NEW c \in Clients, BeginRestart(c) PROVE StoppingHasStopper'
  BY <1>4 DEF BeginRestart, Moves
<1>5. ASSUME NEW c \in Clients, MarkStopping(c) PROVE StoppingHasStopper'
  BY <1>5 DEF MarkStopping, Moves
<1>6. ASSUME NEW c \in Clients, TakeJoin(c) \/ WaitEnds(c) PROVE StoppingHasStopper'
  BY <1>6 DEF TakeJoin, WaitEnds, Moves
<1>7. ASSUME NEW c \in Clients, FinishStop(c) PROVE StoppingHasStopper'
  BY <1>7 DEF FinishStop, AfterStop, Idle
<1>8. ASSUME NEW w \in Workers, ObserveStop(w) \/ CommandSucceeds(w)
      PROVE  StoppingHasStopper'
  BY <1>8 DEF ObserveStop, CommandSucceeds, Ends
<1>9. ASSUME NEW w \in Workers, RunCommand(w) \/ CommandFails(w) PROVE StoppingHasStopper'
  BY <1>9 DEF RunCommand, CommandFails, Ends
<1>10. ASSUME UNCHANGED vars PROVE StoppingHasStopper'
  BY <1>10 DEF vars
<1> QED
  BY <1>1, <1>2, <1>3, <1>4, <1>5, <1>6, <1>7, <1>8, <1>9, <1>10 DEF Next, Serves, Works

\* Every step keeps the records truthful.
LEMMA TruthStep == Managed /\ [Next]_vars => RecordTellsTheTruth'
<1> SUFFICES ASSUME Managed, [Next]_vars PROVE RecordTellsTheTruth'
  OBVIOUS
<1> USE DEF Managed, TypeOK, Placed, Acting, Marked, RecordTellsTheTruth, Live, Final
<1>1. ASSUME NEW c \in Clients, NEW w \in Workers, Spawn(c, w) PROVE RecordTellsTheTruth'
  BY <1>1 DEF Spawn
<1>2. ASSUME NEW c \in Clients, Signal(c) PROVE RecordTellsTheTruth'
  BY <1>2 DEF Signal
<1>3. ASSUME NEW c \in Clients,
             \/ Check(c) \/ RestartRefused(c) \/ Insert(c) \/ BeginRestart(c)
             \/ TakeJoin(c) \/ WaitEnds(c)
      PROVE  RecordTellsTheTruth'
  BY <1>3 DEF Check, RestartRefused, Insert, BeginRestart, TakeJoin, WaitEnds
<1>4. ASSUME NEW c \in Clients, MarkStopping(c) PROVE RecordTellsTheTruth'
  BY <1>4 DEF MarkStopping
<1>5. ASSUME NEW c \in Clients, FinishStop(c) PROVE RecordTellsTheTruth'
  BY <1>5 DEF FinishStop, Told
<1>6. ASSUME NEW w \in Workers, ObserveStop(w) \/ CommandSucceeds(w)
      PROVE  RecordTellsTheTruth'
  BY <1>6 DEF ObserveStop, CommandSucceeds, Ends
<1>7. ASSUME NEW w \in Workers, RunCommand(w) \/ CommandFails(w) PROVE RecordTellsTheTruth'
  BY <1>7 DEF RunCommand, CommandFails, Ends
<1>8. ASSUME UNCHANGED vars PROVE RecordTellsTheTruth'
  BY <1>8 DEF vars
<1> QED
  BY <1>1, <1>2, <1>3, <1>4, <1>5, <1>6, <1>7, <1>8 DEF Next, Serves, Works

\* Every step preserves the invariant.
LEMMA ManagedStep == Managed /\ [Next]_vars => Managed'
  BY TypeStep, ToldStep, StopperStep, TruthStep DEF Managed

\* The manager keeps Managed, whatever clients and commands do.
LEMMA AlwaysManaged == Spec => []Managed
  BY InitManaged, ManagedStep, PTL DEF Spec

-----------------------------------------------------------------------------
(* The state of the manager (table, records, handles, clients) keeps its    *)
(* types, and no worker tries its command more than max_restarts + 1 times. *)
THEOREM ManagerTypes == Spec => []TypeOK
<1>1. Managed => TypeOK
  BY DEF Managed
<1> QED
  BY <1>1, AlwaysManaged, PTL

(* A record that says Stopping has a client of stop_task that will write it *)
(* again.                                                                   *)
THEOREM StoppingIsTemporary == Spec => []StoppingHasStopper
<1>1. Managed => StoppingHasStopper
  BY DEF Managed
<1> QED
  BY <1>1, AlwaysManaged, PTL

(* A record is Running only with its worker there, and final with its       *)
(* worker there only if stop_task has told that worker to stop.             *)
THEOREM RecordsAreTruthful == Spec => []RecordTellsTheTruth
<1>1. Managed => RecordTellsTheTruth
  BY DEF Managed
<1> QED
  BY <1>1, AlwaysManaged, PTL

(* Both together: whichever of stop_task and the worker writes a record     *)
(* last, it is not left at Stopping and says of its worker what is so.      *)
THEOREM RecordsKept == Spec => []RecordHeld
<1>1. StoppingHasStopper /\ RecordTellsTheTruth => RecordHeld
  BY DEF RecordHeld
<1> QED
  BY <1>1, StoppingIsTemporary, RecordsAreTruthful, PTL

-----------------------------------------------------------------------------
(* Starts that do not race *)

\* Nothing runs at the start.
LEMMA InitOrphan == Init => NoOrphan /\ Quiet /\ OneStart
  BY DEF Init, NoOrphan, Quiet, OneStart, Starting, Live, Idle

\* A second start makes a race.
LEMMA OneStartStep == Managed /\ OneStart /\ [Next]_vars => OneStart'
<1> SUFFICES ASSUME Managed, OneStart, [Next]_vars PROVE OneStart'
  OBVIOUS
<1> USE DEF Managed, TypeOK, OneStart, Starting, ClientState
<1>1. ASSUME NEW c \in Clients, Check(c) PROVE OneStart'
  BY <1>1 DEF Check, Idle
<1>2. ASSUME NEW c \in Clients, NEW w \in Workers, Spawn(c, w) PROVE OneStart'
  BY <1>2 DEF Spawn
<1>3. ASSUME NEW c \in Clients, Insert(c) \/ RestartRefused(c) PROVE OneStart'
  BY <1>3 DEF Insert, RestartRefused, Idle
<1>4. ASSUME NEW c \in Clients, Signal(c) PROVE OneStart'
  BY <1>4 DEF Signal
<1>5. ASSUME NEW c \in Clients,
             BeginRestart(c) \/ MarkStopping(c) \/ TakeJoin(c) \/ WaitEnds(c)
      PROVE  OneStart'
  BY <1>5 DEF BeginRestart, MarkStopping, TakeJoin, WaitEnds, Moves
<1>6. ASSUME NEW c \in Clients, FinishStop(c) PROVE OneStart'
  BY <1>6 DEF FinishStop, AfterStop, Idle
<1>7. ASSUME NEW w \in Workers, Works(w) PROVE OneStart'
  BY <1>7 DEF Works, ObserveStop, RunCommand, CommandSucceeds, CommandFails
<1>8. ASSUME UNCHANGED vars PROVE OneStart'
  BY <1>8 DEF vars
<1> QED
  BY <1>1, <1>2, <1>3, <1>4, <1>5, <1>6, <1>7, <1>8 DEF Next, Serves

\* No worker in the table comes to go on by itself during a start.
LEMMA QuietStep ==
  ASSUME Managed, OneStart, NoOrphan, Quiet, [Next]_vars
  PROVE  Quiet'
<1> USE DEF Managed, TypeOK, OneStart, Starting, Quiet, Goes, Live, ClientState
<1>1. ASSUME NEW c \in Clients, Check(c) PROVE Quiet'
  <2>1. table # NoWorker => ~Goes(table)
    BY <1>1 DEF Check, NotRunning, RecordTellsTheTruth, Statuses
  <2> QED
    BY <1>1, <2>1 DEF Check
<1>2. ASSUME NEW c \in Clients, NEW w \in Workers, Spawn(c, w) PROVE Quiet'
  BY <1>2 DEF Spawn, Free
<1>3. ASSUME NEW c \in Clients, Insert(c) \/ RestartRefused(c) PROVE Quiet'
  BY <1>3 DEF Insert, RestartRefused, Idle
<1>4. ASSUME NEW c \in Clients, Signal(c) PROVE Quiet'
  BY <1>4 DEF Signal
<1>5. ASSUME NEW c \in Clients,
             BeginRestart(c) \/ MarkStopping(c) \/ TakeJoin(c) \/ WaitEnds(c)
      PROVE  Quiet'
  BY <1>5 DEF BeginRestart, MarkStopping, TakeJoin, WaitEnds, Moves
<1>6. ASSUME NEW c \in Clients, FinishStop(c) PROVE Quiet'
  BY <1>6 DEF FinishStop, AfterStop, Idle
<1>7. ASSUME NEW w \in Workers, ObserveStop(w) \/ CommandSucceeds(w) PROVE Quiet'
  BY <1>7 DEF ObserveStop, CommandSucceeds, Ends
<1>8. ASSUME NEW w \in Workers, RunCommand(w) \/ CommandFails(w) PROVE Quiet'
  BY <1>8 DEF RunCommand, CommandFails, Ends
<1>9. ASSUME UNCHANGED vars PROVE Quiet'
  BY <1>9 DEF vars
<1> QED
  BY <1>1, <1>2, <1>3, <1>4, <1>5, <1>6, <1>7, <1>8, <1>9 DEF Next, Serves, Works

\* Every step leaves what runs within the reach of stop_task.
LEMMA OrphanStep ==
  ASSUME Managed, OneStart, NoOrphan, Quiet, [Next]_vars
  PROVE  NoOrphan'
<1> USE DEF Managed, TypeOK, Placed, Acting, NoOrphan, Live, Mine, ClientState
<1>1. ASSUME NEW c \in Clients, Check(c) \/ RestartRefused(c) PROVE NoOrphan'
  BY <1>1 DEF Check, RestartRefused, Idle
<1>2. ASSUME NEW c \in Clients, NEW w \in Workers, Spawn(c, w) PROVE NoOrphan'
  BY <1>2 DEF Spawn
<1>3. ASSUME NEW c \in Clients, Insert(c) PROVE NoOrphan'
  <2> SUFFICES ASSUME ~raced, NEW w \in Workers, Live(w), ~stop[w], w # client[c].task
               PROVE  FALSE
    BY <1>3 DEF Insert
  <2>1. table = w
    BY <1>3 DEF Insert, OneStart, Starting
  <2>2. table # NoWorker /\ Goes(table)
    BY <2>1, NoWorkerAssumption DEF Goes
  <2> QED
    BY <1>3, <2>2 DEF Insert, Quiet, Starting
<1>4. ASSUME NEW c \in Clients, Signal(c) PROVE NoOrphan'
  BY <1>4 DEF Signal
<1>5. ASSUME NEW c \in Clients,
             BeginRestart(c) \/ MarkStopping(c) \/ TakeJoin(c) \/ WaitEnds(c)
      PROVE  NoOrphan'
  BY <1>5 DEF BeginRestart, MarkStopping, TakeJoin, WaitEnds, Moves
<1>6. ASSUME NEW c \in Clients, FinishStop(c) PROVE NoOrphan'
  BY <1>6 DEF FinishStop, AfterStop, Idle
<1>7. ASSUME NEW w \in Workers, ObserveStop(w) \/ CommandSucceeds(w) PROVE NoOrphan'
  BY <1>7 DEF ObserveStop, CommandSucceeds, Ends
<1>8. ASSUME NEW w \in Workers, RunCommand(w) \/ CommandFails(w) PROVE NoOrphan'
  BY <1>8 DEF RunCommand, CommandFails, Ends
<1>9. ASSUME UNCHANGED vars PROVE NoOrphan'
  BY <1>9 DEF vars
<1> QED
  BY <1>1, <1>2, <1>3, <1>4, <1>5, <1>6, <1>7, <1>8, <1>9 DEF Next, Serves, Works

(* As long as no two starts race from their checks to their insertions,     *)
(* every worker that goes on by itself is the one in the table, or the one  *)
(* its start is about to insert: whatever stops and restarts interleave,    *)
(* start_*_task and restart_task leave nothing running that stop_task       *)
(* cannot reach.                                                            *)
THEOREM StartsThatDoNotRaceLeaveNoOrphan == Spec => []NoOrphan
<1>1. Init => NoOrphan /\ Quiet /\ OneStart
  BY InitOrphan
<1>2. Managed /\ NoOrphan /\ Quiet /\ OneStart /\ [Next]_vars
        => (NoOrphan /\ Quiet /\ OneStart)'
  BY OneStartStep, QuietStep, OrphanStep
<1> QED
  BY <1>1, <1>2, AlwaysManaged, PTL DEF Spec

-----------------------------------------------------------------------------
(* Why every stop returns *)

(* A join lock that is held is held by a client whose wait ends by itself.   *)
JoinHasWaiter ==
    \A w \in Workers : join[w] = "awaited" =>
        \E c \in Clients : client[c].at = "waiting" /\ Mine(c, w)

(* The steps of a stop that has begun, in their order.                       *)
StopSteps ==
    {<<"signalled", "marked">>, <<"marked", "waiting">>, <<"marked", "joined">>,
     <<"waiting", "joined">>, <<"joined", "idle">>, <<"joined", "restarting">>}

(* Whoever steps, a client inside a stop stays where it is or goes on.       *)
StopAdvances ==
    \A c \in Clients : client[c].at \in Marked \cup {"signalled"} =>
        client'[c] = client[c] \/ <<client[c].at, client'[c].at>> \in StopSteps

(* The join lock is taken by the client that begins to wait, and released    *)
(* by the one that stops waiting.                                            *)
LEMMA WaiterStep == Managed /\ JoinHasWaiter /\ [Next]_vars => JoinHasWaiter'
<1> SUFFICES ASSUME Managed, JoinHasWaiter, [Next]_vars PROVE JoinHasWaiter'
  OBVIOUS
<1>t. /\ client \in [Clients -> ClientState] /\ join \in [Workers -> {"there", "awaited", "taken"}]
  BY DEF Managed, TypeOK
<1>0. ASSUME NEW c \in Clients, client[c].at # "waiting", join' = join,
             \A d \in Clients : d # c => client'[d] = client[d]
      PROVE  JoinHasWaiter'
  BY <1>0 DEF JoinHasWaiter, Mine
<1>1. ASSUME NEW c \in Clients,
             Check(c) \/ RestartRefused(c) \/ Insert(c) \/ BeginRestart(c) \/ Signal(c)
             \/ MarkStopping(c) \/ FinishStop(c)
      PROVE  JoinHasWaiter'
  <2>1. /\ client[c].at # "waiting" /\ join' = join
        /\ \A d \in Clients : d # c => client'[d] = client[d]
    BY <1>t, <1>1 DEF Check, RestartRefused, Insert, BeginRestart, Signal, MarkStopping,
                      FinishStop, Moves, AfterStop
  <2> QED
    BY <1>0, <2>1
<1>2. ASSUME NEW c \in Clients, NEW v \in Workers, Spawn(c, v) PROVE JoinHasWaiter'
  <2>1. /\ client[c].at # "waiting" /\ join' = [join EXCEPT ![v] = "there"]
        /\ \A d \in Clients : d # c => client'[d] = client[d]
    BY <1>t, <1>2 DEF Spawn
  <2> QED
    BY <1>t, <2>1 DEF JoinHasWaiter, Mine
<1>3. ASSUME NEW c \in Clients, TakeJoin(c) PROVE JoinHasWaiter'
  <2> DEFINE v == client[c].task
  <2>1. client[c].at = "marked" /\ v \in Workers
    BY <1>3 DEF TakeJoin, Managed, Placed, Acting, Marked
  <2>2. \A d \in Clients : d # c => client'[d] = client[d]
    BY <1>t, <1>3 DEF TakeJoin, Moves
  <2>3. CASE join[v] = "there"
    <3>1. /\ join' = [join EXCEPT ![v] = "awaited"]
          /\ client' = [client EXCEPT ![c].at = "waiting"]
      BY <1>3, <2>3 DEF TakeJoin, Moves
    <3>2. client'[c].at = "waiting" /\ client'[c].task = v
      BY <1>t, <3>1 DEF ClientState
    <3> QED
      BY <1>t, <2>1, <2>2, <3>1, <3>2 DEF JoinHasWaiter, Mine
  <2>4. CASE join[v] # "there"
    <3>1. join' = join
      BY <1>3, <2>4 DEF TakeJoin
    <3> QED
      BY <1>0, <2>1, <2>2, <3>1
  <2> QED
    BY <2>3, <2>4
<1>4. ASSUME NEW c \in Clients, WaitEnds(c) PROVE JoinHasWaiter'
  <2>1. /\ join' = [join EXCEPT ![client[c].task] = "taken"]
        /\ \A d \in Clients : d # c => client'[d] = client[d]
    BY <1>t, <1>4 DEF WaitEnds, Moves
  <2>2. ASSUME NEW w \in Workers, join'[w] = "awaited"
        PROVE  \E d \in Clients : client'[d].at = "waiting" /\ client'[d].task = w
    <3>1. join[w] = "awaited" /\ w # client[c].task
      BY <1>t, <2>1, <2>2
    <3>2. PICK d \in Clients : client[d].at = "waiting" /\ client[d].task = w
      BY <3>1 DEF JoinHasWaiter, Mine
    <3> QED
      BY <2>1, <3>1, <3>2
  <2> QED
    BY <2>2 DEF JoinHasWaiter, Mine
<1>5. ASSUME NEW w \in Workers, Works(w) PROVE JoinHasWaiter'
  BY <1>5 DEF Works, ObserveStop, RunCommand, CommandSucceeds, CommandFails, JoinHasWaiter, Mine
<1>6. ASSUME UNCHANGED vars PROVE JoinHasWaiter'
  BY <1>6 DEF vars, JoinHasWaiter, Mine
<1> QED
  BY <1>1, <1>2, <1>3, <1>4, <1>5, <1>6 DEF Next, Serves

(* No step sets a stop back.                                                 *)
LEMMA AdvanceStep == Managed /\ [Next]_vars => StopAdvances
<1> SUFFICES ASSUME Managed, [Next]_vars PROVE StopAdvances
  OBVIOUS
<1>t. client \in [Clients -> ClientState]
  BY DEF Managed, TypeOK
<1>0. ASSUME NEW c \in Clients, \A d \in Clients : d # c => client'[d] = client[d],
             \/ client[c].at \notin Marked \cup {"signalled"}
             \/ <<client[c].at, client'[c].at>> \in StopSteps
      PROVE  StopAdvances
  BY <1>0 DEF StopAdvances
<1>1. ASSUME NEW c \in Clients,
             \/ Check(c) \/ RestartRefused(c) \/ Insert(c) \/ BeginRestart(c) \/ Signal(c)
             \/ \E w \in Workers : Spawn(c, w)
      PROVE  StopAdvances
  <2>1. /\ client[c].at \notin Marked \cup {"signalled"}
        /\ \A d \in Clients : d # c => client'[d] = client[d]
    BY <1>t, <1>1 DEF Check, RestartRefused, Insert, BeginRestart, Signal, Spawn, Moves, Marked
  <2> QED
    BY <1>0, <2>1
<1>2. ASSUME NEW c \in Clients, MarkStopping(c) \/ TakeJoin(c) \/ WaitEnds(c)
      PROVE  StopAdvances
  <2>1. \E s : /\ client' = [client EXCEPT ![c].at = s]
               /\ <<client[c].at, s>> \in StopSteps
    BY <1>2 DEF MarkStopping, TakeJoin, WaitEnds, Moves, StopSteps
  <2>2. PICK s : /\ client' = [client EXCEPT ![c].at = s]
                 /\ <<client[c].at, s>> \in StopSteps
    BY <2>1
  <2>3. client'[c].at = s /\ \A d \in Clients : d # c => client'[d] = client[d]
    BY <1>t, <2>2 DEF ClientState
  <2> QED
    BY <1>0, <2>2, <2>3
<1>3. ASSUME NEW c \in Clients, FinishStop(c) PROVE StopAdvances
  <2>1. client[c].at = "joined" /\ client'[c].at \in {"idle", "restarting"}
    BY <1>t, <1>3 DEF FinishStop, AfterStop, Idle, ClientState
  <2>2. \A d \in Clients : d # c => client'[d] = client[d]
    BY <1>t, <1>3 DEF FinishStop, AfterStop
  <2>3. <<client[c].at, client'[c].at>> \in StopSteps
    BY <2>1 DEF StopSteps
  <2> QED
    BY <1>0, <2>2, <2>3
<1>4. ASSUME NEW w \in Workers, Works(w) PROVE StopAdvances
  BY <1>4 DEF Works, ObserveStop, RunCommand, CommandSucceeds, CommandFails, StopAdvances
<1>5. ASSUME UNCHANGED vars PROVE StopAdvances
  BY <1>5 DEF vars, StopAdvances
<1> QED
  BY <1>1, <1>2, <1>3, <1>4, <1>5 DEF Next, Serves

(* What StopReturns rests on, for any clients and workers: nothing sets a    *)
(* stop_task back, it takes at most four steps of its own, and when it waits *)
(* for the join lock another stop of the task holds it inside its bounded    *)
(* wait.                                                                     *)
THEOREM StopsOnlyAdvance == Spec => [][StopAdvances]_vars /\ []JoinHasWaiter
<1>1. Init => JoinHasWaiter
  BY DEF Init, JoinHasWaiter
<1>2. Managed /\ JoinHasWaiter /\ [Next]_vars => JoinHasWaiter'
  BY WaiterStep
<1>3. Managed /\ [Next]_vars => [StopAdvances]_vars
  BY AdvanceStep
<1> QED
  BY <1>1, <1>2, <1>3, AlwaysManaged, PTL DEF Spec
=============================================================================
