------------------------------ MODULE TaskOrder ------------------------------
(***************************************************************************)
(* topological_tasks (orchestration/mod.rs), which puts the tasks of a      *)
(* swarm in the order they are executed in: sweeps over what remains take   *)
(* out every task whose dependencies are satisfied; a sweep that takes out  *)
(* none appends the rest as it is.  The tasks are 1 .. Tasks, and a         *)
(* dependency may name a task that is not there.                            *)
(***************************************************************************)
EXTENDS Naturals, Sequences, SequencesExt

CONSTANT Tasks            \* number of tasks

ASSUME TasksAssumption == Tasks \in Nat

VARIABLES dependsOn,      \* depends_on of each task; 0 is a name nobody has
          remaining, ordered, satisfied,
          cursor,         \* `index`, from 1
          progressed,
          sorting         \* the outer loop has not ended

orderVars == <<dependsOn, remaining, ordered, satisfied, cursor, progressed, sorting>>

TaskSet == 1 .. Tasks

OrderInit ==
    /\ dependsOn \in [TaskSet -> SUBSET (0 .. Tasks)]
    /\ remaining = [i \in TaskSet |-> i]
    /\ ordered = <<>> /\ satisfied = {}
    /\ cursor = 1 /\ progressed = FALSE /\ sorting = TRUE

Ready(task) == dependsOn[task] \subseteq satisfied

\* Mutant: the task taken out never counts as satisfied.
TakeUnmarked ==
    /\ sorting /\ cursor <= Len(remaining) /\ Ready(remaining[cursor])
    /\ remaining' = RemoveAt(remaining, cursor)
    /\ ordered' = Append(ordered, remaining[cursor])
    /\ progressed' = TRUE
    /\ UNCHANGED <<dependsOn, satisfied, cursor, sorting>>

\* A ready task is taken out; the next one moves to the cursor.
Take ==
    /\ sorting /\ cursor <= Len(remaining) /\ Ready(remaining[cursor])
    /\ remaining' = RemoveAt(remaining, cursor)
    /\ satisfied' = satisfied \cup {remaining[cursor]}
    /\ ordered' = Append(ordered, remaining[cursor])
    /\ progressed' = TRUE
    /\ UNCHANGED <<dependsOn, cursor, sorting>>

SkipTask ==
    /\ sorting /\ cursor <= Len(remaining) /\ ~Ready(remaining[cursor])
    /\ cursor' = cursor + 1
    /\ UNCHANGED <<dependsOn, remaining, ordered, satisfied, progressed, sorting>>

\* Mutant: `progressed` is not reset for the next sweep.
EndSweepProgressed ==
    /\ sorting /\ cursor > Len(remaining)
    /\ sorting' = (progressed /\ remaining # <<>>)
    /\ ordered' = IF progressed THEN ordered ELSE ordered \o remaining
    /\ remaining' = IF progressed THEN remaining ELSE <<>>
    /\ cursor' = 1
    /\ UNCHANGED <<dependsOn, satisfied, progressed>>

\* The end of a sweep: the next one, or the end.
EndSweep ==
    /\ sorting /\ cursor > Len(remaining)
    /\ sorting' = (progressed /\ remaining # <<>>)
    /\ ordered' = IF progressed THEN ordered ELSE ordered \o remaining
    /\ remaining' = IF progressed THEN remaining ELSE <<>>
    /\ cursor' = 1 /\ progressed' = FALSE
    /\ UNCHANGED <<dependsOn, satisfied>>

OrderNext == Take \/ SkipTask \/ EndSweep

\* A loop that has been entered goes on.
OrderFairness == WF_orderVars(OrderNext)

OrderSpec == OrderInit /\ [][OrderNext]_orderVars /\ OrderFairness

-----------------------------------------------------------------------------
(* Properties. *)

\* Shapes; ordered and remaining are together the tasks, each once.
OrderTypeOK ==
    /\ ToSet(ordered) \cup ToSet(remaining) = TaskSet
    /\ Len(ordered) + Len(remaining) = Tasks
    /\ cursor \in 1 .. Len(remaining) + 1
    /\ satisfied \subseteq TaskSet /\ progressed \in BOOLEAN

\* The reference: the tasks that can ever run, the least set closed under "all
\* dependencies are in it".
Runnable ==
    CHOOSE S \in SUBSET TaskSet :
        /\ \A t \in TaskSet : t \in S <=> dependsOn[t] \subseteq S
        /\ \A R \in SUBSET TaskSet :
              (\A t \in TaskSet : t \in R <=> dependsOn[t] \subseteq R) => S \subseteq R

\* The runnable tasks come first, each after all it depends on; those that wait on
\* a cycle or on a missing task follow, in the order they were given.
RespectsDependencies ==
    \A i, j \in DOMAIN ordered :
        /\ ordered[i] \in Runnable /\ ordered[j] \in dependsOn[ordered[i]] => j < i
        /\ ordered[i] \in Runnable /\ ordered[j] \notin Runnable => i < j
        /\ i < j /\ ordered[i] \notin Runnable /\ ordered[j] \notin Runnable
           => ordered[i] < ordered[j]

\* What topological_tasks returns, cycles and missing tasks included, holds every
\* task once, in an order that respects the dependencies.
ReturnsInOrder ==
    ~sorting => Len(ordered) = Tasks /\ ToSet(ordered) = TaskSet /\ RespectsDependencies

\* topological_tasks returns: no cycle and no missing task keeps it sweeping.
OrderingEnds == <>~sorting
=============================================================================
