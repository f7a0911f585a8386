--------------------------- MODULE SupermemoryQueue ---------------------------
(***************************************************************************)
(* The ingestion queue of one session (memory/supermemory.rs): documents    *)
(* are queued, with or without their content, and processed by the caller   *)
(* itself (run_pipeline) or by a worker (run_queue_worker_once).            *)
(*                                                                         *)
(* A job's id is the session and the millisecond of the call, so the calls  *)
(* of one millisecond have one id, and one row, payload and document: of    *)
(* their data the last written stays, which is not modelled; what the rows  *)
(* say of the id is.                                                        *)
(*                                                                         *)
(* persist_job writes a job twice: its own row, then the row "latest",      *)
(* which the worker's listing finds under the same prefix.  The states      *)
(* Extracting to Indexing are one here, "Working", written again and again. *)
(***************************************************************************)
EXTENDS Naturals, FiniteSets, FiniteSetsExt

CONSTANTS Agents,         \* callers of the kernel and its workers
          MaxDocs,        \* bound: calls that queue a document
          MaxPicks        \* bound: runs of a worker that found a job

ASSUME QueueBounds == IsFiniteSet(Agents) /\ MaxDocs \in Nat /\ MaxPicks \in Nat

VARIABLES docs,           \* calls of queue_ingestion so far
          stamp,          \* the last millisecond of one of them; a job's id is such a number
          picks,          \* runs of a worker so far
          jobRow,         \* memory:supermemory:queue:<session>:<job>
          latestJob,      \* memory:supermemory:queue:<session>:latest
          payloads,       \* jobs with an ingest-payload row
          indexed,        \* what the stored document of a job was made of
          agent,          \* what each agent is doing, with its locals
          namesakes,      \* history: how many calls got this id
          passes,         \* history: how often a job went through persist_pipeline
          withContent,    \* history: jobs queued by run_pipeline
          doubled,        \* history: how often a job was picked while an agent had it in hand
          failed          \* history: the calls and runs that gave up, <<job, what for>>

queueVars == <<docs, stamp, picks, jobRow, latestJob, payloads, indexed, agent, namesakes, passes,
               withContent, doubled, failed>>

NoDoc   == [job |-> 0, status |-> "none"]
AtRest  == [at |-> "idle", job |-> 0, content |-> "none"]

QueueInit ==
    /\ docs = 0 /\ stamp = 0 /\ picks = 0
    /\ jobRow = [j \in 1 .. MaxDocs |-> "none"] /\ latestJob = NoDoc
    /\ payloads = {} /\ indexed = [j \in 1 .. MaxDocs |-> "none"]
    /\ agent = [a \in Agents |-> AtRest]
    /\ namesakes = [j \in 1 .. MaxDocs |-> 0] /\ passes = [j \in 1 .. MaxDocs |-> 0]
    /\ withContent = {} /\ doubled = [j \in 1 .. MaxDocs |-> 0] /\ failed = {}

InHand(j) == { a \in Agents : agent[a].job = j }

Move(a, next) == agent' = [agent EXCEPT ![a].at = next]

-----------------------------------------------------------------------------
\* queue_ingestion, alone or as the first call of run_pipeline, reads the clock and
\* makes the job; a call of run_pipeline has the content in hand.
QueueIngestion(a, now, full) ==
    /\ agent[a].at = "idle" /\ docs < MaxDocs
    /\ docs' = docs + 1 /\ stamp' = now
    /\ agent' = [agent EXCEPT ![a] = [at |-> "row", job |-> now,
                                      content |-> IF full THEN "payload" ELSE "none"]]
    /\ namesakes' = [namesakes EXCEPT ![now] = @ + 1]
    /\ withContent' = IF full THEN withContent \cup {now} ELSE withContent
    /\ UNCHANGED <<picks, jobRow, latestJob, payloads, indexed, passes, doubled, failed>>

\* The first write of persist_job.
PersistRow(a, from, status, next) ==
    /\ agent[a].at \in from
    /\ jobRow' = [jobRow EXCEPT ![agent[a].job] = status]
    /\ Move(a, next)
    /\ UNCHANGED <<docs, stamp, picks, latestJob, payloads, indexed, namesakes, passes, withContent,
                   doubled, failed>>

\* Its second write.
PersistLatest(a, from, status) ==
    /\ agent[a].at = from
    /\ latestJob' = [job |-> agent[a].job, status |-> status]
    /\ UNCHANGED <<docs, stamp, picks, jobRow, payloads, indexed, namesakes, passes, withContent,
                   doubled, failed>>

PersistQueued(a) == PersistRow(a, {"row"}, "Queued", "queued")

\* run_pipeline goes on with the content it has.
PersistLatestQueued(a) ==
    /\ PersistLatest(a, "queued", "Queued")
    /\ agent' = [agent EXCEPT ![a] = IF agent[a].content = "none" THEN AtRest
                                     ELSE [agent[a] EXCEPT !.at = "payload"]]

PersistPayload(a) ==
    /\ agent[a].at = "payload"
    /\ payloads' = payloads \cup {agent[a].job}
    /\ Move(a, "begin")
    /\ UNCHANGED <<docs, stamp, picks, jobRow, latestJob, indexed, namesakes, passes, withContent,
                   doubled, failed>>

-----------------------------------------------------------------------------
\* Mutant: a finished job counts as queued.
QueuedJobsAll == { j \in 1 .. stamp : jobRow[j] \in {"Queued", "Done"} }

\* The jobs that the listing shows as Queued, in their own row or in "latest".
QueuedJobs ==
    { j \in 1 .. stamp : jobRow[j] = "Queued" \/ latestJob = [job |-> j, status |-> "Queued"] }

\* run_queue_worker_once takes the oldest; nothing marks it as taken.
PickJob(a) ==
    /\ agent[a].at = "idle" /\ picks < MaxPicks /\ QueuedJobs # {}
    /\ picks' = picks + 1
    /\ LET j == Min(QueuedJobs)
       IN /\ agent' = [agent EXCEPT ![a] = [at |-> "load", job |-> j, content |-> "none"]]
          /\ doubled' = IF InHand(j) = {} THEN doubled ELSE [doubled EXCEPT ![j] = @ + 1]
    /\ UNCHANGED <<docs, stamp, jobRow, latestJob, payloads, indexed, namesakes, passes, withContent,
                   failed>>

\* The payload, or where there is none the job's source.
LoadPayload(a) ==
    /\ agent[a].at = "load"
    /\ agent' = [agent EXCEPT ![a] =
                   [@ EXCEPT !.at = "begin",
                             !.content = IF agent[a].job \in payloads THEN "payload" ELSE "source"]]
    /\ UNCHANGED <<docs, stamp, picks, jobRow, latestJob, payloads, indexed, namesakes, passes,
                   withContent, doubled, failed>>

\* process_ingestion_job and persist_pipeline write each status of the work.
BeginJob(a) == PersistRow(a, {"begin", "store"}, "Working", "begun")

PersistLatestWorking(a) == PersistLatest(a, "begun", "Working") /\ Move(a, "store")

\* persist_pipeline: document, chunks, memories and the rest.
PersistPipeline(a) ==
    /\ agent[a].at = "store"
    /\ indexed' = [indexed EXCEPT ![agent[a].job] = agent[a].content]
    /\ passes' = [passes EXCEPT ![agent[a].job] = @ + 1]
    /\ Move(a, "finish")
    /\ UNCHANGED <<docs, stamp, picks, jobRow, latestJob, payloads, namesakes, withContent, doubled,
                   failed>>

\* The last status, again in two writes.
FinishJob(a) == PersistRow(a, {"finish"}, "Done", "finished")

PersistLatestDone(a) ==
    /\ PersistLatest(a, "finished", "Done")
    /\ agent' = [agent EXCEPT ![a] = AtRest]

\* What a failure at this place leaves undone.
Undone(place) ==
    CASE place \in {"row", "queued", "payload"}             -> {"queueing"}
      [] place \in {"begun", "store", "finish", "finished"} -> {"working"}
      [] place \in {"load", "begin"}                        -> {}

\* A write or the extraction fails, or the process stops: nobody takes up a job
\* that no row shows as Queued any more.
JobFails(a) ==
    /\ agent[a].at # "idle"
    /\ failed' = failed \cup ({agent[a].job} \X Undone(agent[a].at))
    /\ agent' = [agent EXCEPT ![a] = AtRest]
    /\ UNCHANGED <<docs, stamp, picks, jobRow, latestJob, payloads, indexed, namesakes, passes,
                   withContent, doubled>>

QueueNext ==
    \E a \in Agents :
       \/ \E now \in {stamp, stamp + 1} \ {0}, full \in BOOLEAN : QueueIngestion(a, now, full)
       \/ PersistQueued(a) \/ PersistLatestQueued(a) \/ PersistPayload(a)
       \/ PickJob(a) \/ LoadPayload(a)
       \/ BeginJob(a) \/ PersistLatestWorking(a) \/ PersistPipeline(a)
       \/ FinishJob(a) \/ PersistLatestDone(a) \/ JobFails(a)

QueueSpec == QueueInit /\ [][QueueNext]_queueVars

-----------------------------------------------------------------------------
(* Properties. *)

\* Shapes; a job that says Done has its records in the store.
QueueTypeOK ==
    /\ docs \in 0 .. MaxDocs /\ stamp \in 0 .. docs /\ picks \in 0 .. MaxPicks
    /\ \A j \in 1 .. MaxDocs : /\ jobRow[j] \in {"none", "Queued", "Working", "Done"}
                               /\ jobRow[j] = "Done" => indexed[j] # "none"
    /\ latestJob.job \in 0 .. stamp /\ payloads \subseteq withContent

\* An id is ingested once for each call that got it, and once more at most for each
\* time a worker picked it out of another agent's hands, whatever failed and however
\* late a row "latest" was written; and the job of one call, never picked out of
\* another's hands, is not ingested from its source when it came with its content,
\* unless the call that queued it gave up before the content was stored.
IngestedOnce ==
    \A j \in 1 .. stamp :
       /\ passes[j] <= namesakes[j] + doubled[j]
       /\ namesakes[j] = 1 /\ doubled[j] = 0 /\ j \in withContent
             /\ <<j, "queueing">> \notin failed => indexed[j] # "source"

\* A job in nobody's hands is Queued, where the next worker finds it, or Done with its
\* document; it has another row only where a failure left it: no row where the call
\* that queued it failed, Working where a run failed at work.  This holds of every
\* id: of one that several calls share, of one that two agents process at once.
NoJobStranded ==
    \A j \in 1 .. stamp : InHand(j) = {} =>
       \/ jobRow[j] = "Queued"
       \/ jobRow[j] = "Done" /\ indexed[j] # "none"
       \/ jobRow[j] = "none" /\ <<j, "queueing">> \in failed
       \/ jobRow[j] = "Working" /\ <<j, "working">> \in failed

\* queue_ingestion and run_queue_worker_once: no job is done twice or left behind.
JobsAreKept == IngestedOnce /\ NoJobStranded
=============================================================================
