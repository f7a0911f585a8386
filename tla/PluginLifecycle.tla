--------------------------- MODULE PluginLifecycle ---------------------------
(***************************************************************************)
(* The life of one plugin (plugins/lifecycle.rs, plugins/host.rs):         *)
(* install, enable, disable, update, rollback, rollout and loading into    *)
(* the host, called by several operators at once.                          *)
(*                                                                         *)
(* The record is changed under a lock, then the plugin's row is written     *)
(* from a copy, then the index from another.  What an operation is admitted *)
(* for is read before, under a lock of its own.  Manifests are numbered;    *)
(* what only goes to the audit trail is left out.                           *)
(***************************************************************************)
EXTENDS Naturals, Sequences

CONSTANTS Operators,      \* callers of the lifecycle manager
          MaxManifests,   \* bound: manifests made by install and update
          MaxJobs,        \* bound: operations begun
          MaxCrashes      \* bound: restarts of the process

ASSUME PluginBounds == MaxManifests \in Nat /\ MaxJobs \in Nat /\ MaxCrashes \in Nat

VARIABLES rec,            \* the PluginRuntimeRecord
          made,           \* manifests so far
          host,           \* the manifest the host runs, 0: none
          row,            \* plugin:lifecycle:<id>:latest
          index,          \* the plugin's entry of plugin:lifecycle:index
          job,            \* what each operator is doing, with its locals
          jobs,           \* operations begun so far
          crashes,        \* restarts so far
          admitted,       \* history: manifests that passed the admission
          enabledOnce,    \* history: manifests that were enabled
          overtaken,      \* history: manifests that became current while an enable
                          \* was being admitted for another
          clean           \* history: the last change was written by an operation
                          \* that no other overlapped

pluginVars == <<rec, made, host, row, index, job, jobs, crashes, admitted, enabledOnce,
                overtaken, clean>>

NoRecord == [there |-> FALSE, man |-> 0, state |-> "none", hist |-> <<>>, mode |-> "none"]
NoRow    == [man |-> 0, state |-> "none"]
Entry(r) == [man |-> r.man, state |-> r.state, mode |-> r.mode]
NoJob    == [at |-> "idle", op |-> "none", man |-> 0, row |-> NoRow, copy |-> Entry(NoRecord),
             alone |-> FALSE]

PluginStates == {"none", "Installed", "Enabled", "Disabled", "RolledBack"}

Writing(o) == job[o].at \in {"row", "index", "indexWrite"}

PluginInit ==
    /\ rec = NoRecord /\ made = 0 /\ host = 0 /\ row = NoRow /\ index = Entry(NoRecord)
    /\ job = [o \in Operators |-> NoJob]
    /\ jobs = 0 /\ crashes = 0 /\ admitted = {} /\ enabledOnce = {} /\ overtaken = {} /\ clean = FALSE

-----------------------------------------------------------------------------
(* Admission. *)

\* An operator begins an operation.
Begins(o) == job[o].at = "idle" /\ jobs < MaxJobs /\ jobs' = jobs + 1

\* install, up to the admission.  A missing or wrong signature ends it before.
BeginInstall(o) ==
    /\ Begins(o) /\ made < MaxManifests
    /\ made' = made + 1
    /\ job' = [job EXCEPT ![o] = [@ EXCEPT !.at = "admit", !.op = "install", !.man = made + 1]]
    /\ UNCHANGED <<rec, host, row, index, crashes, admitted, enabledOnce, overtaken, clean>>

\* `status`: what an enable, a canary or full rollout, or a load will be admitted for.
\* A load needs an enabled plugin.
ReadRecord(o, op) ==
    /\ Begins(o) /\ rec.there
    /\ op = "load" => rec.state = "Enabled"
    /\ job' = [job EXCEPT ![o] = [@ EXCEPT !.at = "admit", !.op = op, !.man = rec.man]]
    /\ UNCHANGED <<rec, made, host, row, index, crashes, admitted, enabledOnce, overtaken,
                   clean>>

\* enforce_plugin_capability_admission allows it.
PassAdmission(o) ==
    /\ job[o].at = "admit"
    /\ admitted' = admitted \cup {job[o].man}
    /\ job' = [job EXCEPT ![o].at = "apply"]
    /\ UNCHANGED <<rec, made, host, row, index, jobs, crashes, enabledOnce, overtaken, clean>>

-----------------------------------------------------------------------------
(* Changes of the record. *)

\* The record becomes r, and the operator goes on to write the row.
Change(o, op, r, rowState) ==
    /\ rec' = r
    /\ job' = [p \in Operators |->
                 IF p = o
                 THEN [job[o] EXCEPT !.at = "row",
                                     !.op = IF op = "rollout" THEN op ELSE "none",
                                     !.row = [man |-> r.man, state |-> rowState],
                                     !.man = 0,
                                     !.alone = /\ op = "live" => job[o].alone
                                               /\ \A q \in Operators \ {o} : ~Writing(q)]
                 ELSE [job[p] EXCEPT !.alone = FALSE]]
    /\ enabledOnce' = IF r.state = "Enabled" THEN enabledOnce \cup {r.man} ELSE enabledOnce
    /\ overtaken' =
          IF /\ r.man # rec.man
             /\ \E p \in Operators \ {o} : /\ job[p].at \in {"admit", "apply"}
                                           /\ job[p].op \in {"enable", "rollout"}
          THEN overtaken \cup {r.man} ELSE overtaken
    /\ clean' = FALSE
    /\ UNCHANGED <<host, row, index, crashes, admitted>>

\* install replaces whatever record there is.
ApplyInstall(o) ==
    /\ job[o].at = "apply" /\ job[o].op = "install"
    /\ Change(o, "install",
              [there |-> TRUE, man |-> job[o].man, state |-> "Installed",
               hist |-> <<job[o].man>>, mode |-> "none"], "Installed")
    /\ UNCHANGED <<made, jobs>>

\* transition_state to Enabled, of the manifest that is current by now.
ApplyEnable(o) ==
    /\ job[o].at = "apply" /\ job[o].op \in {"enable", "rollout"} /\ rec.there
    /\ Change(o, job[o].op, [rec EXCEPT !.state = "Enabled"], "Enabled")
    /\ UNCHANGED <<made, jobs>>

Disable(o) ==
    /\ Begins(o) /\ rec.there
    /\ Change(o, "disable", [rec EXCEPT !.state = "Disabled"], "Disabled")
    /\ UNCHANGED made

\* Mutant: an update leaves the state alone.
UpdateKeepsState(o) ==
    /\ Begins(o) /\ rec.there /\ made < MaxManifests
    /\ made' = made + 1
    /\ Change(o, "update",
              [rec EXCEPT !.man = made + 1, !.hist = Append(@, made + 1)], rec.state)

\* update signs the new manifest itself; it must be enabled again.
Update(o) ==
    /\ Begins(o) /\ rec.there /\ made < MaxManifests
    /\ made' = made + 1
    /\ Change(o, "update",
              [rec EXCEPT !.man = made + 1, !.hist = Append(@, made + 1),
                          !.state = "Installed"], "Installed")

\* Mutant: the guard lets a plugin with one version through.
RollbackAlways(o) ==
    /\ Begins(o) /\ rec.there
    /\ Change(o, "rollback", [rec EXCEPT !.state = "RolledBack"], "RolledBack")
    /\ UNCHANGED made

\* The last but one of the history, which keeps what was rolled back.
Rollback(o) ==
    /\ Begins(o) /\ rec.there /\ Len(rec.hist) >= 2
    /\ Change(o, "rollback",
              [rec EXCEPT !.man = rec.hist[Len(rec.hist) - 1], !.state = "RolledBack"],
              "RolledBack")
    /\ UNCHANGED made

\* A shadow rollout: the row says Installed whatever the state of the record.
ShadowRollout(o) ==
    /\ Begins(o) /\ rec.there
    /\ Change(o, "shadow", [rec EXCEPT !.mode = "shadow"], "Installed")
    /\ UNCHANGED made

\* The second half of a canary or full rollout, after its enable.
LiveRollout(o) ==
    /\ job[o].at = "mode" /\ rec.there
    /\ Change(o, "live", [rec EXCEPT !.mode = "live"], "Enabled")
    /\ UNCHANGED <<made, jobs>>

\* load_external, of the manifest that was read.
Load(o) ==
    /\ job[o].at = "apply" /\ job[o].op = "load"
    /\ host' = job[o].man
    /\ job' = [job EXCEPT ![o] = NoJob]
    /\ UNCHANGED <<rec, made, row, index, jobs, crashes, admitted, enabledOnce, overtaken, clean>>

-----------------------------------------------------------------------------
(* The store. *)

PersistManifest(o) ==
    /\ job[o].at = "row"
    /\ row' = job[o].row
    /\ job' = [job EXCEPT ![o] = [@ EXCEPT !.at = "index", !.row = NoRow]]
    /\ UNCHANGED <<rec, made, host, index, jobs, crashes, admitted, enabledOnce, overtaken, clean>>

\* Mutant: the index is written from the index.
CopyIndexStale(o) ==
    /\ job[o].at = "index"
    /\ job' = [job EXCEPT ![o] = [@ EXCEPT !.at = "indexWrite", !.copy = index]]
    /\ UNCHANGED <<rec, made, host, row, index, jobs, crashes, admitted, enabledOnce, overtaken,
                   clean>>

\* persist_index copies the records under the read lock ...
CopyIndex(o) ==
    /\ job[o].at = "index"
    /\ job' = [job EXCEPT ![o] = [@ EXCEPT !.at = "indexWrite", !.copy = Entry(rec)]]
    /\ UNCHANGED <<rec, made, host, row, index, jobs, crashes, admitted, enabledOnce, overtaken,
                   clean>>

\* ... and writes the copy without it.  A canary or full rollout goes on.
WriteIndex(o) ==
    /\ job[o].at = "indexWrite"
    /\ index' = job[o].copy
    /\ clean' = job[o].alone
    /\ job' = [job EXCEPT ![o] = IF job[o].op = "rollout"
                                 THEN [NoJob EXCEPT !.at = "mode", !.op = "rollout",
                                                    !.alone = job[o].alone]
                                 ELSE NoJob]
    /\ UNCHANGED <<rec, made, host, row, jobs, crashes, admitted, enabledOnce, overtaken>>

\* An operation ends with an error where it is: refused by the admission, the
\* record is gone, or the store failed.
OperationFails(o) ==
    /\ job[o].at # "idle"
    /\ job' = [job EXCEPT ![o] = NoJob]
    /\ UNCHANGED <<rec, made, host, row, index, jobs, crashes, admitted, enabledOnce, overtaken,
                   clean>>

\* Records and host are in memory, and nothing reads row and index back.
RestartManager ==
    /\ crashes < MaxCrashes
    /\ crashes' = crashes + 1
    /\ rec' = NoRecord /\ host' = 0 /\ clean' = FALSE
    /\ job' = [o \in Operators |-> NoJob]
    /\ UNCHANGED <<made, jobs, row, index, admitted, enabledOnce, overtaken>>

PluginNext ==
    \/ RestartManager
    \/ \E o \in Operators :
          \/ BeginInstall(o) \/ \E op \in {"enable", "rollout", "load"} : ReadRecord(o, op)
          \/ PassAdmission(o) \/ ApplyInstall(o) \/ ApplyEnable(o) \/ Disable(o) \/ Update(o)
          \/ Rollback(o) \/ ShadowRollout(o) \/ LiveRollout(o) \/ Load(o)
          \/ PersistManifest(o) \/ CopyIndex(o) \/ WriteIndex(o) \/ OperationFails(o)

PluginSpec == PluginInit /\ [][PluginNext]_pluginVars

-----------------------------------------------------------------------------
(* Properties. *)

\* Shapes; what is rolled back has a history.
PluginTypeOK ==
    /\ made \in 0 .. MaxManifests /\ jobs \in 0 .. MaxJobs
    /\ crashes \in 0 .. MaxCrashes
    /\ rec.man \in 0 .. made /\ rec.state \in PluginStates /\ rec.mode \in {"none", "shadow", "live"}
    /\ rec.hist \in Seq(1 .. made)
    /\ rec.there => \E i \in DOMAIN rec.hist : rec.hist[i] = rec.man
    /\ rec.state = "RolledBack" => Len(rec.hist) >= 2
    /\ row.man \in 0 .. made /\ host \in 0 .. made

\* An enabled manifest went through the admission, whatever updates and rollbacks
\* came before: only one that became current while an enable was being admitted
\* for its predecessor is enabled unseen.
EnabledWasAdmitted == rec.state = "Enabled" => rec.man \in admitted \cup overtaken

\* The host runs only what was admitted and has been enabled, although the record
\* may change between the admission and the load.  (It does not unload: a
\* disabled or rolled back plugin stays loaded, and can be invoked.)
HostRunsAdmitted == host # 0 => host \in admitted \cap enabledOnce

\* The record enables and the host runs only what the admission has seen, through
\* every overlap of enable, update, rollback and host_load_subprocess.
OnlyAdmitted == EnabledWasAdmitted /\ HostRunsAdmitted

\* Once an operation that no other overlapped has gone through, the stored row and
\* index are those of the record, whatever failed or crashed before; only the
\* state in the row of a shadow rollout is not the record's.
StoredFollowsRecord ==
    clean => /\ index = Entry(rec)
             /\ row.man = rec.man
             /\ \/ row.state = rec.state
                \/ row.state = "Installed" /\ rec.mode = "shadow"
=============================================================================
