----------------------------- MODULE StateMirror -----------------------------
(***************************************************************************)
(* StateStore (autoloop-state-adapter/src/lib.rs): a repository in memory   *)
(* with Postgres before it.  A write goes to Postgres alone; only if that   *)
(* fails inside a controlled rollback window is it written to memory, with  *)
(* an audit event.  Reads choose between the two by mode and preference.    *)
(*                                                                          *)
(* Rows do not depend on each other, so the model is of one, of any kind:   *)
(*   plain     upsert_knowledge of an ordinary key                          *)
(*   evidence  upsert_knowledge of a key that is written once               *)
(*   typed     tenants, principals, bindings, leases, accounts, windows and *)
(*             attributions: a table of their own in Postgres, a knowledge  *)
(*             key to fall back to                                          *)
(*   entity    upsert_agent_state: a table on each side                     *)
(*   ledger    append_spend_ledger: a table, appended to once per id        *)
(* A value is the number of the call that writes it, 0 is no row.           *)
(***************************************************************************)
EXTENDS Naturals

CONSTANTS Stores,       \* concurrent callers
          MaxCalls,     \* bound: calls that write the row
          MaxReboots    \* bound: restarts of the process

ASSUME MirrorBounds == MaxCalls \in Nat /\ MaxReboots \in Nat

VARIABLES kind,         \* the row's kind
          mode,         \* KnowledgeMirrorMode, "none" without a mirror
          pref,         \* read_preference
          sampled,      \* the key's bucket is below shadow_read_rollout_percent
          window,       \* the controlled rollback window is open
          memRow,       \* the row in memory
          kvRow,        \* in kv_records
          tableRow,     \* in its table
          audited,      \* storage:rollback:event rows of the row
          caller,       \* what each caller is doing, with which value
          calls, reboots,
          acked,        \* history: the value acknowledged last and not lost by a restart
          fell,         \* history: a write failed and fell back or landed all the same
          overlapped,   \* history: two writes overlapped
          blind,        \* history: a check missed the row because Postgres failed
          late          \* history: the window closed before the audit event

mirrorVars == <<kind, mode, pref, sampled, window, memRow, kvRow, tableRow, audited, caller,
                calls, reboots, acked, fell, overlapped, blind, late>>
setting == <<kind, mode, pref, sampled>>
history == <<fell, overlapped, blind, late>>

RowKinds == {"plain", "evidence", "typed", "entity", "ledger"}
NoWrite == [at |-> "idle", val |-> 0]

-----------------------------------------------------------------------------
(* Reads *)

\* What a read that fails answers.
Failed == MaxCalls + 1

EffectivePreference ==
    IF mode = "Shadow" /\ pref = "PrimaryStore" /\ sampled THEN "Postgres" ELSE pref

\* get_knowledge; `up` says whether Postgres answers.
KnowledgeRead(up) ==
    IF mode = "none" \/ EffectivePreference = "PrimaryStore" THEN memRow
    ELSE IF up /\ (kvRow # 0 \/ mode = "Enforced") THEN kvRow
    ELSE IF up \/ mode = "Shadow" THEN memRow
    ELSE Failed

\* get_tenant and its like, get_agent_state, list_spend_ledger.
TableRead(up) ==
    CASE mode = "none" -> memRow
      [] mode # "none" /\ up -> tableRow
      [] mode = "Shadow" /\ ~up -> memRow
      [] OTHER -> Failed

Read(up) == IF kind \in {"plain", "evidence"} THEN KnowledgeRead(up) ELSE TableRead(up)

-----------------------------------------------------------------------------
(* Writes *)

MirrorInit ==
    /\ kind \in RowKinds
    /\ mode \in {"none", "Shadow", "Direct", "Enforced"}
    /\ pref \in {"PrimaryStore", "Postgres"}
    /\ sampled \in BOOLEAN /\ (sampled => mode = "Shadow" /\ pref = "PrimaryStore")
    /\ window \in BOOLEAN
    /\ memRow = 0 /\ kvRow = 0 /\ tableRow = 0 /\ audited = FALSE
    /\ caller = [s \in Stores |-> NoWrite] /\ calls = 0 /\ reboots = 0
    /\ acked = 0 /\ fell = FALSE /\ overlapped = FALSE /\ blind = FALSE /\ late = FALSE

AtPoint(s, point) == caller[s].at = point
GoTo(s, point) == caller' = [caller EXCEPT ![s].at = point]
Leaves(s) == caller' = [caller EXCEPT ![s] = NoWrite]
Acknowledge(s) == acked' = caller[s].val /\ Leaves(s)

\* Where upsert_knowledge goes once its checks are done.
Upsert == IF mode = "none" THEN "memory" ELSE "kv"

\* Where a call begins.
EntryPoint ==
    CASE kind = "evidence" -> "checkMemory"
      [] kind = "plain" -> Upsert
      [] mode # "none" /\ kind \in {"typed", "entity", "ledger"} -> "table"
      [] mode = "none" /\ kind = "ledger" -> "lookup"
      [] OTHER -> "memory"

BeginWrite(s) ==
    /\ AtPoint(s, "idle") /\ calls < MaxCalls
    /\ calls' = calls + 1
    /\ caller' = [caller EXCEPT ![s] = [at |-> EntryPoint, val |-> calls + 1]]
    /\ overlapped' = (overlapped \/ \E t \in Stores : ~AtPoint(t, "idle"))
    /\ UNCHANGED <<setting, window, memRow, kvRow, tableRow, audited, reboots, acked, fell,
                   blind, late>>

\* enforce_evidence_worm_write, its look into memory ...
CheckMemory(s) ==
    /\ AtPoint(s, "checkMemory")
    /\ CASE memRow # 0 -> Leaves(s)
         [] memRow = 0 /\ mode = "none" -> GoTo(s, "memory")
         [] OTHER -> GoTo(s, "checkKv")
    /\ UNCHANGED <<setting, window, memRow, kvRow, tableRow, audited, calls, reboots, acked,
                   history>>

\* Mutant: the row in Postgres is not looked at.
CheckKvNot(s) ==
    /\ AtPoint(s, "checkKv") /\ GoTo(s, "kv")
    /\ UNCHANGED <<setting, window, memRow, kvRow, tableRow, audited, calls, reboots, acked,
                   history>>

\* ... and into Postgres, whose errors it ignores.
CheckKv(s) ==
    /\ AtPoint(s, "checkKv")
    /\ \E up \in BOOLEAN :
          /\ IF up /\ kvRow # 0 THEN Leaves(s) ELSE GoTo(s, "kv")
          /\ blind' = (blind \/ (~up /\ kvRow # 0))
    /\ UNCHANGED <<setting, window, memRow, kvRow, tableRow, audited, calls, reboots, acked,
                   fell, overlapped, late>>

\* A ledger's table takes an id once.
Insertable == kind = "ledger" => tableRow = 0

WriteTable(s) ==
    /\ AtPoint(s, "table") /\ Insertable
    /\ tableRow' = caller[s].val
    /\ Acknowledge(s)
    /\ UNCHANGED <<setting, window, memRow, kvRow, audited, calls, reboots, history>>

WriteKv(s) ==
    /\ AtPoint(s, "kv")
    /\ kvRow' = caller[s].val
    /\ Acknowledge(s)
    /\ UNCHANGED <<setting, window, memRow, tableRow, audited, calls, reboots, history>>

\* Postgres answers with an error: the transaction was rolled back, or its commit
\* went through and the answer was lost.  Outside the window the caller gets it.
FallBack(s, landed) ==
    /\ IF ~window THEN Leaves(s)
       ELSE GoTo(s, IF AtPoint(s, "table") THEN "auditTable" ELSE "auditKv")
    /\ fell' = (fell \/ landed \/ window)
    /\ UNCHANGED <<setting, window, memRow, audited, calls, reboots, acked, overlapped,
                   blind, late>>

\* A ledger id that is there already is an error as any other.
TableFails(s) ==
    /\ AtPoint(s, "table")
    /\ \E landed \in BOOLEAN :
          /\ landed => Insertable
          /\ tableRow' = IF landed THEN caller[s].val ELSE tableRow
          /\ FallBack(s, landed)
    /\ UNCHANGED kvRow

KvFails(s) ==
    /\ AtPoint(s, "kv")
    /\ \E landed \in BOOLEAN :
          /\ kvRow' = IF landed THEN caller[s].val ELSE kvRow
          /\ FallBack(s, landed)
    /\ UNCHANGED tableRow

\* Where a write whose Postgres part failed goes on: typed rows and ledger entries
\* are knowledge from here on, and try Postgres again.
AfterAudit(s) ==
    CASE AtPoint(s, "auditKv") -> "memory"
      [] AtPoint(s, "auditTable") /\ kind = "ledger" -> "lookup"
      [] AtPoint(s, "auditTable") /\ kind = "typed" -> "kv"
      [] OTHER -> "memory"

\* Mutant: the fallback is not recorded.
RecordRollbackNot(s) ==
    /\ AtPoint(s, "auditTable") \/ AtPoint(s, "auditKv")
    /\ GoTo(s, AfterAudit(s))
    /\ UNCHANGED <<setting, window, memRow, kvRow, tableRow, audited, calls, reboots, acked,
                   history>>

\* record_controlled_rollback_event: it reads the window again, and a closed one
\* makes it a success without a record.
RecordRollback(s) ==
    /\ AtPoint(s, "auditTable") \/ AtPoint(s, "auditKv")
    /\ audited' = (audited \/ window)
    /\ late' = (late \/ ~window)
    /\ GoTo(s, AfterAudit(s))
    /\ UNCHANGED <<setting, window, memRow, kvRow, tableRow, calls, reboots, acked, fell,
                   overlapped, blind>>

\* append_spend_ledger's own check, by get_knowledge.
Lookup(s) ==
    /\ AtPoint(s, "lookup")
    /\ \E up \in BOOLEAN :
          IF KnowledgeRead(up) = 0 THEN GoTo(s, Upsert) ELSE Leaves(s)
    /\ UNCHANGED <<setting, window, memRow, kvRow, tableRow, audited, calls, reboots, acked,
                   history>>

WriteMemory(s) ==
    /\ AtPoint(s, "memory")
    /\ memRow' = caller[s].val
    /\ Acknowledge(s)
    /\ UNCHANGED <<setting, window, kvRow, tableRow, audited, calls, reboots, history>>

\* now_ms passes until_ms.
CloseWindow ==
    /\ window /\ window' = FALSE
    /\ UNCHANGED <<setting, memRow, kvRow, tableRow, audited, caller, calls, reboots, acked,
                   history>>

\* The process stops and starts again; the repository in memory is gone, with the
\* audit events in it, and the environment may open a window.
Reboot ==
    /\ reboots < MaxReboots /\ reboots' = reboots + 1
    /\ memRow' = 0 /\ audited' = FALSE
    /\ caller' = [s \in Stores |-> NoWrite]
    /\ window' \in BOOLEAN
    /\ acked' = IF acked = memRow THEN 0 ELSE acked
    /\ UNCHANGED <<setting, kvRow, tableRow, calls, history>>

StoreStep(s) ==
    \/ BeginWrite(s) \/ CheckMemory(s) \/ CheckKv(s) \/ WriteTable(s) \/ WriteKv(s)
    \/ TableFails(s) \/ KvFails(s) \/ RecordRollback(s) \/ Lookup(s) \/ WriteMemory(s)

MirrorNext == (\E s \in Stores : StoreStep(s)) \/ CloseWindow \/ Reboot

MirrorSpec == MirrorInit /\ [][MirrorNext]_mirrorVars

-----------------------------------------------------------------------------
(* Properties. *)

\* Shapes; a row is only where its kind is written.
MirrorTypeOK ==
    /\ {memRow, kvRow, tableRow, acked} \subseteq 0 .. calls /\ calls \in 0 .. MaxCalls
    /\ \A s \in Stores : caller[s].at # "idle" => caller[s].val \in 1 .. calls
    /\ kind \in {"plain", "evidence"} \/ mode = "none" => tableRow = 0
    /\ kind = "entity" \/ mode = "none" => kvRow = 0

\* Whether reads of the row look where writes go: not for a knowledge key whose
\* reads prefer memory while its writes go to Postgres, which is what Shadow mode
\* with the default preference does.
Visible ==
    mode = "none" \/ kind \notin {"plain", "evidence"} \/ EffectivePreference = "Postgres"

\* A read between writes returns the value acknowledged last, through errors and
\* restarts, as long as no write fell back or failed after its commit and no two
\* overlapped: outside Shadow mode it may fail and is never old, in Shadow mode it
\* may be old while Postgres does not answer.
AckedIsRead ==
    Visible /\ ~fell /\ ~overlapped /\ (\A s \in Stores : AtPoint(s, "idle")) =>
        /\ Read(TRUE) = acked
        /\ mode # "Shadow" => Read(FALSE) \in {acked, Failed}

\* With a mirror memory holds only what fell back inside the window, and there is
\* an audit event for it, unless the window closed between the error and the event.
FallbackAudited == mode # "none" /\ memRow # 0 => fell /\ (audited \/ late)

\* Reads return what was acknowledged, and what was not written to Postgres is
\* accounted for (StateStore's reads, upserts and rollback events).
MirrorHolds == AckedIsRead /\ FallbackAudited

\* What may replace an entry that is written once: two writes that overlapped, for
\* evidence a check that Postgres failed to answer, for a ledger entry a write that
\* fell back (the window turns "already exists" into a second entry, and the look
\* into knowledge need not see the first).
Excused ==
    overlapped \/ (kind = "evidence" /\ blind) \/ (kind = "ledger" /\ fell)

OnceStep ==
    /\ (acked # 0 /\ acked' \notin {0, acked}) => Excused
    /\ (kvRow # 0 /\ kvRow' # kvRow) => Excused
    /\ kind = "ledger" => tableRow \in {0, tableRow'}

\* Evidence and ledger entries are acknowledged once and not replaced in Postgres
\* (enforce_evidence_worm_write, append_spend_ledger), but for the cases above.
WrittenOnce == [][(kind \in {"evidence", "ledger"}) => OnceStep]_mirrorVars
=============================================================================
