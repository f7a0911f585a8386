--------------------------- MODULE SwarmWorkflow ---------------------------
(***************************************************************************)
(* One requirement-swarm run, OrchestrationKernel::run_requirement_swarm,   *)
(* driving its WorkflowMachine.  Every apply is written `let _ = ...`: the  *)
(* driver never looks at the machine's state or at a TransitionError, so    *)
(* nothing but the order of its signals keeps the two in step.              *)
(***************************************************************************)
EXTENDS WorkflowMachine, FiniteSets

CONSTANT MaxReports     \* most execution reports execute_swarm may return

ASSUME MaxReportsAssumption == MaxReports \in Nat

VARIABLES
    point,    \* the next signal of the driver, or how the run ended
    reports,  \* workflow signals of the execution reports folded in so far
    verdict   \* the verifier's signal, "none" before it is given

swarmVars == <<wfVars, point, reports, verdict>>

Steps == {"intent", "policy", "revise", "plan", "schedule", "start",
          "reports", "verify", "close", "done", "aborted"}

\* Range of workflow_signal_from_execution_report.
ReportSignals == {"RuntimeBlocked", "ExecutionFailed", "ExecutionStarted"}

SwarmInit ==
    /\ WFInit
    /\ point = "intent"
    /\ reports = <<>>
    /\ verdict = "none"

\* The driver sends one signal and goes on, whatever apply returns.
Send(from, sig, to) ==
    /\ point = from
    /\ Apply(sig)
    /\ point' = to

ReceiveIntent == Send("intent", "IntentReceived", "policy") /\ UNCHANGED <<reports, verdict>>

\* policy_requires_revision: a rejected request is revised and approved at once.
ReviewPolicy ==
    /\ \/ Send("policy", "PolicyRejected", "revise")
       \/ Send("policy", "PolicyApproved", "plan")
    /\ UNCHANGED <<reports, verdict>>

Revise == Send("revise", "PolicyApproved", "plan") /\ UNCHANGED <<reports, verdict>>

CommitPlan == Send("plan", "PlanCommitted", "schedule") /\ UNCHANGED <<reports, verdict>>

ScheduleTasks == Send("schedule", "TaskScheduled", "start") /\ UNCHANGED <<reports, verdict>>

StartExecution == Send("start", "ExecutionStarted", "reports") /\ UNCHANGED <<reports, verdict>>

\* One iteration of `for report in &execution_reports`.
FoldReport ==
    /\ Len(reports) < MaxReports
    /\ \E sig \in ReportSignals :
        /\ Send("reports", sig, "reports")
        /\ reports' = Append(reports, sig)
    /\ UNCHANGED verdict

LastReport ==
    /\ point = "reports"
    /\ point' = "verify"
    /\ UNCHANGED <<wfVars, reports, verdict>>

Verify ==
    /\ \E sig \in Verdicts : Send("verify", sig, "close") /\ verdict' = sig
    /\ UNCHANGED reports

Close == Send("close", "Closed", "done") /\ UNCHANGED <<reports, verdict>>

\* A `?` of the driver: requirement_agent_dialogue .. ceo_summary before the
\* plan, deliberate_swarm before the start, execute_swarm before the reports.
\* The machine is dropped in the state it has reached.
Abort ==
    /\ \/ point \in {"plan", "start"}
       \/ point = "reports" /\ reports = <<>>
    /\ point' = "aborted"
    /\ UNCHANGED <<wfVars, reports, verdict>>

\* The caller's tokio timeout drops the driver, and the machine with it, at
\* whatever await it has reached.
Cancel ==
    /\ point \notin {"done", "aborted"}
    /\ point' = "aborted"
    /\ UNCHANGED <<wfVars, reports, verdict>>

Finished ==
    /\ point \in {"done", "aborted"}
    /\ UNCHANGED swarmVars

SwarmNext ==
    \/ ReceiveIntent \/ ReviewPolicy \/ Revise \/ CommitPlan
    \/ ScheduleTasks \/ StartExecution \/ FoldReport \/ LastReport
    \/ Verify \/ Close \/ Abort \/ Cancel \/ Finished

SwarmSpec == SwarmInit /\ [][SwarmNext]_swarmVars

-----------------------------------------------------------------------------
(* Properties *)

\* Every variable of the run has the shape the driver and the machine give it.
SwarmTypeOK ==
    /\ wfState \in States
    /\ trail \in Seq(Records)
    /\ unaudited \in Nat
    /\ point \in Steps
    /\ reports \in Seq(ReportSignals) /\ Len(reports) <= MaxReports
    /\ verdict \in Verdicts \cup {"none"}

\* Where an adverse report sends a machine that is Executing.
AdverseState(sig) == IF sig = "RuntimeBlocked" THEN "Blocked" ELSE "Planned"

AllClean == \A i \in DOMAIN reports : reports[i] = "ExecutionStarted"

\* The first report that is not clean is reports[i].
FirstAdverse(i) ==
    /\ i \in DOMAIN reports
    /\ reports[i] # "ExecutionStarted"
    /\ \A j \in 1..(i-1) : reports[j] = "ExecutionStarted"

\* The reports alone decide the state that the verifier's signal meets: the
\* first blocked or failed report moves the machine out of Executing, and no
\* later report moves it again (for report in &execution_reports).
FoldedReports ==
    \/ AllClean /\ wfState = "Executing"
    \/ \E i \in DOMAIN reports :
        FirstAdverse(i) /\ wfState = AdverseState(reports[i])

\* Driver and machine stay in step although the driver discards the result of
\* every apply (`let _ = workflow.apply`): at each point of
\* run_requirement_swarm the machine is in the one state that point assumes,
\* however many audit records were lost on the way, and a finished run is Closed.
DriverInStep ==
    /\ point = "intent" => wfState = "Intake"
    /\ point \in {"policy", "revise"} => wfState = "PolicyReview"
    /\ point = "plan" => wfState = "Planned"
    /\ point = "schedule" => wfState = "Scheduled"
    /\ point = "start" => wfState = "Executing"
    /\ point \in {"reports", "verify"} => FoldedReports
    /\ point = "close" /\ ~AllClean => wfState \in {"Planned", "Blocked"}
    /\ point = "close" /\ AllClean =>
            wfState \in {"Verifying", IF verdict = "VerifyPassed" THEN "Closed" ELSE "Planned"}
    /\ point = "done" => wfState = "Closed"

\* Seams at which the stored trail does not continue: before its first record,
\* between two records, or between its last record and the machine's state.
Seams ==
    LET To(i) == IF i = 0 THEN "Intake" ELSE trail[i].to
        From(i) == IF i > Len(trail) THEN wfState ELSE trail[i].from
    IN  {i \in 0..Len(trail) : To(i) # From(i+1)}

\* The stored audit trail replays to the machine's state: each record is an arm
\* of next_state, and it has no more seams than records the sink failed to store
\* (apply_single records after it has moved and does not undo the move).
AuditTrailReplays ==
    /\ \A i \in DOMAIN trail : NextState(trail[i].from, trail[i].signal, trail[i].to)
    /\ Cardinality(Seams) <= unaudited

\* docs/PROCESS_MODEL.md: "`Any -> Blocked` when policy denies execution".  Read
\* at the verifier's step: a run with a report the runtime blocked is Blocked.
BlockedReportBlocks ==
    point = "verify" /\ (\E i \in DOMAIN reports : reports[i] = "RuntimeBlocked")
        => wfState = "Blocked"
=============================================================================
