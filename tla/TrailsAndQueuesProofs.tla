------------------------ MODULE TrailsAndQueuesProofs ------------------------
(****************************************************************************)
(* Proofs about what is appended to, for any bounds and callers: the audit   *)
(* trail of a swarm (SwarmWorkflow), the evidence ledger (EvidenceChain),    *)
(* the supermemory queue (SupermemoryQueue) and the patch review queue       *)
(* (PatchReview).                                                            *)
(*                                                                           *)
(* A swarm's driver never reads the machine it drives; DriverInStep is       *)
(* inductive with the types, and so is AuditTrailReplays, because a stored   *)
(* record opens no seam and a lost one opens one at most.  The ledger needs  *)
(* that the hash a writer read is still there (Anchored), and that it is     *)
(* still the latest as long as appends take turns (OneAppend).  A job of the *)
(* queue is never left by its last agent with a row that nobody will write   *)
(* again (Followed), its passes and those to come are paid for by calls and  *)
(* picks (Owed), and what a single agent has at a time is not without its    *)
(* content (Single, ContentKept).  A review stands on its newest row as long *)
(* as rows are written in the order of their times (InOrder).                *)
(****************************************************************************)
EXTENDS SwarmWorkflow, EvidenceChain, SupermemoryQueue, PatchReview, FiniteSetTheorems,
        WellFoundedInduction, TLAPS

-----------------------------------------------------------------------------
(* The driver of a swarm and its workflow machine *)

\* The arms of next_state that a run takes, one by one: the table has a single
\* target for each of them.
LEMMA TableTargets ==
    ASSUME NEW to
    PROVE  /\ NextState("Intake", "IntentReceived", to) <=> to = "PolicyReview"
           /\ NextState("PolicyReview", "PolicyRejected", to) <=> to = "PolicyReview"
           /\ NextState("PolicyReview", "PolicyApproved", to) <=> to = "Planned"
           /\ NextState("Planned", "PlanCommitted", to) <=> to = "Scheduled"
           /\ NextState("Scheduled", "TaskScheduled", to) <=> to = "Executing"
           /\ NextState("Executing", "ExecutionStarted", to) <=> to = "Executing"
           /\ NextState("Executing", "ExecutionFailed", to) <=> to = "Planned"
           /\ NextState("Executing", "RuntimeBlocked", to) <=> to = "Blocked"
           /\ NextState("Verifying", "VerifyPassed", to) <=> to = "Closed"
           /\ NextState("Verifying", "VerifyRejected", to) <=> to = "Planned"
           /\ NextState("Planned", "VerifyRejected", to) <=> to = "Planned"
  BY DEF NextState, Table

\* What a machine that an adverse report has moved out of Executing makes of the
\* reports and of the verdict that follow: every one is illegal, or leaves it.
LEMMA AdverseIsSticky ==
    ASSUME NEW to
    PROVE  /\ \A sig \in ReportSignals : ~NextState("Planned", sig, to)
           /\ \A sig \in ReportSignals : ~NextState("Blocked", sig, to)
           /\ ~NextState("Planned", "VerifyPassed", to)
           /\ \A sig \in Verdicts : ~NextState("Blocked", sig, to)
  BY DEF NextState, Table, ReportSignals, Verdicts

\* Applying a signal keeps the machine's variables in their types.
LEMMA ApplyType ==
    ASSUME SwarmTypeOK, NEW sig \in Signals, Apply(sig)
    PROVE  wfState' \in States /\ trail' \in Seq(Records) /\ unaudited' \in Nat
  <1>1. \A f \in States, s \in Signals, t \in States : Record(f, s, t) \in Records
    BY DEF Record, Records
  <1>2. "Executing" \in States /\ "Verifying" \in States
    BY DEF States
  <1>3. CASE wfState = "Executing" /\ sig \in Verdicts /\ VerdictHop(sig)
    <2>1. \A r \in Records : Append(trail, r) \in Seq(Records)
      BY DEF SwarmTypeOK
    <2>2. \A r, q \in Records : Append(Append(trail, r), q) \in Seq(Records)
      BY <2>1
    <2>3. Record("Executing", sig, "Verifying") \in Records
      BY <1>1, <1>2
    <2>4. \A to \in States : Record("Verifying", sig, to) \in Records
      BY <1>1, <1>2
    <2>5. unaudited + 1 \in Nat
      BY DEF SwarmTypeOK
    <2> HIDE DEF Record
    <2> QED
      BY <1>2, <1>3, <2>1, <2>2, <2>3, <2>4, <2>5 DEF SwarmTypeOK, VerdictHop
  <1>4. CASE \E to \in States : NextState(wfState, sig, to) /\ ApplySingle(to, sig)
    <2> PICK to \in States : ApplySingle(to, sig)
      BY <1>4
    <2>1. Append(trail, Record(wfState, sig, to)) \in Seq(Records)
      <3>1. Record(wfState, sig, to) \in Records
        BY <1>1 DEF SwarmTypeOK
      <3> QED
        BY <3>1 DEF SwarmTypeOK
    <2>2. unaudited + 1 \in Nat
      BY DEF SwarmTypeOK
    <2> HIDE DEF Record
    <2> QED
      BY <2>1, <2>2, Zenon DEF SwarmTypeOK, ApplySingle
  <1>5. CASE UNCHANGED wfVars
    BY <1>5 DEF SwarmTypeOK, wfVars
  <1> QED
    BY <1>3, <1>4, <1>5 DEF Apply

\* Type correctness of a run, for every MaxReports.
THEOREM TypeInvariant == SwarmSpec => []SwarmTypeOK
  <1>1. SwarmInit => SwarmTypeOK
    BY MaxReportsAssumption
    DEF SwarmInit, WFInit, SwarmTypeOK, States, Steps, Records, ReportSignals
  <1>2. SwarmTypeOK /\ [SwarmNext]_swarmVars => SwarmTypeOK'
    <2> SUFFICES ASSUME SwarmTypeOK, [SwarmNext]_swarmVars PROVE SwarmTypeOK'
      OBVIOUS
    <2>s. ReportSignals \subseteq Signals /\ Verdicts \subseteq Signals
            /\ {"IntentReceived", "PolicyApproved", "PolicyRejected", "PlanCommitted",
                "TaskScheduled", "ExecutionStarted", "Closed"} \subseteq Signals
      BY DEF ReportSignals, Verdicts, Signals
    <2>1. CASE ReceiveIntent
      BY <2>1, <2>s, ApplyType DEF ReceiveIntent, Send, SwarmTypeOK, Steps
    <2>2. CASE ReviewPolicy
      BY <2>2, <2>s, ApplyType DEF ReviewPolicy, Send, SwarmTypeOK, Steps
    <2>3. CASE Revise
      BY <2>3, <2>s, ApplyType DEF Revise, Send, SwarmTypeOK, Steps
    <2>4. CASE CommitPlan
      BY <2>4, <2>s, ApplyType DEF CommitPlan, Send, SwarmTypeOK, Steps
    <2>5. CASE ScheduleTasks
      BY <2>5, <2>s, ApplyType DEF ScheduleTasks, Send, SwarmTypeOK, Steps
    <2>6. CASE StartExecution
      BY <2>6, <2>s, ApplyType DEF StartExecution, Send, SwarmTypeOK, Steps
    <2>7. CASE FoldReport
      <3> PICK sig \in ReportSignals :
            Send("reports", sig, "reports") /\ reports' = Append(reports, sig)
        BY <2>7 DEF FoldReport
      <3>1. Apply(sig) /\ point' = "reports"
        BY DEF Send
      <3>2. reports' \in Seq(ReportSignals) /\ Len(reports') <= MaxReports
        BY <2>7, MaxReportsAssumption DEF FoldReport, SwarmTypeOK
      <3> QED
        BY <2>7, <2>s, <3>1, <3>2, ApplyType DEF FoldReport, SwarmTypeOK, Steps
    <2>8. CASE LastReport
      BY <2>8 DEF LastReport, SwarmTypeOK, wfVars, Steps
    <2>9. CASE Verify
      BY <2>9, <2>s, ApplyType DEF Verify, Send, SwarmTypeOK, Steps
    <2>10. CASE Close
      BY <2>10, <2>s, ApplyType DEF Close, Send, SwarmTypeOK, Steps
    <2>11. CASE Abort \/ Cancel
      BY <2>11 DEF Abort, Cancel, SwarmTypeOK, wfVars, Steps
    <2>12. CASE UNCHANGED swarmVars
      BY <2>12 DEF swarmVars, wfVars, SwarmTypeOK
    <2> QED
      BY <2>1, <2>2, <2>3, <2>4, <2>5, <2>6, <2>7, <2>8, <2>9, <2>10, <2>11, <2>12
      DEF SwarmNext, Finished
  <1> QED
    BY <1>1, <1>2, PTL DEF SwarmSpec

\* One applied signal, from a state in which the table gives it one target.
LEMMA ApplyMoves ==
    ASSUME NEW sig, NEW to \in States, Apply(sig),
           ~(wfState = "Executing" /\ sig \in Verdicts),
           \A t : NextState(wfState, sig, t) <=> t = to
    PROVE  wfState' = to
  BY DEF Apply, ApplySingle, Legal

\* One applied signal, from a state in which the table has no arm for it.
LEMMA ApplyIgnored ==
    ASSUME NEW sig, Apply(sig), wfState # "Executing",
           \A t : ~NextState(wfState, sig, t)
    PROVE  wfState' = wfState
  BY DEF Apply, ApplySingle, Legal, wfVars

\* Folding one more report in leaves the machine where the reports say.
LEMMA FoldKeeps ==
    ASSUME SwarmTypeOK, FoldedReports, NEW sig \in ReportSignals,
           Apply(sig), reports' = Append(reports, sig)
    PROVE  FoldedReports'
  <1>t. /\ reports \in Seq(ReportSignals)
        /\ sig \notin Verdicts
        /\ Len(reports') = Len(reports) + 1
        /\ \A i \in 1..Len(reports) : reports'[i] = reports[i]
        /\ reports'[Len(reports) + 1] = sig
        /\ DOMAIN reports = 1..Len(reports)
        /\ DOMAIN reports' = 1..(Len(reports) + 1)
        /\ Len(reports) \in Nat
    BY DEF SwarmTypeOK, ReportSignals, Verdicts
  <1>1. CASE AllClean /\ wfState = "Executing"
    <2>1. CASE sig = "ExecutionStarted"
      <3>1. wfState' = "Executing"
        BY <1>1, <1>t, <2>1, ApplyMoves, TableTargets DEF States
      <3>2. AllClean'
        BY <1>1, <1>t, <2>1 DEF AllClean
      <3> QED
        BY <3>1, <3>2 DEF FoldedReports
    <2>2. CASE sig # "ExecutionStarted"
      <3>1. wfState' = AdverseState(sig)
        <4>1. CASE sig = "RuntimeBlocked"
          BY <1>1, <1>t, <4>1, ApplyMoves, TableTargets DEF States, AdverseState
        <4>2. CASE sig = "ExecutionFailed"
          BY <1>1, <1>t, <4>2, ApplyMoves, TableTargets DEF States, AdverseState
        <4> QED
          BY <2>2, <4>1, <4>2 DEF ReportSignals
      <3> PICK n \in Nat : n = Len(reports) + 1
        BY <1>t
      <3>2. FirstAdverse(n)'
        BY <1>1, <1>t, <2>2 DEF FirstAdverse, AllClean
      <3>3. n \in DOMAIN reports'
        BY <1>t
      <3>4. wfState' = AdverseState(reports'[n])
        BY <1>t, <3>1
      <3> QED
        BY <3>2, <3>3, <3>4 DEF FoldedReports
    <2> QED
      BY <2>1, <2>2
  <1>2. CASE \E i \in DOMAIN reports : FirstAdverse(i) /\ wfState = AdverseState(reports[i])
    <2> PICK i \in DOMAIN reports : FirstAdverse(i) /\ wfState = AdverseState(reports[i])
      BY <1>2
    <2>1. wfState' = wfState
      BY <1>t, ApplyIgnored, AdverseIsSticky DEF AdverseState
    <2>2. FirstAdverse(i)' /\ reports'[i] = reports[i] /\ i \in DOMAIN reports'
      BY <1>t DEF FirstAdverse
    <2>3. wfState' = AdverseState(reports'[i])
      BY <2>1, <2>2
    <2> QED
      BY <2>2, <2>3 DEF FoldedReports
  <1> QED
    BY <1>1, <1>2 DEF FoldedReports

\* The verdict meets the state the reports left: it closes or replans a machine
\* that is Executing (or strands it in Verifying when the first hop's record is
\* lost), and cannot move a machine that is Planned or Blocked.
LEMMA VerdictLands ==
    ASSUME FoldedReports, NEW sig \in Verdicts, Apply(sig)
    PROVE  /\ ~AllClean => wfState' \in {"Planned", "Blocked"}
           /\ AllClean => wfState' \in
                {"Verifying", IF sig = "VerifyPassed" THEN "Closed" ELSE "Planned"}
  <1>1. CASE AllClean
    <2>1. wfState = "Executing"
      BY <1>1 DEF FoldedReports, AllClean, FirstAdverse
    <2>2. VerdictHop(sig)
      <3>1. Legal("Executing", sig)
        BY DEF Legal, NextState, Table, Verdicts, States
      <3> QED
        BY <2>1, <3>1 DEF Apply
    <2> QED
      BY <1>1, <2>2, TableTargets DEF VerdictHop, Verdicts
  <1>2. CASE ~AllClean
    <2>1. wfState \in {"Planned", "Blocked"}
      BY <1>2 DEF FoldedReports, AdverseState
    <2>2. CASE wfState = "Planned" /\ sig = "VerifyRejected"
      BY <2>2, ApplyMoves, TableTargets, <1>2 DEF States
    <2>3. CASE ~(wfState = "Planned" /\ sig = "VerifyRejected")
      BY <2>1, <2>3, ApplyIgnored, AdverseIsSticky, <1>2 DEF Verdicts
    <2> QED
      BY <2>2, <2>3
  <1> QED
    BY <1>1, <1>2

\* No report is folded in before execution has started.
NoReportsYet ==
    point \in {"intent", "policy", "revise", "plan", "schedule", "start"} => reports = <<>>

\* The inductive invariant of the driver.
StepInv == DriverInStep /\ NoReportsYet

\* A signal sent from a point whose state gives it one target, to a later point
\* that assumes that target and looks at nothing else.
LEMMA PlainSend ==
    ASSUME StepInv, NEW from, NEW sig, NEW to, NEW target \in States,
           Send(from, sig, to), reports' = reports,
           from \in {"intent", "policy", "revise", "plan", "schedule"},
           sig \notin Verdicts,
           \A t : NextState(wfState, sig, t) <=> t = target,
           \/ to \in {"policy", "revise"} /\ target = "PolicyReview"
           \/ to = "plan" /\ target = "Planned"
           \/ to = "schedule" /\ target = "Scheduled"
           \/ to = "start" /\ target = "Executing"
    PROVE  StepInv'
  <1>1. wfState' = target /\ point' = to
    BY ApplyMoves DEF Send
  <1>2. reports' = <<>>
    BY DEF StepInv, NoReportsYet, Send
  <1> QED
    BY <1>1, <1>2 DEF StepInv, DriverInStep, NoReportsYet

\* Driver and machine stay in step: for every number of reports, at each point
\* of run_requirement_swarm the machine is in the state that point assumes,
\* however many audit records are lost and although every result is discarded.
THEOREM DriverInStepInvariant == SwarmSpec => []DriverInStep
  <1>1. SwarmInit => StepInv
    BY DEF SwarmInit, WFInit, StepInv, DriverInStep, NoReportsYet
  <1>2. SwarmTypeOK /\ StepInv /\ [SwarmNext]_swarmVars => StepInv'
    <2> SUFFICES ASSUME SwarmTypeOK, StepInv, [SwarmNext]_swarmVars PROVE StepInv'
      OBVIOUS
    <2>s. {"PolicyReview", "Planned", "Scheduled", "Executing", "Closed"} \subseteq States
            /\ {"IntentReceived", "PolicyApproved", "PolicyRejected", "PlanCommitted",
                "TaskScheduled", "ExecutionStarted", "Closed"} \cap Verdicts = {}
      BY DEF States, Verdicts
    <2>1. CASE ReceiveIntent
      <3>1. wfState = "Intake"
        BY <2>1 DEF ReceiveIntent, Send, StepInv, DriverInStep
      <3> QED
        BY <2>1, <2>s, <3>1, PlainSend, TableTargets DEF ReceiveIntent
    <2>2. CASE ReviewPolicy
      <3>1. wfState = "PolicyReview"
        BY <2>2 DEF ReviewPolicy, Send, StepInv, DriverInStep
      <3>2. CASE Send("policy", "PolicyRejected", "revise")
        BY <2>2, <2>s, <3>1, <3>2, PlainSend, TableTargets DEF ReviewPolicy
      <3>3. CASE Send("policy", "PolicyApproved", "plan")
        BY <2>2, <2>s, <3>1, <3>3, PlainSend, TableTargets DEF ReviewPolicy
      <3> QED
        BY <2>2, <3>2, <3>3 DEF ReviewPolicy
    <2>3. CASE Revise
      <3>1. wfState = "PolicyReview"
        BY <2>3 DEF Revise, Send, StepInv, DriverInStep
      <3> QED
        BY <2>3, <2>s, <3>1, PlainSend, TableTargets DEF Revise
    <2>4. CASE CommitPlan
      <3>1. wfState = "Planned"
        BY <2>4 DEF CommitPlan, Send, StepInv, DriverInStep
      <3> QED
        BY <2>4, <2>s, <3>1, PlainSend, TableTargets DEF CommitPlan
    <2>5. CASE ScheduleTasks
      <3>1. wfState = "Scheduled"
        BY <2>5 DEF ScheduleTasks, Send, StepInv, DriverInStep
      <3> QED
        BY <2>5, <2>s, <3>1, PlainSend, TableTargets DEF ScheduleTasks
    <2>6. CASE StartExecution
      <3>1. wfState = "Executing" /\ reports = <<>> /\ reports' = reports /\ point' = "reports"
        BY <2>6 DEF StartExecution, Send, StepInv, DriverInStep, NoReportsYet
      <3>2. wfState' = "Executing"
        BY <2>6, <2>s, <3>1, ApplyMoves, TableTargets DEF StartExecution, Send
      <3>3. AllClean'
        BY <3>1 DEF AllClean
      <3> QED
        BY <3>1, <3>2, <3>3 DEF StepInv, DriverInStep, NoReportsYet, FoldedReports
    <2>7. CASE FoldReport
      <3>1. FoldedReports' /\ point' = "reports"
        BY <2>7, FoldKeeps DEF FoldReport, Send, StepInv, DriverInStep
      <3> QED
        BY <3>1 DEF StepInv, DriverInStep, NoReportsYet
    <2>8. CASE LastReport
      <3>1. FoldedReports' /\ point' = "verify"
        BY <2>8 DEF LastReport, StepInv, DriverInStep, FoldedReports, FirstAdverse,
                    AllClean, wfVars
      <3> QED
        BY <3>1 DEF StepInv, DriverInStep, NoReportsYet
    <2>9. CASE Verify
      <3> PICK sig \in Verdicts : Send("verify", sig, "close") /\ verdict' = sig
        BY <2>9 DEF Verify
      <3>1. FoldedReports /\ Apply(sig) /\ point' = "close" /\ reports' = reports
        BY <2>9 DEF Verify, Send, StepInv, DriverInStep
      <3>2. AllClean' <=> AllClean
        BY <3>1 DEF AllClean
      <3> QED
        BY <3>1, <3>2, VerdictLands DEF StepInv, DriverInStep, NoReportsYet
    <2>10. CASE Close
      <3>1. wfState' = "Closed" /\ point' = "done"
        <4>1. \A t : NextState(wfState, "Closed", t) <=> t = "Closed"
          BY DEF NextState, Table
        <4> QED
          BY <2>10, <2>s, <4>1, ApplyMoves DEF Close, Send
      <3> QED
        BY <3>1 DEF StepInv, DriverInStep, NoReportsYet
    <2>11. CASE Abort \/ Cancel
      BY <2>11 DEF Abort, Cancel, StepInv, DriverInStep, NoReportsYet
    <2>12. CASE UNCHANGED swarmVars
      BY <2>12 DEF swarmVars, wfVars, StepInv, DriverInStep, NoReportsYet, FoldedReports,
                   FirstAdverse, AllClean
    <2> QED
      BY <2>1, <2>2, <2>3, <2>4, <2>5, <2>6, <2>7, <2>8, <2>9, <2>10, <2>11, <2>12
      DEF SwarmNext, Finished
  <1>3. StepInv => DriverInStep
    BY DEF StepInv
  <1> QED
    BY <1>1, <1>2, <1>3, TypeInvariant, PTL DEF SwarmSpec

-----------------------------------------------------------------------------
(* The audit trail of a swarm *)

\* The state the machine had after the first i records of a trail, and the one the
\* next record, or the machine itself, says it had.
LeftAt(t, i) == IF i = 0 THEN "Intake" ELSE t[i].to
FoundAt(t, s, i) == IF i > Len(t) THEN s ELSE t[i].from

\* The seams of any trail and state.
SeamsOf(t, s) == {i \in 0..Len(t) : LeftAt(t, i) # FoundAt(t, s, i + 1)}

\* The seams of the run are those of its trail and its machine.
LEMMA SeamsAreOf == Seams = SeamsOf(trail, wfState)
  BY DEF Seams, SeamsOf, LeftAt, FoundAt

\* There are finitely many.
LEMMA SeamsFinite ==
    ASSUME NEW t \in Seq(Records), NEW s
    PROVE  IsFiniteSet(SeamsOf(t, s)) /\ Cardinality(SeamsOf(t, s)) \in Nat
  <1>1. Len(t) \in Int /\ 0 \in Int
    OBVIOUS
  <1>2. IsFiniteSet(0..Len(t))
    BY <1>1, FS_Interval
  <1>3. SeamsOf(t, s) \in SUBSET (0..Len(t))
    BY DEF SeamsOf
  <1> QED
    BY <1>2, <1>3, FS_Subset, FS_CardinalityType

\* A record of the machine's own move, stored with the move, opens no seam.
LEMMA RecordedMove ==
    ASSUME NEW t \in Seq(Records), NEW r \in Records
    PROVE  SeamsOf(Append(t, r), r.to) = SeamsOf(t, r.from)
  <1> DEFINE u == Append(t, r)
  <1>1. /\ u \in Seq(Records) /\ Len(u) = Len(t) + 1 /\ Len(t) \in Nat
        /\ \A i \in 1..Len(t) : u[i] = t[i]
        /\ u[Len(t) + 1] = r
    OBVIOUS
  <1> HIDE DEF u
  <1>2. ASSUME NEW i \in 0..Len(t) PROVE LeftAt(u, i) = LeftAt(t, i)
    BY <1>1, <1>2 DEF LeftAt
  <1>3. ASSUME NEW i \in 0..Len(t) PROVE FoundAt(u, r.to, i + 1) = FoundAt(t, r.from, i + 1)
    <2>1. CASE i = Len(t)
      <3>1. FoundAt(u, r.to, i + 1) = u[Len(t) + 1].from
        BY <1>1, <2>1 DEF FoundAt
      <3>2. FoundAt(t, r.from, i + 1) = r.from
        BY <1>1, <2>1 DEF FoundAt
      <3> QED
        BY <1>1, <3>1, <3>2
    <2>2. CASE i # Len(t)
      <3>1. i + 1 \in 1..Len(t) /\ i + 1 <= Len(t) /\ ~(i + 1 > Len(t)) /\ ~(i + 1 > Len(u))
        BY <1>1, <2>2
      <3>2. u[i + 1] = t[i + 1]
        BY <1>1, <3>1
      <3> QED
        BY <3>1, <3>2 DEF FoundAt
    <2> QED
      BY <2>1, <2>2
  <1>4. LeftAt(u, Len(t) + 1) = r.to /\ FoundAt(u, r.to, (Len(t) + 1) + 1) = r.to
    BY <1>1 DEF LeftAt, FoundAt
  <1>5. ASSUME NEW i \in 0..Len(t) PROVE i \in SeamsOf(u, r.to) <=> i \in SeamsOf(t, r.from)
    <2>1. i \in 0..Len(u)
      BY <1>1, <1>5
    <2> QED
      BY <1>2, <1>3, <2>1 DEF SeamsOf
  <1>6. Len(t) + 1 \notin SeamsOf(u, r.to)
    BY <1>1, <1>4 DEF SeamsOf
  <1>7. \A i \in SeamsOf(u, r.to) : i \in 0..Len(t)
    <2>1. \A i \in SeamsOf(u, r.to) : i \in 0..(Len(t) + 1)
      BY <1>1 DEF SeamsOf
    <2> QED
      BY <1>1, <1>6, <2>1
  <1>8. \A i \in SeamsOf(t, r.from) : i \in 0..Len(t)
    BY DEF SeamsOf
  <1>9. SeamsOf(u, r.to) = SeamsOf(t, r.from)
    BY <1>5, <1>7, <1>8
  <1> QED
    BY <1>9 DEF u

\* A move whose record is lost opens one seam at most, after the last record.
LEMMA LostMove ==
    ASSUME NEW t \in Seq(Records), NEW s, NEW q
    PROVE  Cardinality(SeamsOf(t, q)) <= Cardinality(SeamsOf(t, s)) + 1
  <1>1. Len(t) \in Nat
    OBVIOUS
  <1>2. \A i \in SeamsOf(t, q) : i = Len(t) \/ i \in SeamsOf(t, s)
    BY <1>1 DEF SeamsOf, FoundAt
  <1>3. SeamsOf(t, q) \in SUBSET (SeamsOf(t, s) \cup {Len(t)})
    BY <1>2
  <1>4. IsFiniteSet(SeamsOf(t, s)) /\ Cardinality(SeamsOf(t, s)) \in Nat
    BY SeamsFinite
  <1>5. /\ IsFiniteSet(SeamsOf(t, s) \cup {Len(t)})
        /\ \/ Cardinality(SeamsOf(t, s) \cup {Len(t)}) = Cardinality(SeamsOf(t, s))
           \/ Cardinality(SeamsOf(t, s) \cup {Len(t)}) = Cardinality(SeamsOf(t, s)) + 1
    BY <1>4, FS_AddElement
  <1>6. Cardinality(SeamsOf(t, q)) <= Cardinality(SeamsOf(t, s) \cup {Len(t)})
    BY <1>3, <1>5, FS_Subset
  <1>7. Cardinality(SeamsOf(t, q)) \in Nat
    BY SeamsFinite
  <1> QED
    BY <1>4, <1>5, <1>6, <1>7

\* Every record of a trail is an arm of next_state.
ArmsOnly(t) == \A i \in DOMAIN t : NextState(t[i].from, t[i].signal, t[i].to)

\* One more record that is an arm.
LEMMA OneMoreArm ==
    ASSUME NEW t \in Seq(Records), NEW r \in Records, ArmsOnly(t),
           NextState(r.from, r.signal, r.to)
    PROVE  ArmsOnly(Append(t, r))
  <1> SUFFICES ASSUME NEW i \in DOMAIN Append(t, r)
               PROVE  NextState(Append(t, r)[i].from, Append(t, r)[i].signal,
                                Append(t, r)[i].to)
    BY DEF ArmsOnly
  <1>1. CASE i \in DOMAIN t
    <2>1. Append(t, r)[i] = t[i]
      BY <1>1
    <2> QED
      BY <1>1, <2>1 DEF ArmsOnly
  <1>2. CASE i \notin DOMAIN t
    <2>1. Append(t, r)[i] = r
      BY <1>2
    <2> QED
      BY <2>1
  <1> QED
    BY <1>1, <1>2

\* A transition of the machine keeps the trail replayable, whether its record is
\* stored or lost.
LEMMA SingleReplays ==
    ASSUME SwarmTypeOK, AuditTrailReplays, NEW sig \in Signals, NEW to \in States,
           NextState(wfState, sig, to), ApplySingle(to, sig)
    PROVE  AuditTrailReplays'
  <1>t. trail \in Seq(Records) /\ wfState \in States /\ unaudited \in Nat
    BY DEF SwarmTypeOK
  <1>i. ArmsOnly(trail) /\ Cardinality(SeamsOf(trail, wfState)) <= unaudited
    BY SeamsAreOf DEF AuditTrailReplays, ArmsOnly
  <1>s. Seams' = SeamsOf(trail', to)
    BY DEF Seams, SeamsOf, LeftAt, FoundAt, ApplySingle
  <1>g. ArmsOnly(trail') /\ Cardinality(SeamsOf(trail', to)) <= unaudited' => AuditTrailReplays'
    BY <1>s DEF AuditTrailReplays, ArmsOnly
  <1>1. CASE trail' = Append(trail, Record(wfState, sig, to)) /\ unaudited' = unaudited
    <2> DEFINE r == Record(wfState, sig, to)
    <2>1. r \in Records /\ r.from = wfState /\ r.signal = sig /\ r.to = to
      BY <1>t DEF Record, Records
    <2> HIDE DEF r
    <2>2. SeamsOf(Append(trail, r), to) = SeamsOf(trail, wfState)
      BY <1>t, <2>1, RecordedMove
    <2>3. ArmsOnly(Append(trail, r))
      BY <1>t, <1>i, <2>1, OneMoreArm
    <2>4. trail' = Append(trail, r)
      BY <1>1 DEF r
    <2> QED
      BY <1>1, <1>i, <1>g, <2>2, <2>3, <2>4
  <1>2. CASE trail' = trail /\ unaudited' = unaudited + 1
    <2>1. Cardinality(SeamsOf(trail, to)) <= Cardinality(SeamsOf(trail, wfState)) + 1
      BY <1>t, LostMove
    <2>2. /\ Cardinality(SeamsOf(trail, to)) \in Nat
          /\ Cardinality(SeamsOf(trail, wfState)) \in Nat
      BY <1>t, SeamsFinite
    <2>3. Cardinality(SeamsOf(trail, to)) <= unaudited + 1
      BY <1>t, <1>i, <2>1, <2>2
    <2> QED
      BY <1>2, <1>i, <1>g, <2>3
  <1> QED
    BY <1>1, <1>2 DEF ApplySingle

\* The two hops of a verdict keep the trail replayable: nothing stored, the first
\* hop stored, or both.
LEMMA VerdictReplays ==
    ASSUME SwarmTypeOK, AuditTrailReplays, NEW sig \in Verdicts,
           wfState = "Executing", VerdictHop(sig)
    PROVE  AuditTrailReplays'
  <1>t. trail \in Seq(Records) /\ unaudited \in Nat
    BY DEF SwarmTypeOK
  <1>i. ArmsOnly(trail) /\ Cardinality(SeamsOf(trail, "Executing")) <= unaudited
    BY SeamsAreOf DEF AuditTrailReplays, ArmsOnly
  <1>s. Seams' = SeamsOf(trail', wfState')
    BY DEF Seams, SeamsOf, LeftAt, FoundAt
  <1>g. ArmsOnly(trail') /\ Cardinality(SeamsOf(trail', wfState')) <= unaudited'
          => AuditTrailReplays'
    BY <1>s DEF AuditTrailReplays, ArmsOnly
  <1> DEFINE hop == Record("Executing", sig, "Verifying")
  <1>1. /\ hop \in Records /\ hop.from = "Executing" /\ hop.to = "Verifying"
        /\ NextState(hop.from, hop.signal, hop.to)
    BY DEF Record, Records, States, Signals, Verdicts, NextState, Table
  <1>d. VerdictHop(sig) <=>
          \/ /\ wfState' = "Verifying"
             /\ unaudited' = unaudited + 1
             /\ UNCHANGED trail
          \/ \E to \in States :
              /\ NextState("Verifying", sig, to)
              /\ wfState' = to
              /\ \/ /\ trail' = Append(Append(trail, hop), Record("Verifying", sig, to))
                    /\ UNCHANGED unaudited
                 \/ /\ trail' = Append(trail, hop)
                    /\ unaudited' = unaudited + 1
    BY DEF VerdictHop
  <1> HIDE DEF hop
  <1>2. /\ Append(trail, hop) \in Seq(Records) /\ ArmsOnly(Append(trail, hop))
        /\ SeamsOf(Append(trail, hop), "Verifying") = SeamsOf(trail, "Executing")
    BY <1>t, <1>i, <1>1, OneMoreArm, RecordedMove
  <1>3. CASE wfState' = "Verifying" /\ unaudited' = unaudited + 1 /\ UNCHANGED trail
    <2>1. /\ Cardinality(SeamsOf(trail, "Verifying"))
                <= Cardinality(SeamsOf(trail, "Executing")) + 1
          /\ Cardinality(SeamsOf(trail, "Verifying")) \in Nat
          /\ Cardinality(SeamsOf(trail, "Executing")) \in Nat
      BY <1>t, LostMove, SeamsFinite
    <2>2. Cardinality(SeamsOf(trail, "Verifying")) <= unaudited + 1
      BY <1>t, <1>i, <2>1
    <2> QED
      BY <1>3, <1>i, <1>g, <2>2
  <1>4. ASSUME NEW to \in States, NextState("Verifying", sig, to), wfState' = to,
               trail' = Append(Append(trail, hop), Record("Verifying", sig, to)),
               UNCHANGED unaudited
        PROVE  AuditTrailReplays'
    <2> DEFINE r == Record("Verifying", sig, to)
    <2>1. /\ r \in Records /\ r.from = "Verifying" /\ r.to = to
          /\ NextState(r.from, r.signal, r.to)
      BY <1>4 DEF Record, Records, States, Signals, Verdicts
    <2>2. trail' = Append(Append(trail, hop), r)
      BY <1>4
    <2> HIDE DEF r
    <2>3. SeamsOf(Append(Append(trail, hop), r), to) = SeamsOf(Append(trail, hop), "Verifying")
      BY <1>2, <2>1, RecordedMove
    <2>4. ArmsOnly(Append(Append(trail, hop), r))
      BY <1>2, <2>1, OneMoreArm
    <2> QED
      BY <1>2, <1>4, <1>i, <1>g, <2>2, <2>3, <2>4
  <1>5. ASSUME NEW to \in States, wfState' = to, trail' = Append(trail, hop),
               unaudited' = unaudited + 1
        PROVE  AuditTrailReplays'
    <2>1. /\ Cardinality(SeamsOf(Append(trail, hop), to))
                <= Cardinality(SeamsOf(Append(trail, hop), "Verifying")) + 1
          /\ Cardinality(SeamsOf(Append(trail, hop), to)) \in Nat
          /\ Cardinality(SeamsOf(Append(trail, hop), "Verifying")) \in Nat
      BY <1>2, LostMove, SeamsFinite
    <2>2. Cardinality(SeamsOf(Append(trail, hop), "Verifying")) <= unaudited
      BY <1>2, <1>i
    <2>3. Cardinality(SeamsOf(Append(trail, hop), to)) <= unaudited + 1
      BY <1>t, <2>1, <2>2
    <2> QED
      BY <1>2, <1>5, <1>g, <2>3
  <1> QED
    BY <1>d, <1>3, <1>4, <1>5

\* Whatever signal is applied, legal or not, the trail still replays.
LEMMA ApplyReplays ==
    ASSUME SwarmTypeOK, AuditTrailReplays, NEW sig \in Signals, Apply(sig)
    PROVE  AuditTrailReplays'
  <1>1. CASE wfState = "Executing" /\ sig \in Verdicts /\ VerdictHop(sig)
    BY <1>1, VerdictReplays
  <1>2. CASE \E to \in States : NextState(wfState, sig, to) /\ ApplySingle(to, sig)
    BY <1>2, SingleReplays
  <1>3. CASE UNCHANGED wfVars
    BY <1>3 DEF wfVars, AuditTrailReplays, Seams
  <1> QED
    BY <1>1, <1>2, <1>3 DEF Apply

\* The stored audit trail of a run replays to the state of its machine, for every
\* number of reports: a seam only where the sink lost a record.
THEOREM TrailReplays == SwarmSpec => []AuditTrailReplays
  <1>1. SwarmInit => AuditTrailReplays
    <2> SUFFICES ASSUME SwarmInit PROVE AuditTrailReplays
      OBVIOUS
    <2>1. trail = <<>> /\ wfState = "Intake" /\ unaudited = 0
      BY DEF SwarmInit, WFInit
    <2>2. Seams = {}
      BY <2>1 DEF Seams
    <2> QED
      BY <2>1, <2>2, FS_EmptySet DEF AuditTrailReplays
  <1>2. SwarmTypeOK /\ AuditTrailReplays /\ [SwarmNext]_swarmVars => AuditTrailReplays'
    <2> SUFFICES ASSUME SwarmTypeOK, AuditTrailReplays, [SwarmNext]_swarmVars
                 PROVE  AuditTrailReplays'
      OBVIOUS
    <2>s. ReportSignals \subseteq Signals /\ Verdicts \subseteq Signals
            /\ {"IntentReceived", "PolicyApproved", "PolicyRejected", "PlanCommitted",
                "TaskScheduled", "ExecutionStarted", "Closed"} \subseteq Signals
      BY DEF ReportSignals, Verdicts, Signals
    <2>1. CASE \E sig \in Signals : Apply(sig)
      BY <2>1, ApplyReplays
    <2>2. CASE UNCHANGED wfVars
      BY <2>2 DEF wfVars, AuditTrailReplays, Seams
    <2> QED
      BY <2>1, <2>2, <2>s DEF SwarmNext, swarmVars, Finished, Cancel, Abort, LastReport, Close,
         Verify, FoldReport, StartExecution, ScheduleTasks, CommitPlan, Revise, ReviewPolicy,
         ReceiveIntent, Send
  <1> QED
    BY <1>1, <1>2, TypeInvariant, PTL DEF SwarmSpec

-----------------------------------------------------------------------------
(* The evidence ledger *)

\* A hash that the next record may hang on.
Anchored(h) == h = GenesisHash \/ \E p \in stored : p.hash = h

\* The inductive invariant: the numbers in use are below the counter, and what a writer read
\* as the latest hash is still in the ledger, however long ago that was.
ChainInv ==
    /\ ChainTypeOK
    /\ \A r \in stored : r.seq \in Nat /\ r.seq < seq
    /\ \A w \in Writers : writer[w].at = "write" => Anchored(writer[w].prev)

\* The latest hash belongs to a stored record, or nothing is stored.
LEMMA LatestIsAnchored == \A h \in LatestHash : Anchored(h)
BY DEF LatestHash, Anchored

\* The initial state satisfies the invariant.
LEMMA ChainInitInv == ChainInit => ChainInv
BY ChainConstants DEF ChainInit, ChainInv, ChainTypeOK, NoAppend

\* Every step preserves it.
LEMMA ChainStep == ChainInv /\ [ChainNext]_chainVars => ChainInv'
<1> SUFFICES ASSUME ChainInv, [ChainNext]_chainVars PROVE ChainInv'
  OBVIOUS
<1> USE ChainConstants DEF ChainInv, ChainTypeOK
<1>1. CASE Tick
  BY <1>1 DEF Tick, Anchored
<1>2. ASSUME NEW w \in Writers, BeginAppend(w) PROVE ChainInv'
  BY <1>2 DEF BeginAppend, Anchored
<1>3. ASSUME NEW w \in Writers, ReadLatest(w) PROVE ChainInv'
  <2>1. PICK expected \in LatestHash :
           \/ /\ writer' = [writer EXCEPT ![w] = [at |-> "write", time |-> writer[w].time,
                                                  given |-> NoHash, prev |-> expected]]
              /\ UNCHANGED audits
           \/ writer' = [writer EXCEPT ![w] = NoAppend] /\ audits' = audits + 1
    BY <1>3 DEF ReadLatest
  <2>2. Anchored(expected)
    BY LatestIsAnchored
  <2>3. UNCHANGED <<now, seq, appends, stored, contended>>
    BY <1>3 DEF ReadLatest
  <2>4. ChainTypeOK'
    BY <2>1, <2>3 DEF NoAppend
  <2>5. (\A v \in Writers : writer[v].at = "write" => Anchored(writer[v].prev))'
    BY <2>1, <2>2, <2>3 DEF NoAppend, Anchored
  <2> QED
    BY <2>3, <2>4, <2>5
<1>4. ASSUME NEW w \in Writers, PutRecord(w) PROVE ChainInv'
  <2>1. /\ stored' = stored \cup {StageRecord(w)} /\ seq' = seq + 1
        /\ writer' = [writer EXCEPT ![w] = NoAppend]
        /\ UNCHANGED <<now, appends, audits, contended>>
    BY <1>4 DEF PutRecord
  <2>2. StageRecord(w).seq = seq
    BY DEF StageRecord
  <2>3. \A r \in stored' : r.seq \in Nat /\ r.seq < seq'
    BY <2>1, <2>2
  <2>4. \A a, b \in stored' : a.time = b.time /\ a.seq = b.seq => a = b
    BY <2>1, <2>2
  <2>5. \A v \in Writers : writer'[v].at = "write" =>
            v # w /\ writer[v].at = "write" /\ writer'[v] = writer[v]
    BY <2>1 DEF NoAppend
  <2>6. (\A v \in Writers : writer[v].at = "write" => Anchored(writer[v].prev))'
    BY <2>1, <2>5 DEF Anchored
  <2>7. ChainTypeOK'
    BY <2>1, <2>4 DEF NoAppend
  <2> QED
    BY <2>3, <2>6, <2>7
<1>5. ASSUME NEW w \in Writers, AppendAborted(w) PROVE ChainInv'
  BY <1>5 DEF AppendAborted, Anchored, NoAppend
<1>6. CASE UNCHANGED chainVars
  BY <1>6 DEF chainVars, Anchored
<1> QED
  BY <1>1, <1>2, <1>3, <1>4, <1>5, <1>6 DEF ChainNext

\* append_stage keeps the ledger well-formed: no two records ever share a key,
\* whatever overlaps and fails.
THEOREM ChainTypes == ChainSpec => []ChainTypeOK
<1>1. ChainInv => ChainTypeOK
  BY DEF ChainInv
<1> QED
  BY <1>1, ChainInitInv, ChainStep, PTL DEF ChainSpec

\* A step of the ledger is a step of the abstract log, or leaves it alone.
LEMMA WormStep == ChainInv /\ [ChainNext]_chainVars => [Worm!LogNext]_stored
<1> SUFFICES ASSUME ChainInv, [ChainNext]_chainVars, stored' # stored
             PROVE  Worm!LogNext
  OBVIOUS
<1>1. PICK w \in Writers : PutRecord(w)
  BY DEF ChainNext, Tick, BeginAppend, ReadLatest, AppendAborted, chainVars
<1>2. stored' = stored \cup {StageRecord(w)} /\ StageRecord(w) \notin stored
  BY <1>1 DEF PutRecord
<1>3. Anchored(writer[w].prev) /\ StageRecord(w).prev = writer[w].prev
  BY <1>1 DEF PutRecord, ChainInv, StageRecord
<1> QED
  BY <1>2, <1>3 DEF Worm!LogNext, Worm!AddRecord, Anchored

\* The concurrent, lock-free ledger implements the WORM log: records are only
\* added, and each hangs on "genesis" or on one that was there before.
THEOREM LedgerIsWorm == ChainSpec => WormLedger
<1>1. ChainInit => Worm!LogInit
  BY DEF ChainInit, Worm!LogInit
<1> QED
  BY <1>1, ChainInitInv, ChainStep, WormStep, PTL DEF ChainSpec, WormLedger, Worm!LogSpec

-----------------------------------------------------------------------------
(* What verify_stage_chain makes of the ledger *)

\* Different numbers have different places among the keys of a millisecond.
LEMMA SeqRankInjective ==
    ASSUME NEW a \in Nat, NEW b \in Nat, SeqRank(a) = SeqRank(b)
    PROVE  a = b
BY DEF SeqRank

\* The place of a number is a number.
LEMMA SeqRankType == ASSUME NEW a \in Nat PROVE SeqRank(a) \in Nat
BY DEF SeqRank

\* The records of s are in the order of the listing.
Listed(s) == \A i, j \in DOMAIN s : i < j => ListedBefore(s[i], s[j])

\* verify_stage_chain accepts the records of s, in their order.
Verified(s) ==
    \A i \in DOMAIN s :
        /\ s[i].prev = IF i = 1 THEN GenesisHash ELSE s[i - 1].hash
        /\ s[i].hash = StageHash(s[i].prev, s[i].time, s[i].body)

\* The records have time stamps of the past, and there are finitely many.
TimesHeld ==
    /\ IsFiniteSet(stored) /\ now \in Nat
    /\ \A r \in stored : r.time \in Nat /\ r.time <= now
    /\ \A w \in Writers : writer[w].time \in Nat /\ writer[w].time <= now

\* At most one append is under way, it began after every record that is stored,
\* and the hash it has read is still the latest.
OneAppend ==
    /\ \A v, w \in Writers : writer[v].at # "idle" /\ writer[w].at # "idle" => v = w
    /\ \A w \in Writers : writer[w].at # "idle" =>
            \A r \in stored : r.time <= writer[w].time
    /\ \A w \in Writers : writer[w].at = "write" => writer[w].prev \in LatestHash

\* Some order of the records is the order of the listing, and verifies.
SomeVerified == \E s \in SetToSeqs(stored) : Listed(s) /\ Verified(s)

\* The inductive invariant of a ledger whose appends never overlapped.
TurnsInv ==
    /\ TimesHeld /\ contended \in BOOLEAN
    /\ contended = FALSE => OneAppend
    /\ contended = FALSE /\ ~KeysOutOfOrder => SomeVerified

\* The sequences of the elements of a set, each once.
LEMMA SeqsOfSet ==
    ASSUME NEW S, NEW s
    PROVE  s \in SetToSeqs(S) <=>
              /\ s \in [1..Cardinality(S) -> S]
              /\ \A i, j \in 1..Cardinality(S) : i # j => s[i] # s[j]
BY DEF SetToSeqs

\* A listing reaches every record.
LEMMA ListingIsOnto ==
    ASSUME NEW S, IsFiniteSet(S), NEW s \in SetToSeqs(S), NEW x \in S
    PROVE  \E i \in 1..Cardinality(S) : s[i] = x
<1>1. /\ s \in [1..Cardinality(S) -> S]
      /\ \A i, j \in 1..Cardinality(S) : i # j => s[i] # s[j]
  BY SeqsOfSet
<1>2. s \in Injection(1..Cardinality(S), S)
  BY <1>1 DEF Injection, IsInjective
<1>3. Cardinality(S) \in Nat
  BY FS_CardinalityType
<1>4. Cardinality(1..Cardinality(S)) = Cardinality(S)
  BY <1>3, FS_Interval
<1>5. s \in Surjection(1..Cardinality(S), S)
  BY <1>2, <1>4, FS_Injection
<1> QED
  BY <1>5 DEF Surjection

\* There is one listing: where two differ first, each would list the other's
\* record later than its own.
LEMMA ListingIsUnique ==
    ASSUME IsFiniteSet(stored), \A r \in stored : r.time \in Nat /\ r.seq \in Nat,
           NEW s \in SetToSeqs(stored), NEW t \in SetToSeqs(stored), Listed(s), Listed(t)
    PROVE  s = t
<1> DEFINE n == Cardinality(stored)
           D == {i \in 1..n : s[i] # t[i]}
<1>1. n \in Nat
  BY FS_CardinalityType
<1>2. /\ s \in [1..n -> stored] /\ t \in [1..n -> stored]
      /\ \A i, j \in 1..n : i # j => s[i] # s[j] /\ t[i] # t[j]
  BY SeqsOfSet
<1>o. \A x \in stored : (\E i \in 1..n : s[i] = x) /\ (\E i \in 1..n : t[i] = x)
  BY ListingIsOnto
<1> HIDE DEF n
<1>f. s \in [1..n -> stored] /\ t \in [1..n -> stored]
  BY <1>2
<1>e. ASSUME \A i \in 1..n : s[i] = t[i] PROVE s = t
  <2>1. DOMAIN s = DOMAIN t /\ \A i \in DOMAIN s : s[i] = t[i]
    BY <1>e, <1>f
  <2>2. s = [i \in DOMAIN s |-> s[i]] /\ t = [i \in DOMAIN t |-> t[i]]
    BY <1>f
  <2> QED
    BY <2>1, <2>2, Zenon
<1>3. SUFFICES ASSUME D # {} PROVE FALSE
  BY <1>e
<1>4. D \subseteq Nat
  BY <1>1
<1>5. PICK m \in D : \A k \in D : ~(<<k, m>> \in OpToRel(<, Nat))
  BY <1>3, <1>4, WFMin, NatLessThanWellFounded
<1>6. m \in 1..n /\ s[m] # t[m] /\ \A k \in 1..n : k < m => s[k] = t[k]
  BY <1>1, <1>4, <1>5 DEF OpToRel
<1>7. PICK i \in 1..n : s[i] = t[m]
  BY <1>2, <1>6, <1>o
<1>8. PICK j \in 1..n : t[j] = s[m]
  BY <1>2, <1>6, <1>o
<1>9. i # m /\ j # m
  BY <1>6, <1>7, <1>8
<1>10. ~(i < m)
  BY <1>2, <1>6, <1>7, <1>9
<1>11. ~(j < m)
  BY <1>2, <1>6, <1>8, <1>9
<1>12. m < i /\ m < j
  BY <1>1, <1>6, <1>9, <1>10, <1>11
<1>13. ListedBefore(s[m], t[m])
  BY <1>2, <1>6, <1>7, <1>12 DEF Listed
<1>14. ListedBefore(t[m], s[m])
  BY <1>2, <1>6, <1>8, <1>12 DEF Listed
<1>15. s[m] \in stored /\ t[m] \in stored
  BY <1>2, <1>6
<1>16. /\ s[m].time \in Nat /\ t[m].time \in Nat
       /\ SeqRank(s[m].seq) \in Nat /\ SeqRank(t[m].seq) \in Nat
  BY <1>15, SeqRankType
<1> QED
  BY <1>13, <1>14, <1>16 DEF ListedBefore

\* A ledger with a listing that verifies is verified.
LEMMA SomeIsTheListing ==
    ASSUME TimesHeld, ChainInv, SomeVerified
    PROVE  VerifyStageChain
<1>1. PICK s \in SetToSeqs(stored) : Listed(s) /\ Verified(s)
  BY DEF SomeVerified
<1>2. ListStageRecords \in SetToSeqs(stored) /\ Listed(ListStageRecords)
  BY <1>1 DEF ListStageRecords, Listed
<1>3. ListStageRecords = s
  BY <1>1, <1>2, ListingIsUnique DEF TimesHeld, ChainInv
<1> QED
  BY <1>1, <1>3 DEF VerifyStageChain, Verified

\* The record an append stores, and where it is listed.
LEMMA PutListedLast ==
    ASSUME TimesHeld, ChainInv, OneAppend, NEW w \in Writers, PutRecord(w), ~KeysOutOfOrder'
    PROVE  /\ StageRecord(w) \notin stored
           /\ \A p \in stored : ListedBefore(p, StageRecord(w))
<1>1. /\ StageRecord(w).time = writer[w].time /\ StageRecord(w).seq = seq
      /\ stored' = stored \cup {StageRecord(w)} /\ writer[w].at = "write"
  BY DEF StageRecord, PutRecord
<1>t. seq \in Nat /\ writer[w].time \in Nat
  BY DEF ChainInv, ChainTypeOK, TimesHeld
<1>2. StageRecord(w) \notin stored
  BY <1>1, <1>t DEF ChainInv
<1>3. ASSUME NEW p \in stored PROVE ListedBefore(p, StageRecord(w))
  <2>1. /\ p.time \in Nat /\ p.time <= writer[w].time
        /\ p.seq \in Nat /\ p.seq < seq
    BY <1>1 DEF TimesHeld, OneAppend, ChainInv
  <2>2. SeqRank(p.seq) \in Nat /\ SeqRank(seq) \in Nat
    BY <1>t, <2>1, SeqRankType
  <2>3. SeqRank(p.seq) # SeqRank(seq)
    BY <1>t, <2>1, SeqRankInjective
  <2>4. p.time = writer[w].time => ~(SeqRank(p.seq) > SeqRank(seq))
    BY <1>1, <2>1 DEF KeysOutOfOrder
  <2>5. p.time = writer[w].time => SeqRank(p.seq) < SeqRank(seq)
    BY <2>2, <2>3, <2>4
  <2>6. p.time < writer[w].time \/ p.time = writer[w].time
    BY <1>t, <2>1
  <2> QED
    BY <1>1, <2>5, <2>6 DEF ListedBefore
<1> QED
  BY <1>2, <1>3

\* The stored record is listed last and names the hash of the one before it.
LEMMA PutVerifies ==
    ASSUME TimesHeld, ChainInv, OneAppend, SomeVerified, NEW w \in Writers, PutRecord(w),
           ~KeysOutOfOrder'
    PROVE  SomeVerified'
<1> DEFINE r == StageRecord(w)
           n == Cardinality(stored)
<1>1. /\ r.prev = writer[w].prev /\ r.hash = StageHash(r.prev, r.time, r.body)
      /\ stored' = stored \cup {r} /\ writer[w].at = "write"
  BY DEF StageRecord, PutRecord
<1>2. r \notin stored /\ \A p \in stored : ListedBefore(p, r)
  BY PutListedLast
<1>3. n \in Nat /\ Cardinality(stored') = n + 1
  BY <1>1, <1>2, FS_CardinalityType, FS_AddElement DEF TimesHeld
<1>4. PICK s \in SetToSeqs(stored) : Listed(s) /\ Verified(s)
  BY DEF SomeVerified
<1>5. s \in [1..n -> stored] /\ \A i, j \in 1..n : i # j => s[i] # s[j]
  BY <1>4, SeqsOfSet
<1>l. writer[w].prev \in LatestHash
  BY <1>1 DEF OneAppend
<1>o. \A x \in stored : \E i \in 1..n : s[i] = x
  BY <1>4, ListingIsOnto DEF TimesHeld
<1>z. stored = {} <=> n = 0
  BY FS_EmptySet DEF TimesHeld
<1> DEFINE t == [i \in 1..(n + 1) |-> IF i = n + 1 THEN r ELSE s[i]]
<1> HIDE DEF r, n
<1>6. t \in [1..(n + 1) -> stored'] /\ \A i, j \in 1..(n + 1) : i # j => t[i] # t[j]
  <2>1. ASSUME NEW i \in 1..(n + 1)
        PROVE  /\ i = n + 1 => t[i] = r
               /\ i # n + 1 => i \in 1..n /\ t[i] = s[i] /\ t[i] \in stored
    BY <1>3, <1>5
  <2> HIDE DEF t
  <2>2. \A i \in 1..(n + 1) : t[i] \in stored'
    BY <1>1, <2>1
  <2>3. \A i, j \in 1..(n + 1) : i # j => t[i] # t[j]
    BY <1>2, <1>5, <2>1
  <2> QED
    BY <2>2, <2>3 DEF t
<1>7. t \in SetToSeqs(stored')
  BY <1>3, <1>6, SeqsOfSet
<1>8. \A i \in 1..n : t[i] = s[i] /\ t[i] \in stored /\ i \in 1..(n + 1)
  BY <1>3, <1>5
<1>9. t[n + 1] = r /\ DOMAIN t = 1..(n + 1)
  BY <1>3
<1> HIDE DEF t
<1>10. Listed(t)
  <2> SUFFICES ASSUME NEW i \in 1..(n + 1), NEW j \in 1..(n + 1), i < j
               PROVE  ListedBefore(t[i], t[j])
    BY <1>9 DEF Listed
  <2>1. i \in 1..n
    BY <1>3
  <2>2. CASE j = n + 1
    BY <1>2, <1>8, <1>9, <2>1, <2>2
  <2>3. CASE j # n + 1
    <3>1. j \in 1..n
      BY <1>3, <2>3
    <3> QED
      BY <1>4, <1>5, <1>8, <2>1, <3>1 DEF Listed
  <2> QED
    BY <2>2, <2>3
<1>11. r.prev = IF n = 0 THEN GenesisHash ELSE s[n].hash
  <2>1. CASE n = 0
    BY <1>1, <1>l, <1>z, <2>1 DEF LatestHash
  <2>2. CASE n # 0
    <3>1. PICK q \in stored : r.prev = q.hash /\ \A p \in stored : ~ListedBefore(q, p)
      BY <1>1, <1>l, <1>z, <2>2 DEF LatestHash
    <3>2. PICK k \in 1..n : s[k] = q
      BY <1>o
    <3>3. n \in 1..n
      BY <1>3, <2>2
    <3>4. ~(k < n)
      BY <1>4, <1>5, <3>1, <3>2, <3>3 DEF Listed
    <3>5. k = n
      BY <1>3, <3>2, <3>4
    <3> QED
      BY <2>2, <3>1, <3>2, <3>5
  <2> QED
    BY <2>1, <2>2
<1>12. Verified(t)
  <2> SUFFICES ASSUME NEW i \in 1..(n + 1)
               PROVE  /\ t[i].prev = IF i = 1 THEN GenesisHash ELSE t[i - 1].hash
                      /\ t[i].hash = StageHash(t[i].prev, t[i].time, t[i].body)
    BY <1>9 DEF Verified
  <2>1. CASE i = n + 1
    <3>1. n = 0 <=> i = 1
      BY <1>3, <2>1
    <3>2. n # 0 => i - 1 = n /\ n \in 1..n
      BY <1>3, <2>1
    <3> QED
      BY <1>1, <1>8, <1>9, <1>11, <2>1, <3>1, <3>2
  <2>2. CASE i # n + 1
    <3>1. i \in 1..n
      BY <1>3, <2>2
    <3>2. i # 1 => i - 1 \in 1..n
      BY <1>3, <3>1
    <3>3. i \in DOMAIN s
      BY <1>5, <3>1
    <3>4. /\ s[i].prev = IF i = 1 THEN GenesisHash ELSE s[i - 1].hash
          /\ s[i].hash = StageHash(s[i].prev, s[i].time, s[i].body)
      BY <1>4, <3>3 DEF Verified
    <3> QED
      BY <1>8, <3>1, <3>2, <3>4
  <2> QED
    BY <2>1, <2>2
<1>13. PICK u : u = t
  OBVIOUS
<1>14. u \in SetToSeqs(stored') /\ Listed(u) /\ Verified(u)
  BY <1>7, <1>10, <1>12, <1>13
<1> QED
  BY <1>14 DEF SomeVerified, Listed, Verified, ListedBefore, StageHash

\* An empty ledger satisfies the invariant.
LEMMA TurnsInit == ChainInit => TurnsInv
<1> SUFFICES ASSUME ChainInit PROVE TurnsInv
  OBVIOUS
<1>1. stored = {} /\ now = 0 /\ \A w \in Writers : writer[w].at = "idle" /\ writer[w].time = 0
  BY DEF ChainInit, NoAppend
<1>2. Cardinality(stored) = 0 /\ IsFiniteSet(stored)
  BY <1>1, FS_EmptySet
<1>3. TimesHeld /\ OneAppend
  BY <1>1, <1>2 DEF TimesHeld, OneAppend
<1>4. PICK s : s = [i \in 1..0 |-> 0]
  OBVIOUS
<1>5. s \in [1..0 -> stored] /\ DOMAIN s = {}
  BY <1>4
<1>6. s \in SetToSeqs(stored)
  BY <1>2, <1>5, SeqsOfSet
<1>7. Listed(s) /\ Verified(s)
  BY <1>5 DEF Listed, Verified
<1>8. contended \in BOOLEAN
  BY DEF ChainInit
<1> QED
  BY <1>3, <1>6, <1>7, <1>8 DEF TurnsInv, SomeVerified

\* A step that stores nothing, keeps the time stamps of the past and leaves
\* contended FALSE only where it was: what is listed stays verified.
LEMMA NothingStored ==
    ASSUME TurnsInv, stored' = stored, TimesHeld', contended' \in BOOLEAN,
           contended' = FALSE => contended = FALSE,
           contended' = FALSE => OneAppend'
    PROVE  TurnsInv'
<1>1. KeysOutOfOrder' <=> KeysOutOfOrder
  BY DEF KeysOutOfOrder
<1>2. SomeVerified' <=> SomeVerified
  BY DEF SomeVerified, Listed, Verified, ListedBefore, StageHash
<1> QED
  BY <1>1, <1>2 DEF TurnsInv

\* Every step preserves the invariant.
LEMMA TurnsStep == ChainInv /\ TurnsInv /\ [ChainNext]_chainVars => TurnsInv'
<1> SUFFICES ASSUME ChainInv, TurnsInv, [ChainNext]_chainVars PROVE TurnsInv'
  OBVIOUS
<1>t. /\ TimesHeld /\ DOMAIN writer = Writers
      /\ \A w \in Writers : writer[w].at \in {"idle", "read", "write"}
  BY DEF TurnsInv, ChainInv, ChainTypeOK
<1>n. IsFiniteSet(stored) /\ now \in Nat /\ MaxClock \in Nat
  BY <1>t, ChainConstants DEF TimesHeld
<1>1. CASE Tick
  <2>1. /\ now' = now + 1 /\ UNCHANGED <<stored, writer, contended>>
    BY <1>1 DEF Tick
  <2>2. TimesHeld'
    BY <1>t, <1>n, <2>1 DEF TimesHeld
  <2>3. OneAppend => OneAppend'
    BY <2>1 DEF OneAppend, LatestHash, ListedBefore
  <2> QED
    BY <2>1, <2>2, <2>3, NothingStored DEF TurnsInv
<1>2. ASSUME NEW w \in Writers, BeginAppend(w) PROVE TurnsInv'
  <2>1. PICK given : writer' = [writer EXCEPT ![w] = [at |-> "read", time |-> now, given |-> given,
                                                      prev |-> NoHash]]
    BY <1>2 DEF BeginAppend
  <2>2. UNCHANGED <<now, stored>>
    BY <1>2 DEF BeginAppend
  <2>3. /\ writer'[w].at = "read" /\ writer'[w].time = now
        /\ \A v \in Writers : v # w => writer'[v] = writer[v]
    BY <1>t, <2>1
  <2>4. TimesHeld'
    BY <1>t, <1>n, <2>2, <2>3 DEF TimesHeld
  <2>5. contended' = (contended \/ \E v \in Writers : writer[v].at # "idle")
    BY <1>2 DEF BeginAppend
  <2>6. contended' = FALSE => contended = FALSE /\ \A v \in Writers : writer[v].at = "idle"
    <3>1. contended \in BOOLEAN
      BY DEF TurnsInv
    <3>2. CASE contended = TRUE
      BY <2>5, <3>2
    <3>3. CASE contended = FALSE
      BY <2>5, <3>3
    <3> QED
      BY <3>1, <3>2, <3>3
  <2>7. ASSUME \A v \in Writers : writer[v].at = "idle" PROVE OneAppend'
    BY <1>t, <1>n, <2>2, <2>3, <2>7 DEF OneAppend, TimesHeld
  <2>8. contended' \in BOOLEAN
    BY <2>5
  <2>9. contended' = FALSE => contended = FALSE
    BY <2>6
  <2>10. contended' = FALSE => OneAppend'
    BY <2>6, <2>7
  <2> QED
    BY <2>2, <2>4, <2>8, <2>9, <2>10, NothingStored
<1>3. ASSUME NEW w \in Writers, ReadLatest(w) PROVE TurnsInv'
  <2>1. PICK expected \in LatestHash :
           \/ writer' = [writer EXCEPT ![w] = [at |-> "write", time |-> writer[w].time,
                                               given |-> NoHash, prev |-> expected]]
           \/ writer' = [writer EXCEPT ![w] = NoAppend]
    BY <1>3 DEF ReadLatest
  <2>2. UNCHANGED <<now, stored, contended>> /\ writer[w].at = "read"
    BY <1>3 DEF ReadLatest
  <2>3. /\ \A v \in Writers : v # w => writer'[v] = writer[v]
        /\ \/ /\ writer'[w].at = "write" /\ writer'[w].time = writer[w].time
              /\ writer'[w].prev = expected
           \/ writer'[w].at = "idle" /\ writer'[w].time = 0
    BY <1>t, <2>1 DEF NoAppend
  <2>4. TimesHeld'
    BY <1>t, <1>n, <2>2, <2>3 DEF TimesHeld
  <2>5. LatestHash' = LatestHash
    BY <2>2 DEF LatestHash, ListedBefore
  <2>6. OneAppend => OneAppend'
    <3> SUFFICES ASSUME OneAppend PROVE OneAppend'
      OBVIOUS
    <3>1. \A v \in Writers : writer'[v].at # "idle" => writer[v].at # "idle"
                                /\ writer'[v].time = writer[v].time
      BY <2>2, <2>3
    <3>2. \A v \in Writers : writer'[v].at = "write" => writer'[v].prev \in LatestHash
      BY <2>3 DEF OneAppend
    <3> QED
      BY <2>2, <2>5, <3>1, <3>2 DEF OneAppend
  <2> QED
    BY <2>2, <2>4, <2>6, NothingStored DEF TurnsInv
<1>4. ASSUME NEW w \in Writers, PutRecord(w) PROVE TurnsInv'
  <2>1. /\ stored' = stored \cup {StageRecord(w)} /\ UNCHANGED <<now, contended>>
        /\ writer' = [writer EXCEPT ![w] = NoAppend] /\ writer[w].at = "write"
        /\ StageRecord(w).time = writer[w].time
    BY <1>4 DEF PutRecord, StageRecord
  <2>2. /\ \A v \in Writers : v # w => writer'[v] = writer[v]
        /\ writer'[w].at = "idle" /\ writer'[w].time = 0
    BY <1>t, <2>1 DEF NoAppend
  <2>3. IsFiniteSet(stored')
    BY <1>n, <2>1, FS_AddElement
  <2>4. TimesHeld'
    BY <1>t, <1>n, <2>1, <2>2, <2>3 DEF TimesHeld
  <2>5. ASSUME OneAppend PROVE OneAppend'
    <3>1. \A v \in Writers : writer'[v].at = "idle"
      BY <2>1, <2>2, <2>5 DEF OneAppend
    <3> QED
      BY <3>1 DEF OneAppend
  <2>6. KeysOutOfOrder => KeysOutOfOrder'
    BY <2>1 DEF KeysOutOfOrder
  <2>7. ASSUME OneAppend, SomeVerified, ~KeysOutOfOrder' PROVE SomeVerified'
    BY <1>4, <1>t, <2>7, PutVerifies
  <2> QED
    BY <2>1, <2>4, <2>5, <2>6, <2>7 DEF TurnsInv
<1>5. ASSUME NEW w \in Writers, AppendAborted(w) PROVE TurnsInv'
  <2>1. UNCHANGED <<now, stored, contended>> /\ writer' = [writer EXCEPT ![w] = NoAppend]
    BY <1>5 DEF AppendAborted
  <2>2. /\ \A v \in Writers : v # w => writer'[v] = writer[v]
        /\ writer'[w].at = "idle" /\ writer'[w].time = 0
    BY <1>t, <2>1 DEF NoAppend
  <2>3. TimesHeld'
    BY <1>t, <1>n, <2>1, <2>2 DEF TimesHeld
  <2>4. LatestHash' = LatestHash
    BY <2>1 DEF LatestHash, ListedBefore
  <2>5. OneAppend => OneAppend'
    BY <2>1, <2>2, <2>4 DEF OneAppend
  <2> QED
    BY <2>1, <2>3, <2>5, NothingStored DEF TurnsInv
<1>6. CASE UNCHANGED chainVars
  <2>1. UNCHANGED <<now, stored, contended, writer>>
    BY <1>6 DEF chainVars
  <2>2. TimesHeld'
    BY <1>t, <2>1 DEF TimesHeld
  <2>3. LatestHash' = LatestHash
    BY <2>1 DEF LatestHash, ListedBefore
  <2>4. OneAppend => OneAppend'
    BY <2>1, <2>3 DEF OneAppend
  <2> QED
    BY <2>1, <2>2, <2>4, NothingStored DEF TurnsInv
<1> QED
  BY <1>1, <1>2, <1>3, <1>4, <1>5, <1>6 DEF ChainNext

\* verify_stage_chain accepts every ledger whose appends never overlapped and whose
\* numbers gained no digit within a millisecond, for any writers, failures and
\* refused expectations (ChainVerifies).
THEOREM ChainIsVerified == ChainSpec => []ChainVerifies
<1>1. ChainInv /\ TurnsInv => ChainVerifies
  <2> SUFFICES ASSUME ChainInv, TurnsInv, contended = FALSE, ~KeysOutOfOrder
               PROVE  VerifyStageChain
    BY DEF ChainVerifies, TurnsInv
  <2> QED
    BY SomeIsTheListing DEF TurnsInv
<1> QED
  BY <1>1, ChainInitInv, ChainStep, TurnsInit, TurnsStep, PTL DEF ChainSpec

-----------------------------------------------------------------------------
(* The supermemory queue *)

\* The statuses of a job.
JobStatuses == {"none", "Queued", "Working", "Done"}
\* What an agent carries from await to await.
AgentRecs ==
    [at : {"idle", "row", "queued", "payload", "load", "begin", "begun", "store", "finish",
           "finished"},
     job : 0 .. MaxDocs, content : {"none", "payload", "source"}]

\* The rows, the index, the counts and the agents are well-formed.
QueueShapes ==
    /\ docs \in 0 .. MaxDocs /\ stamp \in 0 .. docs /\ picks \in 0 .. MaxPicks
    /\ jobRow \in [1 .. MaxDocs -> JobStatuses]
    /\ indexed \in [1 .. MaxDocs -> {"none", "payload", "source"}]
    /\ passes \in [1 .. MaxDocs -> Nat] /\ namesakes \in [1 .. MaxDocs -> Nat]
    /\ doubled \in [1 .. MaxDocs -> Nat]
    /\ agent \in [Agents -> AgentRecs]
    /\ latestJob.job \in 0 .. stamp

\* What an agent has in hand fits the place it is at.
AgentKept(a) ==
    /\ agent[a].at = "idle" => agent[a].job = 0
    /\ agent[a].at # "idle" => agent[a].job \in 1 .. stamp
    /\ agent[a].at = "payload" => agent[a].content # "none"
    /\ agent[a].at \in {"row", "queued", "payload"} /\ agent[a].content # "none" =>
          agent[a].content = "payload" /\ agent[a].job \in withContent
    /\ agent[a].at \in {"begin", "begun", "store"} => agent[a].content # "none"
    /\ agent[a].at \in {"finish", "finished"} => indexed[agent[a].job] # "none"

\* The records that hold of every id: nothing is stored of one that no call has got.
RecordsKept ==
    /\ payloads \subseteq withContent /\ withContent \subseteq 1 .. stamp
    /\ \A j \in 1 .. MaxDocs : jobRow[j] = "Done" => indexed[j] # "none"
    /\ \A j \in 1 .. MaxDocs : stamp < j =>
          passes[j] = 0 /\ indexed[j] = "none" /\ jobRow[j] = "none"
    /\ \A j \in 1 .. stamp : namesakes[j] > 0
    /\ \A a \in Agents : AgentKept(a)

\* The latest row of a job that was just queued.
AsQueued(j) == [job |-> j, status |-> "Queued"]

\* A row that waits for an agent's next write, or for nobody's since that agent failed.
Followed(j) ==
    /\ jobRow[j] = "none" =>
          \/ \E a \in Agents : agent[a].job = j /\ agent[a].at = "row"
          \/ <<j, "queueing">> \in failed
    /\ jobRow[j] = "Working" =>
          \/ \E a \in Agents : agent[a].job = j /\ agent[a].at \in {"begun", "store", "finish"}
          \/ <<j, "working">> \in failed

\* One agent at most has the job in hand.
Single(j) == \A a, b \in Agents : agent[a].job = j /\ agent[b].job = j => a = b

\* The places of an agent that has not begun the work: it will still write the job's row,
\* or give the job up.
Clearing == {"row", "queued", "payload", "load", "begin"}

\* The agents that may still bring the job through persist_pipeline.
Yet(j) == { a \in Agents : agent[a].job = j /\ agent[a].at \in Clearing \cup {"begun", "store"} }

\* A row shows the job as Queued, and no agent at work on it will overwrite that row.
Waits(j) ==
    \/ /\ jobRow[j] = "Queued"
       /\ \A a \in Agents : agent[a].job = j => agent[a].at \notin Clearing
    \/ /\ latestJob = AsQueued(j)
       /\ \A a \in Agents : agent[a].job = j => agent[a].at \notin Clearing \cup {"begun"}

Ahead(a, j) == IF a \in Yet(j) THEN 1 ELSE 0
Waiting(j)  == IF Waits(j) THEN 1 ELSE 0

\* Each call that got the id, and each pick out of another agent's hands, pays for one
\* pass: made, under way, or still to come from a row that waits.
Owed(j) == passes[j] + Cardinality(Yet(j)) + Waiting(j) <= namesakes[j] + doubled[j]

\* The content that a job came with is stored, or its call is about to store it, and
\* whoever has it in hand has it with its content.
ContentKept(j) ==
    /\ indexed[j] # "source"
    /\ \A a \in Agents : agent[a].job = j =>
          agent[a].content = "payload" \/ (agent[a].at = "load" /\ j \in payloads)
    /\ \/ j \in payloads
       \/ \E a \in Agents : agent[a].job = j /\ agent[a].at \in {"row", "queued", "payload"}

\* What holds of every id that a call has got.
JobKept(j) ==
    /\ Followed(j)
    /\ Owed(j)
    /\ namesakes[j] = 1 /\ doubled[j] = 0 =>
          /\ Single(j)
          /\ j \in withContent /\ <<j, "queueing">> \notin failed => ContentKept(j)

\* The inductive invariant of the supermemory queue.
QueueInv == QueueShapes /\ RecordsKept /\ \A j \in 1 .. stamp : JobKept(j)

\* An agent at rest has a well-formed record.
LEMMA AtRestIsAgent == AtRest \in AgentRecs /\ AtRest.at = "idle" /\ AtRest.job = 0
BY QueueBounds DEF AtRest, AgentRecs

\* An empty queue satisfies the invariant.
LEMMA QueueInitInv == QueueInit => QueueInv
<1> SUFFICES ASSUME QueueInit PROVE QueueInv
  OBVIOUS
<1>1. QueueShapes
  BY QueueBounds, AtRestIsAgent DEF QueueInit, QueueShapes, JobStatuses, NoDoc
<1>2. RecordsKept
  BY QueueBounds, AtRestIsAgent DEF QueueInit, RecordsKept, AgentKept
<1>3. \A j \in 1 .. stamp : JobKept(j)
  BY DEF QueueInit
<1> QED
  BY <1>1, <1>2, <1>3 DEF QueueInv

\* The worker's choice is one of the queued jobs.
LEMMA PickedIsQueued ==
    ASSUME QueueShapes, QueuedJobs # {}
    PROVE  Min(QueuedJobs) \in QueuedJobs
<1>1. QueuedJobs \subseteq Nat
  BY DEF QueuedJobs, QueueShapes
<1>2. PICK m \in QueuedJobs : \A n \in QueuedJobs : ~(<<n, m>> \in OpToRel(<, Nat))
  BY <1>1, WFMin, NatLessThanWellFounded
<1>3. \A n \in QueuedJobs : ~(n < m)
  BY <1>1, <1>2 DEF OpToRel
<1>4. \A n \in QueuedJobs : m =< n
  BY <1>1, <1>3
<1> QED
  BY <1>4 DEF Min

\* What an agent becomes.
AgentsStay(a) == \A b \in Agents \ {a} : agent'[b] = agent[b]

\* Sets that differ in one element at most.
LEMMA CountsDiffer ==
    ASSUME NEW S, NEW T, NEW x, IsFiniteSet(S), IsFiniteSet(T), S \ {x} = T \ {x}
    PROVE  /\ Cardinality(S) \in Nat /\ Cardinality(T) \in Nat
           /\ Cardinality(T) + (IF x \in S THEN 1 ELSE 0)
                 = Cardinality(S) + (IF x \in T THEN 1 ELSE 0)
<1>1. Cardinality(S) \in Nat /\ Cardinality(T) \in Nat
  BY FS_CardinalityType
<1>2. /\ Cardinality(S \ {x}) = IF x \in S THEN Cardinality(S) - 1 ELSE Cardinality(S)
      /\ Cardinality(T \ {x}) = IF x \in T THEN Cardinality(T) - 1 ELSE Cardinality(T)
  BY FS_RemoveElement
<1> QED
  BY <1>1, <1>2

\* A step of agent a keeps Owed if what it adds to the passes, to a's own part and to the
\* waiting row is paid for.
LEMMA OwedAfter ==
    ASSUME QueueShapes, QueueShapes', NEW a \in Agents, NEW j \in 1 .. MaxDocs, AgentsStay(a),
           Owed(j),
           passes'[j] + Ahead(a, j)' + Waiting(j)' + namesakes[j] + doubled[j]
              <= passes[j] + Ahead(a, j) + Waiting(j) + namesakes'[j] + doubled'[j]
    PROVE  Owed(j)'
<1>1. IsFiniteSet(Yet(j)) /\ IsFiniteSet(Yet(j)')
  BY QueueBounds, FS_Subset DEF Yet
<1>2. Yet(j) \ {a} = Yet(j)' \ {a}
  BY DEF Yet, AgentsStay
<1>3. /\ Cardinality(Yet(j)) \in Nat /\ Cardinality(Yet(j)') \in Nat
      /\ Cardinality(Yet(j)') + Ahead(a, j) = Cardinality(Yet(j)) + Ahead(a, j)'
  BY <1>1, <1>2, CountsDiffer DEF Ahead
<1>4. /\ Ahead(a, j) \in Nat /\ Ahead(a, j)' \in Nat /\ Waiting(j) \in Nat /\ Waiting(j)' \in Nat
      /\ passes[j] \in Nat /\ passes'[j] \in Nat /\ namesakes[j] \in Nat /\ namesakes'[j] \in Nat
      /\ doubled[j] \in Nat /\ doubled'[j] \in Nat
  BY DEF Ahead, Waiting, QueueShapes
<1> HIDE DEF Ahead, Waiting
<1>5. passes[j] + Cardinality(Yet(j)) + Waiting(j) <= namesakes[j] + doubled[j]
  BY DEF Owed
<1>6. passes'[j] + Cardinality(Yet(j)') + Waiting(j)' <= namesakes'[j] + doubled'[j]
  BY <1>3, <1>4, <1>5
<1> QED
  BY <1>6 DEF Owed

\* An agent that moves on keeps its job and its content.
LEMMA AgentMoves ==
    ASSUME QueueShapes, NEW a \in Agents,
           NEW next \in {"queued", "payload", "begin", "begun", "store", "finish", "finished"},
           agent' = [agent EXCEPT ![a].at = next]
    PROVE  /\ agent' \in [Agents -> AgentRecs] /\ AgentsStay(a)
           /\ agent'[a].at = next /\ agent'[a].job = agent[a].job
           /\ agent'[a].content = agent[a].content
<1>1. agent[a] \in AgentRecs /\ agent \in [Agents -> AgentRecs]
  BY DEF QueueShapes
<1>2. [agent[a] EXCEPT !.at = next] \in AgentRecs
  BY <1>1 DEF AgentRecs
<1>3. agent' = [agent EXCEPT ![a] = [agent[a] EXCEPT !.at = next]]
  OBVIOUS
<1>4. agent'[a] = [agent[a] EXCEPT !.at = next]
  BY <1>1
<1> QED
  BY <1>1, <1>2, <1>3, <1>4 DEF AgentsStay, AgentRecs

\* An agent that rests has no job.
LEMMA AgentRests ==
    ASSUME QueueShapes, NEW a \in Agents, agent' = [agent EXCEPT ![a] = AtRest]
    PROVE  /\ agent' \in [Agents -> AgentRecs] /\ AgentsStay(a)
           /\ agent'[a].at = "idle" /\ agent'[a].job = 0
BY AtRestIsAgent DEF QueueShapes, AgentsStay

\* An agent that has loaded the content keeps its job.
LEMMA AgentTakesContent ==
    ASSUME QueueShapes, NEW a \in Agents, NEW content \in {"payload", "source"},
           agent' = [agent EXCEPT ![a] = [@ EXCEPT !.at = "begin", !.content = content]]
    PROVE  /\ agent' \in [Agents -> AgentRecs] /\ AgentsStay(a)
           /\ agent'[a].at = "begin" /\ agent'[a].job = agent[a].job
           /\ agent'[a].content = content
<1>1. agent[a] \in AgentRecs /\ agent \in [Agents -> AgentRecs]
  BY DEF QueueShapes
<1>2. [agent[a] EXCEPT !.at = "begin", !.content = content] \in AgentRecs
  BY <1>1 DEF AgentRecs
<1>3. agent' = [agent EXCEPT ![a] = [agent[a] EXCEPT !.at = "begin", !.content = content]]
  OBVIOUS
<1>4. agent'[a] = [agent[a] EXCEPT !.at = "begin", !.content = content]
  BY <1>1
<1> QED
  BY <1>1, <1>2, <1>3, <1>4 DEF AgentsStay, AgentRecs

\* An agent that begins takes a job.
LEMMA AgentTakesJob ==
    ASSUME QueueShapes, NEW a \in Agents, NEW place \in {"row", "load"},
           NEW j \in 1 .. MaxDocs, NEW content \in {"none", "payload"},
           agent' = [agent EXCEPT ![a] = [at |-> place, job |-> j, content |-> content]]
    PROVE  /\ agent' \in [Agents -> AgentRecs] /\ AgentsStay(a)
           /\ agent'[a].at = place /\ agent'[a].job = j /\ agent'[a].content = content
<1>1. agent \in [Agents -> AgentRecs]
  BY DEF QueueShapes
<1>2. [at |-> place, job |-> j, content |-> content] \in AgentRecs
  BY QueueBounds DEF AgentRecs
<1> QED
  BY <1>1, <1>2 DEF AgentsStay

\* A step of agent a, that had no job or job j and has none or job j after it, leaves
\* the other jobs alone.
OthersUntouched(a, j) ==
    /\ AgentsStay(a) /\ agent[a].job \in {0, j} /\ agent'[a].job \in {0, j}
    /\ \A k \in 1 .. MaxDocs \ {j} :
          /\ jobRow'[k] = jobRow[k] /\ passes'[k] = passes[k] /\ indexed'[k] = indexed[k]
          /\ namesakes'[k] = namesakes[k]
          /\ k \in withContent' <=> k \in withContent
          /\ k \in payloads' <=> k \in payloads
          /\ doubled'[k] = doubled[k]
          /\ \A what \in {"queueing", "working"} :
                <<k, what>> \in failed' <=> <<k, what>> \in failed
    /\ latestJob' = latestJob \/ latestJob'.job = j

\* They stay as they were kept.
LEMMA OtherJobs ==
    ASSUME QueueShapes, QueueShapes', NEW a \in Agents, NEW j, NEW k \in 1 .. MaxDocs, k # j,
           OthersUntouched(a, j), JobKept(k)
    PROVE  JobKept(k)'
<1>l. latestJob' = latestJob \/ latestJob'.job = j
  BY DEF OthersUntouched
<1>2. latestJob' = AsQueued(k) => latestJob = AsQueued(k)
  <2>1. AsQueued(k).job = k
    BY DEF AsQueued
  <2> QED
    BY <1>l, <2>1
<1> USE DEF OthersUntouched
<1>0. k \in 1 .. MaxDocs \ {j} /\ k # 0
  OBVIOUS
<1>1. \A b \in Agents : agent'[b].job = k \/ agent[b].job = k => agent'[b] = agent[b]
  BY <1>0 DEF AgentsStay
<1>3. Followed(k)'
  <2>1. Followed(k) /\ jobRow'[k] = jobRow[k]
    BY <1>0 DEF JobKept
  <2>2. \A what \in {"queueing", "working"} : <<k, what>> \in failed => <<k, what>> \in failed'
    BY <1>0
  <2> QED
    BY <1>1, <2>1, <2>2 DEF Followed
<1>4. Single(k) => Single(k)'
  BY <1>1 DEF Single
<1>6. Owed(k)'
  <2>1. Ahead(a, k) = 0 /\ Ahead(a, k)' = 0
    BY <1>0 DEF Ahead, Yet
  <2>2. Waits(k)' => Waits(k)
    <3>1. jobRow'[k] = jobRow[k]
      BY <1>0
    <3> QED
      BY <1>1, <1>2, <3>1 DEF Waits
  <2>3. Waiting(k) \in Nat /\ Waiting(k)' \in Nat /\ Waiting(k)' <= Waiting(k)
    BY <2>2 DEF Waiting
  <2>4. passes'[k] = passes[k] /\ namesakes'[k] = namesakes[k] /\ doubled'[k] = doubled[k]
    BY <1>0
  <2>5. passes[k] \in Nat /\ namesakes[k] \in Nat /\ doubled[k] \in Nat
    BY DEF QueueShapes
  <2>6. passes'[k] + Ahead(a, k)' + Waiting(k)' + namesakes[k] + doubled[k]
           <= passes[k] + Ahead(a, k) + Waiting(k) + namesakes'[k] + doubled'[k]
    BY <2>1, <2>3, <2>4, <2>5
  <2> QED
    BY <2>6, OwedAfter DEF JobKept
<1>5. ContentKept(k) => ContentKept(k)'
  BY <1>0, <1>1 DEF ContentKept
<1> QED
  BY <1>0, <1>3, <1>4, <1>5, <1>6 DEF JobKept

\* A step that leaves the milliseconds and the calls alone keeps every job if it keeps the
\* one it works on.
LEMMA JobsFromOne ==
    ASSUME QueueInv, QueueShapes', NEW a \in Agents, NEW j, OthersUntouched(a, j),
           UNCHANGED stamp, JobKept(j)'
    PROVE  (\A k \in 1 .. stamp : JobKept(k))'
<1> SUFFICES ASSUME NEW k \in 1 .. stamp, k # j PROVE JobKept(k)'
  OBVIOUS
<1>1. k \in 1 .. MaxDocs
  BY QueueBounds DEF QueueInv, QueueShapes
<1> QED
  BY <1>1, OtherJobs DEF QueueInv

\* Every step leaves well-formed rows and keeps what holds of every id.
LEMMA QueueBasicsStep ==
    ASSUME QueueShapes, RecordsKept, [QueueNext]_queueVars
    PROVE  QueueShapes' /\ RecordsKept'
<1> USE QueueBounds
<1>0. /\ docs \in Nat /\ docs <= MaxDocs /\ stamp \in Nat /\ stamp <= docs /\ MaxDocs \in Nat
      /\ 1 .. stamp \subseteq 1 .. MaxDocs
  BY DEF QueueShapes
<1>a. ASSUME NEW a \in Agents, agent[a].at # "idle"
      PROVE  agent[a].job \in 1 .. stamp /\ agent[a].job \in 1 .. MaxDocs
  BY <1>0, <1>a DEF RecordsKept, AgentKept
<1>1. ASSUME NEW a \in Agents, NEW ms \in {stamp, stamp + 1} \ {0}, NEW full \in BOOLEAN,
             QueueIngestion(a, ms, full)
      PROVE  QueueShapes' /\ RecordsKept'
  <2> DEFINE content == IF full THEN "payload" ELSE "none"
  <2>1. /\ docs < MaxDocs /\ docs' = docs + 1 /\ stamp' = ms
        /\ agent' = [agent EXCEPT ![a] = [at |-> "row", job |-> ms, content |-> content]]
        /\ namesakes' = [namesakes EXCEPT ![ms] = @ + 1]
        /\ withContent' = IF full THEN withContent \cup {ms} ELSE withContent
        /\ UNCHANGED <<picks, jobRow, latestJob, payloads, indexed, passes, doubled>>
    BY <1>1 DEF QueueIngestion
  <2>2. /\ ms \in 1 .. MaxDocs /\ ms \in 0 .. docs' /\ docs' \in 0 .. MaxDocs
        /\ 1 .. stamp \subseteq 1 .. ms /\ 0 .. stamp \subseteq 0 .. ms /\ ms \in 1 .. ms
        /\ \A k \in 1 .. ms : k \in 1 .. stamp \/ k = ms
        /\ \A k \in 1 .. MaxDocs : ms < k => stamp < k
    BY <1>0, <2>1
  <2>3. content \in {"none", "payload"} /\ (content # "none" => full)
    OBVIOUS
  <2> HIDE DEF content
  <2>4. /\ agent' \in [Agents -> AgentRecs] /\ AgentsStay(a)
        /\ agent'[a].at = "row" /\ agent'[a].job = ms /\ agent'[a].content = content
    BY <2>1, <2>2, <2>3, AgentTakesJob
  <2>5. /\ namesakes' \in [1 .. MaxDocs -> Nat] /\ namesakes'[ms] = namesakes[ms] + 1
        /\ \A k \in 1 .. MaxDocs : k # ms => namesakes'[k] = namesakes[k]
    BY <2>1, <2>2 DEF QueueShapes
  <2>6. QueueShapes'
    BY <2>1, <2>2, <2>4, <2>5 DEF QueueShapes
  <2>7. \A k \in 1 .. stamp' : namesakes'[k] > 0
    <3>1. namesakes[ms] \in Nat
      BY <2>2 DEF QueueShapes
    <3> QED
      BY <1>0, <2>1, <2>2, <2>5, <3>1 DEF RecordsKept
  <2>8. \A b \in Agents : AgentKept(b)'
    BY <2>1, <2>2, <2>3, <2>4 DEF RecordsKept, AgentsStay, AgentKept
  <2> QED
    BY <2>1, <2>2, <2>6, <2>7, <2>8 DEF RecordsKept
<1>2. ASSUME NEW a \in Agents, PersistLatestQueued(a) PROVE QueueShapes' /\ RecordsKept'
  <2>1. /\ agent[a].at = "queued" /\ latestJob' = AsQueued(agent[a].job)
        /\ \/ agent' = [agent EXCEPT ![a] = AtRest]
           \/ agent[a].content # "none" /\ agent' = [agent EXCEPT ![a].at = "payload"]
        /\ UNCHANGED <<docs, stamp, picks, jobRow, payloads, indexed, namesakes, passes, withContent,
                       doubled>>
    BY <1>2 DEF PersistLatestQueued, PersistLatest, AsQueued
  <2>2. /\ agent' \in [Agents -> AgentRecs] /\ AgentsStay(a)
        /\ \/ agent'[a].at = "idle" /\ agent'[a].job = 0
           \/ /\ agent[a].content # "none" /\ agent'[a].at = "payload"
              /\ agent'[a].job = agent[a].job /\ agent'[a].content = agent[a].content
    BY <2>1, AgentRests, AgentMoves
  <2>3. latestJob'.job \in 0 .. stamp
    BY <1>0, <1>a, <2>1 DEF AsQueued
  <2>4. QueueShapes'
    BY <2>1, <2>2, <2>3, SMTT(30) DEF QueueShapes
  <2>5. \A b \in Agents : AgentKept(b)'
    BY <1>a, <2>1, <2>2 DEF RecordsKept, AgentsStay, AgentKept
  <2> QED
    BY <2>1, <2>4, <2>5 DEF RecordsKept
<1>3. ASSUME NEW a \in Agents, PersistPayload(a) PROVE QueueShapes' /\ RecordsKept'
  <2>1. /\ agent[a].at = "payload" /\ payloads' = payloads \cup {agent[a].job}
        /\ agent' = [agent EXCEPT ![a].at = "begin"]
        /\ UNCHANGED <<docs, stamp, picks, jobRow, latestJob, indexed, namesakes, passes, withContent,
                       doubled>>
    BY <1>3 DEF PersistPayload, Move
  <2>2. /\ agent' \in [Agents -> AgentRecs] /\ AgentsStay(a) /\ agent'[a].at = "begin"
        /\ agent'[a].job = agent[a].job /\ agent'[a].content = agent[a].content
    BY <2>1, AgentMoves
  <2>3. QueueShapes'
    BY <2>1, <2>2 DEF QueueShapes
  <2>4. \A b \in Agents : AgentKept(b)'
    BY <1>a, <2>1, <2>2 DEF RecordsKept, AgentsStay, AgentKept
  <2>5. agent[a].job \in withContent
    BY <2>1 DEF RecordsKept, AgentKept
  <2> QED
    BY <2>1, <2>3, <2>4, <2>5 DEF RecordsKept
<1>4. ASSUME NEW a \in Agents, PickJob(a) PROVE QueueShapes' /\ RecordsKept'
  <2> DEFINE j == Min(QueuedJobs)
  <2>1. /\ picks < MaxPicks /\ picks' = picks + 1 /\ QueuedJobs # {}
        /\ agent' = [agent EXCEPT ![a] = [at |-> "load", job |-> j, content |-> "none"]]
        /\ doubled' = IF InHand(j) = {} THEN doubled ELSE [doubled EXCEPT ![j] = @ + 1]
        /\ UNCHANGED <<docs, stamp, jobRow, latestJob, payloads, indexed, namesakes, passes,
                       withContent>>
    BY <1>4 DEF PickJob
  <2>2. j \in QueuedJobs
    BY <2>1, PickedIsQueued
  <2>3. j \in 1 .. stamp /\ j \in 1 .. MaxDocs
    <3>1. j \in 1 .. stamp
      BY <2>2 DEF QueuedJobs
    <3> HIDE DEF j
    <3> QED
      BY <1>0, <3>1
  <2> HIDE DEF j
  <2>4. /\ agent' \in [Agents -> AgentRecs] /\ AgentsStay(a)
        /\ agent'[a].at = "load" /\ agent'[a].job = j
    BY <2>1, <2>3, AgentTakesJob
  <2>5. QueueShapes'
    <3>1. picks' \in 0 .. MaxPicks
      BY <2>1 DEF QueueShapes
    <3>2. doubled' \in [1 .. MaxDocs -> Nat]
      BY <2>1, <2>3 DEF QueueShapes
    <3> QED
      BY <2>1, <2>4, <3>1, <3>2, SMTT(30) DEF QueueShapes
  <2>6. \A b \in Agents : AgentKept(b)'
    BY <2>1, <2>3, <2>4 DEF RecordsKept, AgentsStay, AgentKept
  <2> QED
    BY <2>1, <2>5, <2>6 DEF RecordsKept
<1>5. ASSUME NEW a \in Agents, LoadPayload(a) PROVE QueueShapes' /\ RecordsKept'
  <2> DEFINE content == IF agent[a].job \in payloads THEN "payload" ELSE "source"
  <2>1. /\ agent[a].at = "load" /\ content \in {"payload", "source"}
        /\ agent' = [agent EXCEPT ![a] = [@ EXCEPT !.at = "begin", !.content = content]]
        /\ UNCHANGED <<docs, stamp, picks, jobRow, latestJob, payloads, indexed, namesakes, passes,
                       withContent, doubled>>
    BY <1>5 DEF LoadPayload
  <2> HIDE DEF content
  <2>2. /\ agent' \in [Agents -> AgentRecs] /\ AgentsStay(a) /\ agent'[a].at = "begin"
        /\ agent'[a].job = agent[a].job /\ agent'[a].content = content
    BY <2>1, AgentTakesContent
  <2>3. QueueShapes'
    BY <2>1, <2>2 DEF QueueShapes
  <2>4. \A b \in Agents : AgentKept(b)'
    BY <1>a, <2>1, <2>2 DEF RecordsKept, AgentsStay, AgentKept
  <2> QED
    BY <2>1, <2>3, <2>4 DEF RecordsKept
<1>6. ASSUME NEW a \in Agents, PersistQueued(a) \/ BeginJob(a) \/ FinishJob(a)
      PROVE  QueueShapes' /\ RecordsKept'
  <2>1. PICK next \in {"queued", "begun", "finished"}, status \in {"Queued", "Working", "Done"} :
        /\ \/ agent[a].at = "row" /\ next = "queued" /\ status = "Queued"
           \/ agent[a].at \in {"begin", "store"} /\ next = "begun" /\ status = "Working"
           \/ agent[a].at = "finish" /\ next = "finished" /\ status = "Done"
        /\ agent' = [agent EXCEPT ![a].at = next]
        /\ jobRow' = [jobRow EXCEPT ![agent[a].job] = status]
        /\ UNCHANGED <<docs, stamp, picks, latestJob, payloads, indexed, namesakes, passes,
                       withContent, doubled>>
    BY <1>6 DEF PersistQueued, BeginJob, FinishJob, PersistRow, Move
  <2>2. /\ agent' \in [Agents -> AgentRecs] /\ AgentsStay(a) /\ agent'[a].at = next
        /\ agent'[a].job = agent[a].job /\ agent'[a].content = agent[a].content
    BY <2>1, AgentMoves
  <2>3. QueueShapes'
    BY <1>a, <2>1, <2>2 DEF QueueShapes, JobStatuses
  <2>4. /\ \A k \in 1 .. MaxDocs : jobRow'[k] = "Done" => indexed'[k] # "none"
        /\ \A k \in 1 .. MaxDocs : stamp < k => jobRow'[k] = "none"
    BY <1>0, <1>a, <2>1 DEF QueueShapes, RecordsKept, AgentKept
  <2>5. \A b \in Agents : AgentKept(b)'
    BY <1>a, <2>1, <2>2 DEF RecordsKept, AgentsStay, AgentKept
  <2> QED
    BY <2>1, <2>3, <2>4, <2>5 DEF RecordsKept
<1>7. ASSUME NEW a \in Agents, PersistLatestWorking(a) \/ PersistLatestDone(a)
      PROVE  QueueShapes' /\ RecordsKept'
  <2>1. /\ \/ agent[a].at = "begun" /\ agent' = [agent EXCEPT ![a].at = "store"]
           \/ agent[a].at = "finished" /\ agent' = [agent EXCEPT ![a] = AtRest]
        /\ latestJob'.job = agent[a].job
        /\ UNCHANGED <<docs, stamp, picks, jobRow, payloads, indexed, namesakes, passes, withContent,
                       doubled>>
    BY <1>7 DEF PersistLatestWorking, PersistLatestDone, PersistLatest, Move
  <2>2. /\ agent' \in [Agents -> AgentRecs] /\ AgentsStay(a)
        /\ \/ agent'[a].at = "idle" /\ agent'[a].job = 0
           \/ /\ agent[a].at = "begun" /\ agent'[a].at = "store"
              /\ agent'[a].job = agent[a].job /\ agent'[a].content = agent[a].content
    BY <2>1, AgentRests, AgentMoves
  <2>3. latestJob'.job \in 0 .. stamp
    BY <1>0, <1>a, <2>1
  <2>4. QueueShapes'
    BY <2>1, <2>2, <2>3, SMTT(30) DEF QueueShapes
  <2>5. \A b \in Agents : AgentKept(b)'
    BY <1>a, <2>1, <2>2 DEF RecordsKept, AgentsStay, AgentKept
  <2> QED
    BY <2>1, <2>4, <2>5 DEF RecordsKept
<1>8. ASSUME NEW a \in Agents, PersistPipeline(a) PROVE QueueShapes' /\ RecordsKept'
  <2> DEFINE j == agent[a].job
  <2>1. /\ agent[a].at = "store" /\ indexed' = [indexed EXCEPT ![j] = agent[a].content]
        /\ passes' = [passes EXCEPT ![j] = @ + 1] /\ agent' = [agent EXCEPT ![a].at = "finish"]
        /\ UNCHANGED <<docs, stamp, picks, jobRow, latestJob, payloads, namesakes, withContent, doubled>>
    BY <1>8 DEF PersistPipeline, Move
  <2>2. /\ j \in 1 .. stamp /\ j \in 1 .. MaxDocs /\ agent[a].content \in {"payload", "source"}
    BY <1>a, <2>1 DEF RecordsKept, QueueShapes, AgentRecs, AgentKept
  <2>3. /\ agent' \in [Agents -> AgentRecs] /\ AgentsStay(a) /\ agent'[a].at = "finish"
        /\ agent'[a].job = j
    BY <2>1, AgentMoves
  <2>4. passes' \in [1 .. MaxDocs -> Nat] /\ \A k \in 1 .. MaxDocs : k # j => passes'[k] = passes[k]
    BY <2>1, <2>2 DEF QueueShapes
  <2>5. /\ indexed' \in [1 .. MaxDocs -> {"none", "payload", "source"}]
        /\ \A k \in 1 .. MaxDocs : indexed'[k] = IF k = j THEN agent[a].content ELSE indexed[k]
    BY <2>1, <2>2 DEF QueueShapes
  <2>6. QueueShapes'
    BY <2>1, <2>3, <2>4, <2>5 DEF QueueShapes
  <2>7. \A k \in 1 .. MaxDocs : stamp < k => k # j
    BY <1>0, <2>2
  <2>8. \A b \in Agents : agent[b].at \in {"finish", "finished"} => indexed'[agent[b].job] # "none"
    BY <1>a, <2>2, <2>5 DEF RecordsKept, AgentKept
  <2> HIDE DEF j
  <2>9. indexed'[j] # "none"
    BY <2>2, <2>5
  <2>10. \A b \in Agents : AgentKept(b)'
    BY <2>1, <2>2, <2>3, <2>8, <2>9 DEF RecordsKept, AgentsStay, AgentKept
  <2>11. \A k \in 1 .. MaxDocs : stamp' < k => passes'[k] = 0 /\ indexed'[k] = "none"
    BY <2>1, <2>4, <2>5, <2>7 DEF RecordsKept
  <2>12. \A k \in 1 .. MaxDocs : jobRow'[k] = "Done" => indexed'[k] # "none"
    BY <2>1, <2>2, <2>5 DEF RecordsKept
  <2> QED
    BY <2>1, <2>6, <2>10, <2>11, <2>12 DEF RecordsKept
<1>9. ASSUME NEW a \in Agents, JobFails(a) PROVE QueueShapes' /\ RecordsKept'
  <2>1. /\ agent' = [agent EXCEPT ![a] = AtRest]
        /\ UNCHANGED <<docs, stamp, picks, jobRow, latestJob, payloads, indexed, namesakes, passes,
                       withContent, doubled>>
    BY <1>9 DEF JobFails
  <2>2. /\ agent' \in [Agents -> AgentRecs] /\ AgentsStay(a) /\ agent'[a].at = "idle"
        /\ agent'[a].job = 0
    BY <2>1, AgentRests
  <2> QED
    BY <2>1, <2>2 DEF QueueShapes, RecordsKept, AgentsStay, AgentKept
<1>10. CASE UNCHANGED queueVars
  BY <1>10 DEF queueVars, QueueShapes, RecordsKept, AgentKept
<1> QED
  BY <1>1, <1>2, <1>3, <1>4, <1>5, <1>6, <1>7, <1>8, <1>9, <1>10 DEF QueueNext

\* A call that queues a document and a worker that picks one keep what holds of every job.
LEMMA QueueTakes ==
    ASSUME QueueInv, QueueShapes', NEW a \in Agents,
           \/ \E ms \in {stamp, stamp + 1} \ {0}, full \in BOOLEAN : QueueIngestion(a, ms, full)
           \/ PickJob(a)
    PROVE  (\A k \in 1 .. stamp : JobKept(k))'
<1> USE QueueBounds DEF QueueInv
<1>0. /\ stamp \in Nat /\ docs \in Nat /\ stamp <= docs /\ docs <= MaxDocs
      /\ \A k \in 1 .. stamp : k \in 1 .. MaxDocs /\ k # 0
      /\ latestJob.job \in 0 .. stamp
  BY DEF QueueShapes
<1>a. \A b \in Agents : /\ agent[b].job # 0 => agent[b].job \in 1 .. stamp
                        /\ agent[b].at = "idle" => agent[b].job = 0
  BY DEF RecordsKept, AgentKept
<1>1. ASSUME NEW ms \in {stamp, stamp + 1} \ {0}, NEW full \in BOOLEAN,
             QueueIngestion(a, ms, full)
      PROVE  (\A k \in 1 .. stamp : JobKept(k))'
  <2> DEFINE content == IF full THEN "payload" ELSE "none"
  <2>1. /\ agent[a].at = "idle" /\ docs < MaxDocs /\ stamp' = ms
        /\ agent' = [agent EXCEPT ![a] = [at |-> "row", job |-> ms, content |-> content]]
        /\ namesakes' = [namesakes EXCEPT ![ms] = @ + 1]
        /\ withContent' = IF full THEN withContent \cup {ms} ELSE withContent
        /\ UNCHANGED <<jobRow, latestJob, payloads, indexed, passes, doubled, failed>>
    BY <1>1 DEF QueueIngestion
  <2>2. ms \in 1 .. MaxDocs /\ ms # 0 /\ content \in {"none", "payload"}
    BY <1>0, <2>1
  <2>3. full => content = "payload"
    OBVIOUS
  <2> HIDE DEF content
  <2>4. /\ AgentsStay(a) /\ agent[a].job = 0
        /\ agent'[a].at = "row" /\ agent'[a].job = ms /\ agent'[a].content = content
    BY <1>a, <2>1, <2>2, AgentTakesJob
  <2>5. /\ namesakes'[ms] = namesakes[ms] + 1
        /\ \A k \in 1 .. MaxDocs \ {ms} : namesakes'[k] = namesakes[k]
    BY <2>1, <2>2 DEF QueueShapes
  <2>6. OthersUntouched(a, ms)
    BY <2>1, <2>4, <2>5 DEF OthersUntouched
  <2>7. ASSUME NEW k \in 1 .. stamp', k # ms PROVE JobKept(k)'
    <3>1. k \in 1 .. stamp /\ k \in 1 .. MaxDocs
      BY <1>0, <2>1, <2>7
    <3> QED
      BY <2>6, <2>7, <3>1, OtherJobs
  <2>9. Owed(ms) => Owed(ms)'
    <3>1. Ahead(a, ms) = 0 /\ Ahead(a, ms)' = 1 /\ Waiting(ms)' = 0
      BY <2>2, <2>4 DEF Ahead, Yet, Waiting, Waits, Clearing
    <3>2. Waiting(ms) \in {0, 1}
      BY DEF Waiting
    <3>3. passes[ms] \in Nat /\ namesakes[ms] \in Nat /\ doubled[ms] \in Nat
      BY <2>2 DEF QueueShapes
    <3>4. passes'[ms] + Ahead(a, ms)' + Waiting(ms)' + namesakes[ms] + doubled[ms]
             <= passes[ms] + Ahead(a, ms) + Waiting(ms) + namesakes'[ms] + doubled'[ms]
      BY <2>1, <2>5, <3>1, <3>2, <3>3
    <3> QED
      BY <2>2, <2>4, <3>4, OwedAfter
  <2>8. JobKept(ms)'
    <3>1. CASE ms \in 1 .. stamp
      <4>1. namesakes'[ms] # 1
        BY <2>2, <2>5, <3>1 DEF RecordsKept, QueueShapes
      <4>2. Followed(ms)
        BY <3>1 DEF JobKept
      <4>3. Followed(ms)'
        BY <2>1, <2>4, <4>2 DEF Followed, AgentsStay
      <4>4. Owed(ms)'
        BY <2>9, <3>1 DEF JobKept
      <4> QED
        BY <4>1, <4>3, <4>4 DEF JobKept
    <3>2. CASE ms \notin 1 .. stamp
      <4>1. stamp < ms
        BY <1>0, <2>1, <3>2
      <4>2. /\ passes[ms] = 0 /\ indexed[ms] = "none" /\ jobRow[ms] = "none"
            /\ latestJob # AsQueued(ms)
        BY <1>0, <2>2, <4>1 DEF RecordsKept, AsQueued
      <4>3. \A b \in Agents : agent'[b].job = ms => b = a
        BY <1>a, <2>2, <2>4, <3>2 DEF AgentsStay
      <4>4. Followed(ms)'
        BY <2>1, <2>4, <4>2 DEF Followed
      <4>5. Single(ms)'
        BY <4>3 DEF Single
      <4>6. ms \in withContent' => full
        BY <1>0, <2>1, <3>2 DEF RecordsKept
      <4>7. ms \in withContent' => ContentKept(ms)'
        BY <2>1, <2>3, <2>4, <4>2, <4>3, <4>6 DEF ContentKept
      <4>8. Owed(ms)
        <5>1. Yet(ms) = {} /\ ~Waits(ms)
          BY <1>a, <2>2, <3>2, <4>2 DEF Yet, Waits
        <5>2. namesakes[ms] \in Nat /\ doubled[ms] \in Nat
          BY <2>2 DEF QueueShapes
        <5> QED
          BY <4>2, <5>1, <5>2, FS_EmptySet DEF Owed, Waiting
      <4>9. Owed(ms)'
        BY <2>9, <4>8
      <4> QED
        BY <4>4, <4>5, <4>7, <4>9 DEF JobKept
    <3> QED
      BY <3>1, <3>2
  <2> QED
    BY <2>7, <2>8, <2>1
<1>2. CASE PickJob(a)
  <2>0. PICK j : j = Min(QueuedJobs)
    OBVIOUS
  <2>1. /\ agent[a].at = "idle" /\ QueuedJobs # {}
        /\ agent' = [agent EXCEPT ![a] = [at |-> "load", job |-> j, content |-> "none"]]
        /\ doubled' = IF InHand(j) = {} THEN doubled ELSE [doubled EXCEPT ![j] = @ + 1]
        /\ UNCHANGED <<stamp, jobRow, latestJob, payloads, indexed, namesakes, passes, withContent,
                       failed>>
    BY <1>2, <2>0 DEF PickJob
  <2>2. j \in QueuedJobs
    BY <2>0, <2>1, PickedIsQueued
  <2>3. /\ j \in 1 .. stamp /\ j \in 1 .. MaxDocs /\ j # 0
        /\ jobRow[j] = "Queued" \/ latestJob = AsQueued(j)
    BY <1>0, <2>2 DEF QueuedJobs, AsQueued
  <2>4. /\ AgentsStay(a) /\ agent[a].job = 0 /\ agent'[a].at = "load" /\ agent'[a].job = j
    BY <1>a, <2>1, <2>3, AgentTakesJob
  <2>10. /\ doubled[j] \in Nat /\ doubled' \in [1 .. MaxDocs -> Nat]
         /\ doubled'[j] = IF InHand(j) = {} THEN doubled[j] ELSE doubled[j] + 1
         /\ \A k \in 1 .. MaxDocs \ {j} : doubled'[k] = doubled[k]
    BY <2>1, <2>3 DEF QueueShapes
  <2>5. OthersUntouched(a, j)
    BY <2>1, <2>4, <2>10 DEF OthersUntouched
  <2>6. JobKept(j)
    BY <2>3
  <2>7. Followed(j)'
    <3>1. \A b \in Agents : agent[b].job = j => agent'[b] = agent[b]
      BY <2>3, <2>4 DEF AgentsStay
    <3> QED
      BY <2>1, <2>6, <3>1 DEF JobKept, Followed
  <2>8. ASSUME namesakes'[j] = 1, doubled'[j] = 0
        PROVE  /\ Single(j)'
               /\ j \in withContent' /\ <<j, "queueing">> \notin failed' => ContentKept(j)'
    <3>1. /\ namesakes[j] = 1 /\ doubled[j] = 0 /\ \A b \in Agents : agent[b].job # j
      BY <2>1, <2>10, <2>8 DEF InHand
    <3>3. \A b \in Agents : agent'[b].job = j => b = a
      BY <2>4, <3>1 DEF AgentsStay
    <3>4. Single(j)'
      BY <3>3 DEF Single
    <3>5. j \in withContent /\ <<j, "queueing">> \notin failed => ContentKept(j) /\ j \in payloads
      BY <2>6, <3>1 DEF JobKept, ContentKept
    <3>6. j \in withContent' /\ <<j, "queueing">> \notin failed' => ContentKept(j)'
      BY <2>1, <2>4, <3>3, <3>5 DEF ContentKept
    <3> QED
      BY <3>4, <3>6
  <2>11. Owed(j)'
    <3>1. Ahead(a, j) = 0 /\ Ahead(a, j)' = 1 /\ Waiting(j)' = 0
      BY <2>3, <2>4 DEF Ahead, Yet, Waiting, Waits, Clearing
    <3>2. InHand(j) = {} => Waiting(j) = 1
      BY <2>3 DEF InHand, Waiting, Waits
    <3>3. passes[j] \in Nat /\ namesakes[j] \in Nat /\ Waiting(j) \in {0, 1}
      BY <2>3 DEF QueueShapes, Waiting
    <3>4. passes'[j] + Ahead(a, j)' + Waiting(j)' + namesakes[j] + doubled[j]
             <= passes[j] + Ahead(a, j) + Waiting(j) + namesakes'[j] + doubled'[j]
      BY <2>1, <2>10, <3>1, <3>2, <3>3
    <3> QED
      BY <2>3, <2>4, <2>6, <3>4, OwedAfter DEF JobKept
  <2>9. JobKept(j)'
    BY <2>7, <2>8, <2>11 DEF JobKept
  <2> QED
    BY <2>1, <2>5, <2>9, JobsFromOne
<1> QED
  BY <1>1, <1>2

\* The job of an agent at work.
LEMMA JobInHand ==
    ASSUME QueueInv, NEW a \in Agents, agent[a].at # "idle", NEW j, j = agent[a].job
    PROVE  /\ j \in 1 .. stamp /\ j \in 1 .. MaxDocs /\ j # 0 /\ AgentKept(a)
           /\ agent[a].job = j /\ jobRow \in [1 .. MaxDocs -> JobStatuses]
           /\ passes \in [1 .. MaxDocs -> Nat] /\ agent[a] \in AgentRecs
           /\ indexed \in [1 .. MaxDocs -> {"none", "payload", "source"}]
BY QueueBounds DEF QueueInv, RecordsKept, AgentKept, QueueShapes

\* The steps of a job at work keep what holds of every job.
LEMMA QueueWorks ==
    ASSUME QueueInv, QueueShapes', NEW a \in Agents,
           \/ PersistQueued(a) \/ PersistLatestQueued(a) \/ PersistPayload(a) \/ LoadPayload(a)
           \/ BeginJob(a) \/ PersistLatestWorking(a) \/ PersistPipeline(a)
           \/ FinishJob(a) \/ PersistLatestDone(a) \/ JobFails(a)
    PROVE  (\A k \in 1 .. stamp : JobKept(k))'
<1> USE DEF QueueInv
<1>j. PICK j : j = agent[a].job
  OBVIOUS
<1>0. agent[a].at # "idle"
  BY DEF PersistQueued, PersistLatestQueued, PersistPayload, LoadPayload, BeginJob, PersistRow,
         PersistLatest, PersistLatestWorking, PersistPipeline, FinishJob, PersistLatestDone,
         JobFails
<1>1. /\ j \in 1 .. stamp /\ j \in 1 .. MaxDocs /\ j # 0 /\ AgentKept(a)
      /\ agent[a].job = j /\ jobRow \in [1 .. MaxDocs -> JobStatuses]
      /\ passes \in [1 .. MaxDocs -> Nat] /\ agent[a] \in AgentRecs
      /\ indexed \in [1 .. MaxDocs -> {"none", "payload", "source"}]
  BY <1>0, <1>j, JobInHand
<1>2. JobKept(j)
  BY <1>1
<1> DEFINE Sole     == namesakes[j] = 1 /\ doubled[j] = 0
           Contents == j \in withContent /\ <<j, "queueing">> \notin failed
<1>3. /\ Followed(j) /\ Owed(j)
      /\ Sole => /\ Single(j) /\ \A b \in Agents : agent[b].job = j => b = a
                 /\ Contents => ContentKept(j)
  BY <1>1, <1>2 DEF JobKept, Single
<1>p. /\ passes[j] \in Nat /\ passes'[j] \in Nat /\ namesakes[j] \in Nat /\ doubled[j] \in Nat
      /\ Ahead(a, j) \in {0, 1} /\ Ahead(a, j)' \in {0, 1}
      /\ Waiting(j) \in {0, 1} /\ Waiting(j)' \in {0, 1}
  BY <1>1 DEF QueueShapes, Ahead, Waiting
<1> DEFINE Paid == passes'[j] + Ahead(a, j)' + Waiting(j)' <= passes[j] + Ahead(a, j) + Waiting(j)
<1> HIDE DEF QueueInv
\* What remains to be shown of each step.
<1>4. ASSUME OthersUntouched(a, j), UNCHANGED <<stamp, namesakes, withContent, doubled>>,
             Followed(j)', Paid,
             Sole /\ j \in withContent /\ <<j, "queueing">> \notin failed' => ContentKept(j)'
      PROVE  (\A k \in 1 .. stamp : JobKept(k))'
  <2>1. Sole => Single(j)'
    BY <1>1, <1>3, <1>4 DEF Single, OthersUntouched, AgentsStay
  <2>2. passes'[j] + Ahead(a, j)' + Waiting(j)' + namesakes[j] + doubled[j]
           <= passes[j] + Ahead(a, j) + Waiting(j) + namesakes'[j] + doubled'[j]
    <3>1. namesakes'[j] = namesakes[j] /\ doubled'[j] = doubled[j]
      BY <1>4
    <3> QED
      BY <1>4, <1>p, <3>1
  <2>3. Owed(j)'
    <3>1. AgentsStay(a) /\ QueueShapes
      BY <1>4 DEF OthersUntouched, QueueInv
    <3> QED
      BY <1>1, <1>3, <2>2, <3>1, OwedAfter
  <2>4. JobKept(j)'
    BY <1>4, <2>1, <2>3 DEF JobKept
  <2> QED
    BY <1>4, <2>4, JobsFromOne
<1>5. CASE PersistQueued(a)
  <2>1. /\ agent[a].at = "row" /\ agent' = [agent EXCEPT ![a].at = "queued"]
        /\ jobRow' = [jobRow EXCEPT ![j] = "Queued"]
        /\ UNCHANGED <<stamp, latestJob, payloads, indexed, namesakes, passes, withContent, doubled,
                       failed>>
    BY <1>1, <1>5 DEF PersistQueued, PersistRow, Move
  <2>2. /\ AgentsStay(a) /\ agent'[a].at = "queued" /\ agent'[a].job = j
        /\ agent'[a].content = agent[a].content
    BY <1>1, <2>1, AgentMoves DEF QueueInv
  <2>3. jobRow'[j] = "Queued" /\ \A k \in 1 .. MaxDocs \ {j} : jobRow'[k] = jobRow[k]
    BY <1>1, <2>1
  <2>4. OthersUntouched(a, j)
    BY <1>1, <2>1, <2>2, <2>3 DEF OthersUntouched
  <2>5. Followed(j)'
    BY <2>3 DEF Followed
  <2>6. Paid
    <3>1. Ahead(a, j) = 1 /\ Ahead(a, j)' = 1
      BY <1>1, <2>1, <2>2 DEF Ahead, Yet, Clearing
    <3>2. Waiting(j)' = 0
      BY <1>1, <2>2 DEF Waiting, Waits, Clearing
    <3> QED
      BY <1>p, <2>1, <3>1, <3>2
  <2>7. Sole /\ Contents => ContentKept(j)'
    BY <1>1, <1>3, <2>1, <2>2 DEF ContentKept, AgentsStay
  <2> QED
    BY <1>4, <2>1, <2>4, <2>5, <2>6, <2>7
<1>6. CASE PersistLatestQueued(a)
  <2>1. /\ agent[a].at = "queued" /\ latestJob' = AsQueued(j)
        /\ \/ agent[a].content = "none" /\ agent' = [agent EXCEPT ![a] = AtRest]
           \/ agent' = [agent EXCEPT ![a].at = "payload"]
        /\ UNCHANGED <<stamp, jobRow, payloads, indexed, namesakes, passes, withContent, doubled,
                       failed>>
    BY <1>1, <1>6 DEF PersistLatestQueued, PersistLatest, AsQueued
  <2>2. /\ AgentsStay(a)
        /\ \/ agent[a].content = "none" /\ agent'[a].at = "idle" /\ agent'[a].job = 0
           \/ /\ agent'[a].at = "payload" /\ agent'[a].job = j
              /\ agent'[a].content = agent[a].content
    BY <1>1, <2>1, AgentRests, AgentMoves DEF QueueInv
  <2>3. OthersUntouched(a, j)
    BY <1>1, <2>1, <2>2 DEF OthersUntouched, AsQueued
  <2>4. Followed(j)'
    BY <1>3, <2>1, <2>2 DEF Followed, AgentsStay
  <2>5. Paid
    <3>1. Ahead(a, j) = 1 /\ Ahead(a, j)' \in {0, 1}
      BY <1>1, <2>1 DEF Ahead, Yet, Clearing
    <3>2. Waiting(j)' \in {0, 1} /\ (Ahead(a, j)' = 1 => Waiting(j)' = 0)
      BY <1>1, <2>2 DEF Ahead, Yet, Waiting, Waits, Clearing
    <3> QED
      BY <1>p, <2>1, <3>1, <3>2
  <2>6. ASSUME Sole, Contents PROVE ContentKept(j)'
    <3>1. agent[a].content = "payload" /\ indexed[j] # "source"
      BY <1>1, <1>3, <2>1, <2>6 DEF ContentKept
    <3>2. agent'[a].at = "payload" /\ agent'[a].job = j /\ agent'[a].content = "payload"
      BY <2>2, <3>1
    <3>3. \A b \in Agents : agent'[b].job = j => b = a
      BY <1>3, <2>2, <2>6 DEF AgentsStay
    <3> QED
      BY <2>1, <3>1, <3>2, <3>3 DEF ContentKept
  <2> QED
    BY <1>4, <2>1, <2>3, <2>4, <2>5, <2>6
<1>7. CASE PersistPayload(a)
  <2>1. /\ agent[a].at = "payload" /\ agent' = [agent EXCEPT ![a].at = "begin"]
        /\ payloads' = payloads \cup {j}
        /\ UNCHANGED <<stamp, jobRow, latestJob, indexed, namesakes, passes, withContent, doubled,
                       failed>>
    BY <1>1, <1>7 DEF PersistPayload, Move
  <2>2. /\ AgentsStay(a) /\ agent'[a].at = "begin" /\ agent'[a].job = j
        /\ agent'[a].content = agent[a].content
    BY <1>1, <2>1, AgentMoves DEF QueueInv
  <2>3. OthersUntouched(a, j)
    BY <1>1, <2>1, <2>2 DEF OthersUntouched
  <2>4. Followed(j)'
    BY <1>3, <2>1, <2>2 DEF Followed, AgentsStay
  <2>5. Paid
    <3>1. Ahead(a, j) = 1 /\ Ahead(a, j)' = 1
      BY <1>1, <2>1, <2>2 DEF Ahead, Yet, Clearing
    <3>2. Waiting(j)' = 0
      BY <1>1, <2>2 DEF Waiting, Waits, Clearing
    <3> QED
      BY <1>p, <2>1, <3>1, <3>2
  <2>6. Sole /\ Contents => ContentKept(j)'
    BY <1>1, <1>3, <2>1, <2>2 DEF ContentKept, AgentsStay
  <2> QED
    BY <1>4, <2>1, <2>3, <2>4, <2>5, <2>6
<1>8. CASE LoadPayload(a)
  <2> DEFINE content == IF agent[a].job \in payloads THEN "payload" ELSE "source"
  <2>1. /\ agent[a].at = "load" /\ content \in {"payload", "source"}
        /\ agent' = [agent EXCEPT ![a] = [@ EXCEPT !.at = "begin", !.content = content]]
        /\ UNCHANGED <<stamp, jobRow, latestJob, payloads, indexed, namesakes, passes, withContent,
                       doubled, failed>>
    BY <1>8 DEF LoadPayload
  <2>2. j \in payloads => content = "payload"
    BY <1>1
  <2> HIDE DEF content
  <2>3. /\ AgentsStay(a) /\ agent'[a].at = "begin" /\ agent'[a].job = j
        /\ agent'[a].content = content
    BY <1>1, <2>1, AgentTakesContent DEF QueueInv
  <2>4. OthersUntouched(a, j)
    BY <1>1, <2>1, <2>3 DEF OthersUntouched
  <2>5. Followed(j)'
    BY <1>3, <2>1, <2>3 DEF Followed, AgentsStay
  <2>6. Paid
    <3>1. Ahead(a, j) = 1 /\ Ahead(a, j)' = 1
      BY <1>1, <2>1, <2>3 DEF Ahead, Yet, Clearing
    <3>2. Waiting(j)' = 0
      BY <1>1, <2>3 DEF Waiting, Waits, Clearing
    <3> QED
      BY <1>p, <2>1, <3>1, <3>2
  <2>7. Sole /\ Contents => ContentKept(j)'
    BY <1>1, <1>3, <2>1, <2>2, <2>3 DEF ContentKept, AgentsStay
  <2> QED
    BY <1>4, <2>1, <2>4, <2>5, <2>6, <2>7
<1>9. CASE BeginJob(a)
  <2>1. /\ agent[a].at \in {"begin", "store"} /\ agent' = [agent EXCEPT ![a].at = "begun"]
        /\ jobRow' = [jobRow EXCEPT ![j] = "Working"]
        /\ UNCHANGED <<stamp, latestJob, payloads, indexed, namesakes, passes, withContent, doubled,
                       failed>>
    BY <1>1, <1>9 DEF BeginJob, PersistRow, Move
  <2>2. /\ AgentsStay(a) /\ agent'[a].at = "begun" /\ agent'[a].job = j
        /\ agent'[a].content = agent[a].content
    BY <1>1, <2>1, AgentMoves DEF QueueInv
  <2>3. jobRow'[j] = "Working" /\ \A k \in 1 .. MaxDocs \ {j} : jobRow'[k] = jobRow[k]
    BY <1>1, <2>1
  <2>4. OthersUntouched(a, j)
    BY <1>1, <2>1, <2>2, <2>3 DEF OthersUntouched
  <2>5. Followed(j)'
    BY <2>2, <2>3 DEF Followed
  <2>6. Paid
    <3>1. Ahead(a, j) = 1 /\ Ahead(a, j)' = 1
      BY <1>1, <2>1, <2>2 DEF Ahead, Yet, Clearing
    <3>2. Waiting(j)' = 0
      BY <1>1, <2>2, <2>3 DEF Waiting, Waits, Clearing
    <3> QED
      BY <1>p, <2>1, <3>1, <3>2
  <2>7. Sole /\ Contents => ContentKept(j)'
    BY <1>1, <1>3, <2>1, <2>2 DEF ContentKept, AgentsStay
  <2> QED
    BY <1>4, <2>1, <2>4, <2>5, <2>6, <2>7
<1>10. CASE PersistLatestWorking(a)
  <2>1. /\ agent[a].at = "begun" /\ agent' = [agent EXCEPT ![a].at = "store"]
        /\ latestJob' = [job |-> j, status |-> "Working"]
        /\ UNCHANGED <<stamp, jobRow, payloads, indexed, namesakes, passes, withContent, doubled,
                       failed>>
    BY <1>1, <1>10 DEF PersistLatestWorking, PersistLatest, Move
  <2>2. /\ AgentsStay(a) /\ agent'[a].at = "store" /\ agent'[a].job = j
        /\ agent'[a].content = agent[a].content
    BY <1>1, <2>1, AgentMoves DEF QueueInv
  <2>3. OthersUntouched(a, j) /\ latestJob' # AsQueued(j)
    BY <1>1, <2>1, <2>2 DEF OthersUntouched, AsQueued
  <2>4. Followed(j)'
    BY <1>3, <2>1, <2>2 DEF Followed, AgentsStay
  <2>5. Paid
    <3>1. Ahead(a, j) = 1 /\ Ahead(a, j)' = 1
      BY <1>1, <2>1, <2>2 DEF Ahead, Yet, Clearing
    <3>2. Waiting(j)' <= Waiting(j)
      <4>1. Waits(j)' => Waits(j)
        BY <1>1, <2>1, <2>2, <2>3 DEF Waits, Clearing, AgentsStay
      <4> QED
        BY <4>1 DEF Waiting
    <3> QED
      BY <1>p, <2>1, <3>1, <3>2
  <2>6. Sole /\ Contents => ContentKept(j)'
    BY <1>1, <1>3, <2>1, <2>2 DEF ContentKept, AgentsStay
  <2> QED
    BY <1>4, <2>1, <2>3, <2>4, <2>5, <2>6
<1>11. CASE PersistPipeline(a)
  <2>1. /\ agent[a].at = "store" /\ agent' = [agent EXCEPT ![a].at = "finish"]
        /\ indexed' = [indexed EXCEPT ![j] = agent[a].content]
        /\ passes' = [passes EXCEPT ![j] = @ + 1]
        /\ UNCHANGED <<stamp, jobRow, latestJob, payloads, namesakes, withContent, doubled, failed>>
    BY <1>1, <1>11 DEF PersistPipeline, Move
  <2>2. /\ AgentsStay(a) /\ agent'[a].at = "finish" /\ agent'[a].job = j
        /\ agent'[a].content = agent[a].content
    BY <1>1, <2>1, AgentMoves DEF QueueInv
  <2>3. /\ indexed'[j] = agent[a].content /\ passes'[j] = passes[j] + 1
        /\ \A k \in 1 .. MaxDocs \ {j} : indexed'[k] = indexed[k] /\ passes'[k] = passes[k]
    BY <1>1, <2>1
  <2>4. OthersUntouched(a, j)
    BY <1>1, <2>1, <2>2, <2>3 DEF OthersUntouched
  <2>5. Followed(j)'
    BY <1>3, <2>1, <2>2 DEF Followed, AgentsStay
  <2>6. Paid
    <3>1. Ahead(a, j) = 1 /\ Ahead(a, j)' = 0
      BY <1>1, <2>1, <2>2 DEF Ahead, Yet, Clearing
    <3>2. Waiting(j)' <= Waiting(j)
      <4>1. Waits(j)' => Waits(j)
        BY <1>1, <2>1, <2>2 DEF Waits, Clearing, AgentsStay
      <4> QED
        BY <4>1 DEF Waiting
    <3> QED
      BY <1>p, <2>1, <2>3, <3>1, <3>2
  <2>7. Sole /\ Contents => ContentKept(j)'
    BY <1>1, <1>3, <2>1, <2>2, <2>3 DEF ContentKept, AgentsStay
  <2> QED
    BY <1>4, <2>1, <2>4, <2>5, <2>6, <2>7
<1>12. CASE FinishJob(a)
  <2>1. /\ agent[a].at = "finish" /\ agent' = [agent EXCEPT ![a].at = "finished"]
        /\ jobRow' = [jobRow EXCEPT ![j] = "Done"]
        /\ UNCHANGED <<stamp, latestJob, payloads, indexed, namesakes, passes, withContent, doubled,
                       failed>>
    BY <1>1, <1>12 DEF FinishJob, PersistRow, Move
  <2>2. /\ AgentsStay(a) /\ agent'[a].at = "finished" /\ agent'[a].job = j
        /\ agent'[a].content = agent[a].content
    BY <1>1, <2>1, AgentMoves DEF QueueInv
  <2>3. jobRow'[j] = "Done" /\ \A k \in 1 .. MaxDocs \ {j} : jobRow'[k] = jobRow[k]
    BY <1>1, <2>1
  <2>4. OthersUntouched(a, j)
    BY <1>1, <2>1, <2>2, <2>3 DEF OthersUntouched
  <2>5. Followed(j)'
    BY <2>3 DEF Followed
  <2>6. Paid
    <3>1. Ahead(a, j) = 0 /\ Ahead(a, j)' = 0
      BY <1>1, <2>1, <2>2 DEF Ahead, Yet, Clearing
    <3>2. Waiting(j)' <= Waiting(j)
      <4>1. Waits(j)' => Waits(j)
        BY <1>1, <2>1, <2>2, <2>3 DEF Waits, Clearing, AgentsStay
      <4> QED
        BY <4>1 DEF Waiting
    <3> QED
      BY <1>p, <2>1, <3>1, <3>2
  <2>7. Sole /\ Contents => ContentKept(j)'
    BY <1>1, <1>3, <2>1, <2>2 DEF ContentKept, AgentsStay
  <2> QED
    BY <1>4, <2>1, <2>4, <2>5, <2>6, <2>7
<1>13. CASE PersistLatestDone(a)
  <2>1. /\ agent[a].at = "finished" /\ agent' = [agent EXCEPT ![a] = AtRest]
        /\ latestJob' = [job |-> j, status |-> "Done"]
        /\ UNCHANGED <<stamp, jobRow, payloads, indexed, namesakes, passes, withContent, doubled,
                       failed>>
    BY <1>1, <1>13 DEF PersistLatestDone, PersistLatest
  <2>2. AgentsStay(a) /\ agent'[a].at = "idle" /\ agent'[a].job = 0
    BY <2>1, AgentRests DEF QueueInv
  <2>3. OthersUntouched(a, j) /\ latestJob' # AsQueued(j)
    BY <1>1, <2>1, <2>2 DEF OthersUntouched, AsQueued
  <2>4. Followed(j)'
    BY <1>3, <2>1, <2>2 DEF Followed, AgentsStay
  <2>5. Paid
    <3>1. Ahead(a, j) = 0 /\ Ahead(a, j)' = 0
      BY <1>1, <2>1, <2>2 DEF Ahead, Yet, Clearing
    <3>2. Waiting(j)' <= Waiting(j)
      <4>1. Waits(j)' => Waits(j)
        BY <1>1, <2>1, <2>2, <2>3 DEF Waits, Clearing, AgentsStay
      <4> QED
        BY <4>1 DEF Waiting
    <3> QED
      BY <1>p, <2>1, <3>1, <3>2
  <2>6. Sole /\ Contents => ContentKept(j)'
    BY <1>1, <1>3, <2>1, <2>2 DEF ContentKept, AgentsStay
  <2> QED
    BY <1>4, <2>1, <2>3, <2>4, <2>5, <2>6
<1>14. CASE JobFails(a)
  <2>1. /\ agent' = [agent EXCEPT ![a] = AtRest]
        /\ failed' = failed \cup ({j} \X Undone(agent[a].at))
        /\ UNCHANGED <<stamp, jobRow, latestJob, payloads, indexed, namesakes, passes, withContent,
                       doubled>>
    BY <1>1, <1>14 DEF JobFails
  <2>2. AgentsStay(a) /\ agent'[a].at = "idle" /\ agent'[a].job = 0
    BY <2>1, AgentRests DEF QueueInv
  <2>3. \A k, what : <<k, what>> \in failed' <=>
                        <<k, what>> \in failed \/ (k = j /\ what \in Undone(agent[a].at))
    BY <2>1
  <2>4. OthersUntouched(a, j)
    BY <1>1, <2>1, <2>2, <2>3 DEF OthersUntouched
  <2>5. /\ agent[a].at \in {"row", "queued", "payload"} => <<j, "queueing">> \in failed'
        /\ agent[a].at \in {"begun", "store", "finish"} => <<j, "working">> \in failed'
        /\ \A what : <<j, what>> \in failed => <<j, what>> \in failed'
    BY <2>3 DEF Undone
  <2>6. Followed(j)'
    BY <1>3, <2>1, <2>2, <2>5 DEF Followed, AgentsStay
  <2>7. Paid
    <3>1. Ahead(a, j)' = 0 /\ Ahead(a, j) \in {0, 1} /\ Waiting(j)' \in {0, 1}
      BY <1>1, <2>2 DEF Ahead, Yet, Waiting
    <3>2. Ahead(a, j) = 0 => Waiting(j)' <= Waiting(j)
      <4>1. ASSUME Ahead(a, j) = 0 PROVE agent[a].at \in {"finish", "finished"}
        BY <1>0, <1>1, <4>1 DEF Ahead, Yet, Clearing, AgentRecs
      <4>2. ASSUME Ahead(a, j) = 0 PROVE Waits(j)' => Waits(j)
        BY <1>1, <2>1, <2>2, <4>1, <4>2 DEF Waits, Clearing, AgentsStay
      <4> QED
        BY <4>2 DEF Waiting
    <3> QED
      BY <1>p, <2>1, <3>1, <3>2
  <2>8. ASSUME Sole, j \in withContent, <<j, "queueing">> \notin failed' PROVE ContentKept(j)'
    <3>1. Contents /\ agent[a].at \notin {"row", "queued", "payload"}
      BY <2>5, <2>8
    <3>2. ContentKept(j) /\ j \in payloads
      BY <1>3, <2>8, <3>1 DEF ContentKept
    <3> QED
      BY <1>1, <1>3, <2>1, <2>2, <2>8, <3>2 DEF ContentKept, AgentsStay
  <2> QED
    BY <1>4, <2>1, <2>4, <2>6, <2>7, <2>8
<1> QED
  BY <1>5, <1>6, <1>7, <1>8, <1>9, <1>10, <1>11, <1>12, <1>13, <1>14

\* The inductive invariant holds of every run of the supermemory queue.
THEOREM QueueInvariant == QueueSpec => []QueueInv
<1>1. QueueInv /\ [QueueNext]_queueVars => QueueInv'
  <2> SUFFICES ASSUME QueueInv, [QueueNext]_queueVars PROVE QueueInv'
    OBVIOUS
  <2>1. QueueShapes' /\ RecordsKept'
    BY QueueBasicsStep DEF QueueInv
  <2>2. CASE UNCHANGED queueVars
    <3>1. ASSUME NEW k \in 1 .. stamp PROVE JobKept(k)'
      <4>1. JobKept(k)
        BY <3>1 DEF QueueInv
      <4>2. Waits(k)' <=> Waits(k)
        BY <2>2 DEF queueVars, Waits
      <4>3. Yet(k)' = Yet(k) /\ Waiting(k)' = Waiting(k)
        BY <2>2, <4>2 DEF queueVars, Yet, Waiting
      <4>4. Owed(k)'
        BY <2>2, <4>1, <4>3 DEF queueVars, JobKept, Owed
      <4>5. Followed(k)' /\ (Single(k) => Single(k)') /\ (ContentKept(k) => ContentKept(k)')
        BY <2>2, <4>1 DEF queueVars, JobKept, Followed, Single, ContentKept
      <4> QED
        BY <2>2, <4>1, <4>4, <4>5 DEF queueVars, JobKept
    <3>2. stamp' = stamp
      BY <2>2 DEF queueVars
    <3> QED
      BY <2>1, <3>1, <3>2 DEF QueueInv
  <2>3. CASE QueueNext
    <3>1. (\A k \in 1 .. stamp : JobKept(k))'
      BY <2>1, <2>3, QueueTakes, QueueWorks DEF QueueNext
    <3> QED
      BY <2>1, <3>1 DEF QueueInv
  <2> QED
    BY <2>2, <2>3
<1> QED
  BY <1>1, QueueInitInv, PTL DEF QueueSpec

\* The rows of the queue stay well-formed through failures.
THEOREM QueueTypes == QueueSpec => []QueueTypeOK
<1>1. QueueInv => QueueTypeOK
  BY DEF QueueInv, QueueShapes, RecordsKept, QueueTypeOK, JobStatuses
<1> QED
  BY <1>1, QueueInvariant, PTL

\* An id is ingested once for each call that got it, and once more at most for each pick
\* out of another agent's hands, whatever failed; a job of one call and one agent at a time
\* with the content it came with; and every job in nobody's hands, those of shared ids and
\* double picks too, is Queued or Done, or a failure has left it (JobsAreKept).
THEOREM JobsKept == QueueSpec => []JobsAreKept
<1>1. ASSUME QueueInv PROVE JobsAreKept
  <2>1. ASSUME NEW j \in 1 .. stamp PROVE JobKept(j) /\ j \in 1 .. MaxDocs
    BY <1>1, <2>1, QueueBounds DEF QueueInv, QueueShapes
  <2>2. IngestedOnce
    <3> SUFFICES ASSUME NEW j \in 1 .. stamp
                 PROVE  /\ passes[j] <= namesakes[j] + doubled[j]
                        /\ namesakes[j] = 1 /\ doubled[j] = 0 /\ j \in withContent
                              /\ <<j, "queueing">> \notin failed => indexed[j] # "source"
      BY DEF IngestedOnce
    <3>1. Cardinality(Yet(j)) \in Nat
      BY QueueBounds, FS_Subset, FS_CardinalityType DEF Yet
    <3>2. /\ passes[j] \in Nat /\ namesakes[j] \in Nat /\ doubled[j] \in Nat
          /\ Waiting(j) \in {0, 1}
      BY <1>1, <2>1 DEF QueueInv, QueueShapes, Waiting
    <3>3. passes[j] + Cardinality(Yet(j)) + Waiting(j) <= namesakes[j] + doubled[j]
      BY <2>1 DEF JobKept, Owed
    <3>4. passes[j] <= namesakes[j] + doubled[j]
      BY <3>1, <3>2, <3>3
    <3> QED
      BY <2>1, <3>4 DEF JobKept, ContentKept
  <2>3. NoJobStranded
    <3> SUFFICES ASSUME NEW j \in 1 .. stamp, InHand(j) = {}
                 PROVE  \/ jobRow[j] = "Queued"
                        \/ jobRow[j] = "Done" /\ indexed[j] # "none"
                        \/ jobRow[j] = "none" /\ <<j, "queueing">> \in failed
                        \/ jobRow[j] = "Working" /\ <<j, "working">> \in failed
      BY DEF NoJobStranded
    <3>1. jobRow[j] \in JobStatuses /\ (jobRow[j] = "Done" => indexed[j] # "none")
      BY <1>1, <2>1 DEF QueueInv, QueueShapes, RecordsKept
    <3>2. \A a \in Agents : agent[a].job # j
      BY DEF InHand
    <3> QED
      BY <2>1, <3>1, <3>2 DEF JobKept, Followed, JobStatuses
  <2> QED
    BY <2>2, <2>3 DEF JobsAreKept
<1> QED
  BY <1>1, QueueInvariant, PTL

-----------------------------------------------------------------------------
(* The patch review queue *)

\* A row of the queue: what needs a person is approved by one.
ItemRecs ==
    { i \in [id : 0 .. MaxReviews, manual : BOOLEAN,
             status : {"none", "Queued", "Approved", "Rejected"},
             by : {"none", "policy", "person"}, updated : 0 .. MaxMillis] :
        i.manual /\ i.status = "Approved" => i.by = "person" }

\* What a caller carries from await to await.
CallRecs == [at : {"idle", "listed", "row", "latest"}, item : ItemRecs]

\* The rows and the calls are well-formed.
ReviewShapes ==
    /\ millis \in 1 .. MaxMillis /\ reviews \in 0 .. MaxReviews /\ decisions \in 0 .. MaxDecisions
    /\ rows \in [1 .. MaxMillis -> ItemRecs] /\ latestRow \in ItemRecs
    /\ review \in [Reviewers -> CallRecs]
    /\ decided \in [1 .. MaxReviews -> {"none", "Queued", "Approved", "Rejected"}]

\* Every row is under the millisecond of its item, and none is from the future.
RowsKeyed ==
    /\ \A t \in 1 .. MaxMillis : rows[t].id # 0 => rows[t].updated = t
    /\ \A t \in 1 .. MaxMillis : rows[t].id <= reviews /\ rows[t].updated <= millis
    /\ latestRow.id <= reviews /\ latestRow.updated <= millis
    /\ \A c \in Reviewers : review[c].at # "idle" => review[c].item.id \in 1 .. reviews
    /\ \A c \in Reviewers : review[c].at \in {"row", "latest"} =>
          review[c].item.updated \in 1 .. millis

\* No row of the review r is newer than u.
NoneNewer(r, u) ==
    /\ \A t \in 1 .. MaxMillis : rows[t].id = r => t <= u
    /\ latestRow.id = r => latestRow.updated <= u

\* The call of c is on the review r, and is at that place.
IsAt(c, place, r) == review[c].at = place /\ review[c].item.id = r

\* Rows of a review that never cross: what is about to be written is at least as new as
\* all that is there, and of one millisecond; what is about to become "latest" has a row
\* still; and the newest row has the last decision.
InOrder(r) ==
    /\ \A c, d \in Reviewers : IsAt(c, "row", r) /\ IsAt(d, "row", r) =>
          review[c].item.updated = review[d].item.updated
    /\ \A c \in Reviewers : IsAt(c, "row", r) => NoneNewer(r, review[c].item.updated)
    /\ \A c \in Reviewers : IsAt(c, "latest", r) => rows[review[c].item.updated].id = r
    /\ decided[r] # "none" =>
          \E t \in 1 .. MaxMillis :
             rows[t].id = r /\ rows[t].status = decided[r] /\ NoneNewer(r, t)

\* The inductive invariant of the patch review queue.
ReviewInv ==
    /\ ReviewShapes /\ RowsKeyed
    /\ \A r \in 1 .. MaxReviews : r \notin crossed \cup clashed => InOrder(r)

\* A caller at rest has a well-formed record.
LEMMA NoCallIsCall ==
    /\ NoItem \in ItemRecs /\ NoItem.id = 0 /\ NoItem.updated = 0
    /\ NoCall \in CallRecs /\ NoCall.at = "idle"
BY ReviewBounds DEF NoItem, NoCall, ItemRecs, CallRecs

\* An empty queue satisfies the invariant.
LEMMA ReviewInitInv == ReviewInit => ReviewInv
<1> SUFFICES ASSUME ReviewInit PROVE ReviewInv
  OBVIOUS
<1> USE ReviewBounds, NoCallIsCall DEF ReviewInit
<1>1. ReviewShapes
  BY DEF ReviewShapes
<1>2. RowsKeyed
  BY DEF RowsKeyed
<1> QED
  BY <1>1, <1>2 DEF ReviewInv, InOrder, IsAt

\* The item of an enqueue: what needs a person is not approved by the policy.
LEMMA EnqueuedItem ==
    ASSUME NEW kind \in {"patch", "proposal"}, NEW risky \in BOOLEAN, NEW n \in 1 .. MaxReviews,
           NEW u \in 1 .. MaxMillis, NEW item,
           item = [id |-> n, manual |-> kind # "patch" \/ risky,
                   status |-> InitialStatus(kind, risky), by |-> "policy", updated |-> u]
    PROVE  item \in ItemRecs /\ item.id = n /\ item.updated = u
<1> USE ReviewBounds
<1>1. InitialStatus(kind, risky) \in {"Queued", "Approved"}
  BY DEF InitialStatus
<1>2. CASE kind = "patch" /\ ~risky
  <2>1. (kind # "patch" \/ risky) = FALSE
    BY <1>2
  <2> QED
    BY <1>1, <2>1 DEF ItemRecs
<1>3. CASE kind # "patch" \/ risky
  <2>1. InitialStatus(kind, risky) = "Queued"
    BY <1>3 DEF InitialStatus
  <2> QED
    BY <2>1 DEF ItemRecs
<1> QED
  BY <1>2, <1>3

\* The listing returns rows of the review asked for.
LEMMA NewestIsStored ==
    ASSUME ReviewShapes, NEW r, NEW i \in NewestRow(r)
    PROVE  i \in ItemRecs /\ i.id = r
BY DEF NewestRow, Stored, ReviewShapes

\* The others' calls are as they were.
CallsStay(c) == \A d \in Reviewers \ {c} : review'[d] = review[d]

\* A call that has read the clock, with an item of this millisecond.
LEMMA CallStamped ==
    ASSUME ReviewInv, NEW c \in Reviewers, NEW item \in ItemRecs, NEW r0, r0 = item.id,
           review' = [review EXCEPT ![c] = [at |-> "row", item |-> item]],
           item.updated = millis, r0 \in 1 .. reviews',
           reviews' \in {reviews, reviews + 1}, reviews' <= MaxReviews,
           UNCHANGED <<millis, decisions, rows, latestRow, decided, clashed>>,
           crossed \subseteq crossed',
           (\E d \in Reviewers : IsAt(d, "row", r0) /\ review[d].item.updated < millis) =>
              r0 \in crossed'
    PROVE  ReviewInv'
<1> USE ReviewBounds DEF ReviewInv
<1>1. /\ CallsStay(c) /\ review'[c].at = "row" /\ review'[c].item = item
      /\ review' \in [Reviewers -> CallRecs]
  BY DEF ReviewShapes, CallsStay, CallRecs
<1>2. /\ reviews \in Nat /\ reviews <= reviews' /\ reviews' \in 0 .. MaxReviews
      /\ millis \in 1 .. millis /\ millis \in Nat
  BY DEF ReviewShapes
<1>3. ReviewShapes'
  BY <1>1, <1>2 DEF ReviewShapes
<1>4. RowsKeyed'
  <2>1. \A t \in 1 .. MaxMillis : rows[t].id \in Nat
    BY DEF ReviewShapes, ItemRecs
  <2>2. \A t \in 1 .. MaxMillis : rows[t].id <= reviews'
    BY <1>2, <2>1 DEF RowsKeyed
  <2>3. latestRow.id <= reviews'
    BY <1>2 DEF RowsKeyed, ReviewShapes, ItemRecs
  <2>4. \A d \in Reviewers \ {c} : review[d].at # "idle" => review[d].item.id \in 1 .. reviews'
    BY <1>2 DEF RowsKeyed
  <2> QED
    BY <1>1, <1>2, <2>2, <2>3, <2>4 DEF RowsKeyed, CallsStay
<1>5. ASSUME NEW r \in 1 .. MaxReviews, r \notin crossed' \cup clashed' PROVE InOrder(r)'
  <2>1. InOrder(r)
    BY <1>5
  <2>2. \A d \in Reviewers \ {c}, place \in {"row", "latest"} :
           /\ review'[d].item = review[d].item
           /\ IsAt(d, place, r)' <=> IsAt(d, place, r)
    BY <1>1 DEF CallsStay, IsAt
  <2>3. /\ IsAt(c, "row", r)' => r = r0
        /\ ~IsAt(c, "latest", r)' /\ review'[c].item.updated = millis
    BY <1>1 DEF IsAt
  <2>4. NoneNewer(r, millis)
    <3>1. r # 0 /\ RowsKeyed
      OBVIOUS
    <3>2. \A t \in 1 .. MaxMillis : rows[t].id = r => t <= millis
      BY <3>1 DEF RowsKeyed
    <3> QED
      BY <3>1, <3>2 DEF RowsKeyed, NoneNewer
  <2>5. ASSUME NEW d \in Reviewers, d # c, r = r0, IsAt(d, "row", r)
        PROVE  review[d].item.updated = millis
    <3>1. review[d].item.updated \in 1 .. millis /\ ~(review[d].item.updated < millis)
      BY <1>5, <2>5 DEF RowsKeyed, IsAt
    <3> QED
      BY <1>2, <3>1
  <2>6. \A d, e \in Reviewers : IsAt(d, "row", r)' /\ IsAt(e, "row", r)' =>
           review'[d].item.updated = review'[e].item.updated
    BY <2>1, <2>2, <2>3, <2>5 DEF InOrder
  <2>7. \A d \in Reviewers : IsAt(d, "row", r)' => NoneNewer(r, review'[d].item.updated)
    BY <2>1, <2>2, <2>3, <2>4 DEF InOrder
  <2>8. \A d \in Reviewers : IsAt(d, "latest", r)' => rows[review'[d].item.updated].id = r
    BY <2>1, <2>2, <2>3 DEF InOrder
  <2> QED
    BY <2>1, <2>6, <2>7, <2>8 DEF InOrder, NoneNewer
<1> QED
  BY <1>3, <1>4, <1>5

\* A decision that has listed the reviews, and has not read the clock.
LEMMA DecisionListed ==
    ASSUME ReviewInv, NEW c \in Reviewers, NEW item \in ItemRecs, item.id \in 1 .. reviews,
           review' = [review EXCEPT ![c] = [at |-> "listed", item |-> item]],
           decisions' \in 0 .. MaxDecisions,
           UNCHANGED <<millis, reviews, rows, latestRow, decided, clashed, crossed>>
    PROVE  ReviewInv'
<1> USE DEF ReviewInv
<1>1. /\ CallsStay(c) /\ review'[c].at = "listed" /\ review'[c].item = item
      /\ review' \in [Reviewers -> CallRecs]
  BY DEF ReviewShapes, CallsStay, CallRecs
<1>2. ReviewShapes' /\ RowsKeyed'
  BY <1>1 DEF ReviewShapes, RowsKeyed, CallsStay
<1>3. ASSUME NEW r \in 1 .. MaxReviews, r \notin crossed' \cup clashed' PROVE InOrder(r)'
  <2>1. InOrder(r)
    BY <1>3
  <2>2. \A d \in Reviewers, place \in {"row", "latest"} :
           IsAt(d, place, r)' => IsAt(d, place, r) /\ review'[d] = review[d]
    BY <1>1 DEF CallsStay, IsAt
  <2> QED
    BY <2>1, <2>2 DEF InOrder, NoneNewer
<1> QED
  BY <1>2, <1>3

\* The first upsert preserves the invariant.
LEMMA ReviewWritesRow ==
    ASSUME ReviewInv, NEW c \in Reviewers, WriteReviewRow(c)
    PROVE  ReviewInv'
<1> USE ReviewBounds DEF ReviewInv
<1> DEFINE item == review[c].item
<1>1. PICK i, u, n : i = review[c].item /\ u = i.updated /\ n = i.id
  OBVIOUS
<1>2. /\ review[c].at = "row" /\ rows' = [rows EXCEPT ![u] = i]
      /\ decided' = [decided EXCEPT ![n] = i.status]
      /\ clashed' = IF rows[u].id \in {0, n} THEN clashed ELSE clashed \cup {rows[u].id}
      /\ review' = [review EXCEPT ![c].at = "latest"]
      /\ UNCHANGED <<millis, reviews, decisions, latestRow, crossed>>
  BY <1>1 DEF WriteReviewRow
<1>3. /\ i \in ItemRecs /\ n \in 1 .. reviews /\ u \in 1 .. millis /\ n \in 1 .. MaxReviews
      /\ u \in 1 .. MaxMillis /\ n # 0 /\ reviews \in Nat /\ millis \in Nat
  <2>1. i \in ItemRecs /\ n \in 1 .. reviews /\ u \in 1 .. millis
    BY <1>1, <1>2 DEF RowsKeyed, ReviewShapes, CallRecs
  <2> QED
    BY <2>1 DEF ReviewShapes
<1>4. /\ CallsStay(c) /\ review'[c].at = "latest" /\ review'[c].item = i
      /\ review' \in [Reviewers -> CallRecs]
  BY <1>1, <1>2 DEF ReviewShapes, CallsStay, CallRecs
<1>5. /\ rows' \in [1 .. MaxMillis -> ItemRecs] /\ rows'[u] = i
      /\ \A t \in 1 .. MaxMillis : t # u => rows'[t] = rows[t]
  BY <1>2, <1>3 DEF ReviewShapes
<1>6. /\ decided' \in [1 .. MaxReviews -> {"none", "Queued", "Approved", "Rejected"}]
      /\ decided'[n] = i.status /\ \A r \in 1 .. MaxReviews : r # n => decided'[r] = decided[r]
  BY <1>2, <1>3 DEF ReviewShapes, ItemRecs
<1>7. ReviewShapes'
  BY <1>2, <1>4, <1>5, <1>6 DEF ReviewShapes
<1>8. RowsKeyed'
  <2>1. i.updated = u /\ i.id = n /\ n <= reviews /\ u <= millis
    BY <1>1, <1>3
  <2>2. \A d \in Reviewers :
          /\ review'[d].at # "idle" => review'[d].item.id \in 1 .. reviews
          /\ review'[d].at \in {"row", "latest"} => review'[d].item.updated \in 1 .. millis
    BY <1>1, <1>3, <1>4 DEF RowsKeyed, CallsStay
  <2>3. /\ \A t \in 1 .. MaxMillis : rows'[t].id # 0 => rows'[t].updated = t
        /\ \A t \in 1 .. MaxMillis : rows'[t].id <= reviews /\ rows'[t].updated <= millis
    BY <1>5, <2>1 DEF RowsKeyed
  <2> QED
    BY <1>2, <2>2, <2>3 DEF RowsKeyed
\* Another review loses a row at most, and then it has clashed.
<1>9. ASSUME NEW r \in 1 .. MaxReviews, r # n
      PROVE  /\ \A t \in 1 .. MaxMillis : rows'[t].id = r => rows[t] = rows'[t]
             /\ r \notin clashed' =>
                   \A t \in 1 .. MaxMillis : rows[t].id = r => rows'[t] = rows[t]
  <2>1. i.id # r
    BY <1>1, <1>9
  <2>2. r # 0 /\ (r \notin clashed' => rows[u].id # r)
    BY <1>2, <1>9
  <2> QED
    BY <1>5, <2>1, <2>2
<1>10. ASSUME NEW r \in 1 .. MaxReviews, r # n, NEW t \in Nat, NoneNewer(r, t)
       PROVE  NoneNewer(r, t)'
  BY <1>2, <1>9, <1>10 DEF NoneNewer
<1>11. ASSUME NEW r \in 1 .. MaxReviews
       PROVE  /\ \A d \in Reviewers : IsAt(d, "row", r)' =>
                    IsAt(d, "row", r) /\ review'[d] = review[d]
              /\ \A d \in Reviewers \ {c} : IsAt(d, "latest", r)' =>
                    IsAt(d, "latest", r) /\ review'[d] = review[d]
              /\ IsAt(c, "latest", r)' => r = n
              /\ \A d \in Reviewers, place \in {"row", "latest"} : IsAt(d, place, r) =>
                    review[d].item.updated \in 1 .. MaxMillis /\ review[d].item.updated \in Nat
  <2>1. \A d \in Reviewers, place \in {"row", "latest"} : IsAt(d, place, r) =>
           review[d].item.updated \in 1 .. millis
    BY DEF IsAt, RowsKeyed
  <2> QED
    BY <1>1, <1>4, <2>1 DEF IsAt, CallsStay, ReviewShapes
<1>12. ASSUME NEW r \in 1 .. MaxReviews, r \notin crossed' \cup clashed', r # n
       PROVE  InOrder(r)'
  <2>1. InOrder(r)
    BY <1>2, <1>12
  <2>2. \A d, e \in Reviewers : IsAt(d, "row", r)' /\ IsAt(e, "row", r)' =>
           review'[d].item.updated = review'[e].item.updated
    BY <1>11, <2>1 DEF InOrder
  <2>3. ASSUME NEW d \in Reviewers, IsAt(d, "row", r)'
        PROVE  NoneNewer(r, review[d].item.updated)' /\ review'[d] = review[d]
    <3>1. PICK v : v = review[d].item.updated /\ v = review'[d].item.updated
      BY <1>11, <2>3
    <3>2. v \in Nat /\ NoneNewer(r, v) /\ review'[d] = review[d]
      BY <1>11, <2>1, <2>3, <3>1 DEF InOrder
    <3>3. NoneNewer(r, v)'
      BY <1>10, <1>12, <3>2
    <3> QED
      BY <3>1, <3>2, <3>3 DEF NoneNewer
  <2>4. ASSUME NEW d \in Reviewers, IsAt(d, "latest", r)'
        PROVE  rows'[review'[d].item.updated].id = r
    <3>1. d # c /\ IsAt(d, "latest", r) /\ review'[d] = review[d]
      BY <1>11, <1>12, <2>4
    <3>2. rows[review[d].item.updated].id = r /\ review[d].item.updated \in 1 .. MaxMillis
      BY <1>11, <2>1, <3>1 DEF InOrder
    <3> QED
      BY <1>9, <1>12, <3>1, <3>2
  <2>5. ASSUME decided'[r] # "none"
        PROVE  \E t \in 1 .. MaxMillis :
                  rows'[t].id = r /\ rows'[t].status = decided'[r] /\ NoneNewer(r, t)'
    <3>1. PICK t \in 1 .. MaxMillis : /\ rows[t].id = r /\ rows[t].status = decided[r]
                                     /\ NoneNewer(r, t)
      BY <1>6, <1>12, <2>1, <2>5 DEF InOrder
    <3>2. rows'[t] = rows[t] /\ decided'[r] = decided[r]
      BY <1>6, <1>9, <1>12, <3>1
    <3>3. NoneNewer(r, t)'
      BY <1>10, <1>12, <3>1
    <3> QED
      BY <3>1, <3>2, <3>3
  <2> QED
    BY <2>2, <2>3, <2>4, <2>5 DEF InOrder, NoneNewer
<1>13. ASSUME n \notin crossed' \cup clashed' PROVE InOrder(n)'
  <2>1. InOrder(n) /\ NoneNewer(n, u)
    <3>1. InOrder(n)
      BY <1>2, <1>3, <1>13
    <3> QED
      BY <1>1, <1>2, <3>1 DEF InOrder, IsAt
  <2>2. NoneNewer(n, u)'
    BY <1>2, <1>3, <1>5, <2>1 DEF NoneNewer
  <2>3. \A d \in Reviewers : IsAt(d, "row", n)' =>
           review[d].item.updated = u /\ review'[d].item.updated = u
    BY <1>1, <1>2, <1>3, <1>11, <2>1 DEF InOrder, IsAt
  <2>4. rows'[u].id = n /\ rows'[u].status = decided'[n] /\ i.updated = u
    BY <1>1, <1>5, <1>6
  <2>5. ASSUME NEW d \in Reviewers, IsAt(d, "latest", n)'
        PROVE  rows'[review'[d].item.updated].id = n
    <3>1. CASE d = c
      BY <1>4, <2>4, <3>1
    <3>2. CASE d # c
      <4>1. IsAt(d, "latest", n) /\ review'[d] = review[d]
        BY <1>3, <1>11, <2>5, <3>2
      <4>2. rows[review[d].item.updated].id = n /\ review[d].item.updated \in 1 .. MaxMillis
        BY <1>3, <1>11, <2>1, <4>1 DEF InOrder
      <4> QED
        BY <1>5, <2>4, <4>1, <4>2
    <3> QED
      BY <3>1, <3>2
  <2>6. \A d \in Reviewers : IsAt(d, "row", n)' => NoneNewer(n, review[d].item.updated)'
    BY <2>2, <2>3 DEF NoneNewer
  <2> QED
    BY <1>3, <2>2, <2>3, <2>4, <2>5, <2>6 DEF InOrder, NoneNewer
<1> QED
  BY <1>3, <1>7, <1>8, <1>12, <1>13

\* The second upsert, and a failure of either, preserve the invariant.
LEMMA ReviewEnds ==
    ASSUME ReviewInv, NEW c \in Reviewers, WriteLatestRow(c) \/ ReviewFails(c)
    PROVE  ReviewInv'
<1> USE ReviewBounds DEF ReviewInv
<1>1. PICK i : i = review[c].item
  OBVIOUS
<1>2. /\ review[c].at # "idle" /\ review' = [review EXCEPT ![c] = NoCall]
      /\ latestRow' = latestRow \/ (review[c].at = "latest" /\ latestRow' = i)
      /\ UNCHANGED <<millis, reviews, decisions, rows, decided, clashed, crossed>>
  BY <1>1 DEF WriteLatestRow, ReviewFails
<1>3. /\ i \in ItemRecs /\ i.id \in 1 .. reviews
      /\ review[c].at = "latest" => i.updated \in 1 .. millis /\ i.updated \in 1 .. MaxMillis
  BY <1>1, <1>2 DEF RowsKeyed, ReviewShapes, CallRecs
<1>4. CallsStay(c) /\ review'[c] = NoCall /\ review' \in [Reviewers -> CallRecs]
  BY <1>2, NoCallIsCall DEF ReviewShapes, CallsStay
<1>5. ReviewShapes'
  BY <1>2, <1>3, <1>4 DEF ReviewShapes
<1>6. RowsKeyed'
  <2>1. latestRow'.id <= reviews /\ latestRow'.updated <= millis
    BY <1>2, <1>3 DEF RowsKeyed
  <2> QED
    BY <1>2, <1>4, <2>1, NoCallIsCall DEF RowsKeyed, CallsStay
<1>7. ASSUME NEW r \in 1 .. MaxReviews, r \notin crossed' \cup clashed' PROVE InOrder(r)'
  <2>1. InOrder(r)
    BY <1>2, <1>7
  <2>2. \A d \in Reviewers, place \in {"row", "latest"} :
           IsAt(d, place, r)' => IsAt(d, place, r) /\ review'[d] = review[d]
    BY <1>4, NoCallIsCall DEF IsAt, CallsStay
  <2>3. ASSUME NEW t, NoneNewer(r, t) PROVE NoneNewer(r, t)'
    <3>1. latestRow' # latestRow /\ i.id = r =>
             rows[i.updated].id = r /\ i.updated \in 1 .. MaxMillis
      BY <1>1, <1>2, <1>3, <2>1 DEF InOrder, IsAt
    <3>2. latestRow'.id = r => latestRow'.updated <= t
      BY <1>2, <2>3, <3>1 DEF NoneNewer
    <3> QED
      BY <1>2, <2>3, <3>2 DEF NoneNewer
  <2>4. ASSUME NEW d \in Reviewers, IsAt(d, "row", r)'
        PROVE  NoneNewer(r, review[d].item.updated)' /\ review'[d] = review[d]
    <3>1. PICK v : v = review[d].item.updated /\ v = review'[d].item.updated
      BY <2>2, <2>4
    <3>2. NoneNewer(r, v)'
      BY <2>1, <2>2, <2>3, <2>4, <3>1 DEF InOrder
    <3> QED
      BY <2>2, <2>4, <3>1, <3>2 DEF NoneNewer
  <2>5. /\ \A d, e \in Reviewers : IsAt(d, "row", r)' /\ IsAt(e, "row", r)' =>
              review'[d].item.updated = review'[e].item.updated
        /\ \A d \in Reviewers : IsAt(d, "latest", r)' => rows[review'[d].item.updated].id = r
    BY <2>1, <2>2 DEF InOrder
  <2>6. decided[r] # "none" =>
          \E t \in 1 .. MaxMillis :
             rows[t].id = r /\ rows[t].status = decided[r] /\ NoneNewer(r, t)'
    BY <2>1, <2>3 DEF InOrder
  <2> QED
    BY <1>2, <2>4, <2>5, <2>6 DEF InOrder, NoneNewer
<1> QED
  BY <1>5, <1>6, <1>7

\* Every step preserves the invariant of the queue.
LEMMA ReviewStep == ReviewInv /\ [ReviewNext]_reviewVars => ReviewInv'
<1> SUFFICES ASSUME ReviewInv, [ReviewNext]_reviewVars PROVE ReviewInv'
  OBVIOUS
<1> USE ReviewBounds
<1>0. /\ millis \in 1 .. MaxMillis /\ reviews \in Nat /\ reviews <= MaxReviews
      /\ decisions \in Nat /\ decisions <= MaxDecisions
  BY DEF ReviewInv, ReviewShapes
<1>1. CASE NextMilli
  <2>1. /\ millis < MaxMillis /\ millis' = millis + 1
        /\ UNCHANGED <<reviews, decisions, rows, latestRow, review, decided, clashed, crossed>>
    BY <1>1 DEF NextMilli
  <2>2. ReviewShapes'
    BY <2>1 DEF ReviewInv, ReviewShapes
  <2>3. RowsKeyed'
    <3>1. \A t \in 1 .. MaxMillis : rows[t].updated \in Nat
      BY DEF ReviewInv, ReviewShapes, ItemRecs
    <3>2. \A t \in 1 .. MaxMillis : rows[t].updated <= millis'
      BY <1>0, <2>1, <3>1 DEF ReviewInv, RowsKeyed
    <3>3. latestRow.updated <= millis'
      BY <1>0, <2>1 DEF ReviewInv, ReviewShapes, RowsKeyed, ItemRecs
    <3>4. \A c \in Reviewers : review[c].at \in {"row", "latest"} =>
             review[c].item.updated \in 1 .. millis'
      BY <1>0, <2>1 DEF ReviewInv, RowsKeyed
    <3> QED
      BY <2>1, <3>2, <3>3, <3>4 DEF ReviewInv, RowsKeyed
  <2> QED
    BY <2>1, <2>2, <2>3 DEF ReviewInv, InOrder, NoneNewer, IsAt
<1>2. ASSUME NEW c \in Reviewers, NEW kind \in {"patch", "proposal"}, NEW risky \in BOOLEAN,
             BeginEnqueue(c, kind, risky)
      PROVE  ReviewInv'
  <2> DEFINE item == [id |-> reviews + 1, manual |-> kind # "patch" \/ risky,
                      status |-> InitialStatus(kind, risky), by |-> "policy",
                      updated |-> millis]
  <2>1. /\ review[c].at = "idle" /\ reviews < MaxReviews /\ reviews' = reviews + 1
        /\ review' = [review EXCEPT ![c] = [at |-> "row", item |-> item]]
        /\ UNCHANGED <<millis, decisions, rows, latestRow, decided, clashed, crossed>>
    BY <1>2 DEF BeginEnqueue
  <2>2. reviews + 1 \in 1 .. MaxReviews /\ reviews + 1 \in 1 .. reviews' /\ reviews' <= MaxReviews
    BY <1>0, <2>1
  <2>3. item \in ItemRecs /\ item.id = reviews + 1 /\ item.updated = millis
    BY <1>0, <2>2, EnqueuedItem
  <2> HIDE DEF item
  <2>4. ~\E d \in Reviewers : IsAt(d, "row", item.id)
    BY <1>0, <2>3 DEF ReviewInv, RowsKeyed, IsAt
  <2> QED
    <3>1. PICK j : j = item
      OBVIOUS
    <3>2. /\ j \in ItemRecs /\ review' = [review EXCEPT ![c] = [at |-> "row", item |-> j]]
          /\ j.updated = millis /\ j.id \in 1 .. reviews'
          /\ ~\E d \in Reviewers : IsAt(d, "row", j.id)
      BY <2>1, <2>2, <2>3, <2>4, <3>1
    <3>3. /\ reviews' \in {reviews, reviews + 1} /\ crossed \subseteq crossed'
          /\ UNCHANGED <<millis, decisions, rows, latestRow, decided, clashed>>
      BY <1>0, <2>1
    <3> QED
      BY <2>2, <3>2, <3>3, CallStamped
<1>3. ASSUME NEW c \in Reviewers, NEW r \in 1 .. reviews, NEW status \in {"Approved", "Rejected"},
             BeginDecide(c, r, status)
      PROVE  ReviewInv'
  <2>1. /\ decisions < MaxDecisions /\ decisions' = decisions + 1
        /\ UNCHANGED <<millis, reviews, rows, latestRow, decided, clashed, crossed>>
    BY <1>3 DEF BeginDecide
  <2>2. PICK j : \E old \in NewestRow(r) :
          /\ j = [old EXCEPT !.status = status, !.by = "person"]
          /\ review' = [review EXCEPT ![c] = [at |-> "listed", item |-> j]]
    BY <1>3 DEF BeginDecide
  <2>3. \A old \in NewestRow(r) : old \in ItemRecs /\ old.id = r
    BY NewestIsStored DEF ReviewInv
  <2>4. j \in ItemRecs /\ j.id = r
    BY <2>2, <2>3 DEF ItemRecs
  <2>5. decisions' \in 0 .. MaxDecisions
    BY <1>0, <2>1
  <2> QED
    BY <2>1, <2>2, <2>4, <2>5, DecisionListed
<1>4. ASSUME NEW c \in Reviewers, StampDecision(c) PROVE ReviewInv'
  <2>1. PICK old, j, r :
          /\ old = review[c].item /\ j = [old EXCEPT !.updated = millis] /\ r = old.id
    OBVIOUS
  <2>2. /\ review[c].at = "listed" /\ review' = [review EXCEPT ![c] = [at |-> "row", item |-> j]]
        /\ crossed' = IF \E d \in Reviewers : IsAt(d, "row", r) /\ review[d].item.updated < millis
                      THEN crossed \cup {r} ELSE crossed
        /\ UNCHANGED <<millis, reviews, decisions, rows, latestRow, decided, clashed>>
    BY <1>4, <2>1 DEF StampDecision, IsAt
  <2>3. j \in ItemRecs /\ j.id = r /\ j.updated = millis
    <3>1. old \in ItemRecs /\ millis \in 0 .. MaxMillis
      BY <1>0, <2>1, <2>2 DEF ReviewInv, ReviewShapes, CallRecs
    <3> QED
      BY <2>1, <3>1 DEF ItemRecs
  <2>4. /\ r \in 1 .. reviews' /\ reviews' \in {reviews, reviews + 1} /\ reviews' <= MaxReviews
        /\ crossed \subseteq crossed'
    BY <1>0, <2>1, <2>2 DEF ReviewInv, RowsKeyed
  <2> QED
    BY <2>2, <2>3, <2>4, CallStamped
<1>5. CASE UNCHANGED reviewVars
  BY <1>5 DEF reviewVars, ReviewInv, ReviewShapes, RowsKeyed, InOrder, NoneNewer, IsAt
<1> QED
  BY <1>1, <1>2, <1>3, <1>4, <1>5, ReviewWritesRow, ReviewEnds DEF ReviewNext

\* The inductive invariant holds of every run of the patch review queue.
THEOREM ReviewInvariant == ReviewSpec => []ReviewInv
BY ReviewInitInv, ReviewStep, PTL DEF ReviewSpec

\* The rows of the queue stay well-formed, and none is from the future.
THEOREM ReviewTypes == ReviewSpec => []ReviewTypeOK
<1>1. ASSUME ReviewInv PROVE ReviewTypeOK
  <2>1. \A i \in Stored : i \in ItemRecs /\ i.id <= reviews /\ i.updated <= millis
    BY <1>1 DEF ReviewInv, ReviewShapes, RowsKeyed, Stored
  <2>2. /\ millis \in 1 .. MaxMillis /\ reviews \in 0 .. MaxReviews
        /\ decisions \in 0 .. MaxDecisions
    BY <1>1 DEF ReviewInv, ReviewShapes
  <2>3. \A i \in Stored : /\ i.id \in 0 .. reviews /\ i.updated \in 0 .. millis
                          /\ i.status \in {"none", "Queued", "Approved", "Rejected"}
    BY <2>1, <2>2, ReviewBounds DEF ItemRecs
  <2> QED
    BY <2>2, <2>3 DEF ReviewTypeOK
<1> QED
  BY <1>1, ReviewInvariant, PTL

\* A review is listed with the status it was last given, whatever failed between its two
\* rows and however late the second is, unless a later decision read the clock before an
\* earlier one had its row, or a row was overwritten within its millisecond;
\* what needs a person is approved by one (DecisionStands).
THEOREM DecisionsStand == ReviewSpec => []DecisionStands
<1>1. ASSUME ReviewInv PROVE DecisionStands
  <2>1. ASSUME NEW r \in 1 .. reviews, decided[r] # "none", r \notin clashed \cup crossed
        PROVE  { i.status : i \in NewestRow(r) } = {decided[r]}
    <3>0. r \in 1 .. MaxReviews /\ r # 0
      BY <1>1, ReviewBounds DEF ReviewInv, ReviewShapes
    <3>1. PICK t \in 1 .. MaxMillis : /\ rows[t].id = r /\ rows[t].status = decided[r]
                                     /\ NoneNewer(r, t)
      BY <1>1, <2>1, <3>0 DEF ReviewInv, InOrder
    <3>2. rows[t] \in Stored /\ rows[t].updated = t
      BY <1>1, <3>0, <3>1 DEF Stored, ReviewInv, RowsKeyed
    <3>3. \A j \in Stored : j.id = r => j.updated <= t
      <4>1. \A s \in 1 .. MaxMillis : rows[s].id = r => rows[s].updated = s /\ s <= t
        BY <1>1, <3>0, <3>1 DEF ReviewInv, RowsKeyed, NoneNewer
      <4> QED
        BY <3>1, <4>1 DEF Stored, NoneNewer
    <3>4. \A j \in Stored : j.updated \in Nat
      BY <1>1, ReviewBounds DEF ReviewInv, ReviewShapes, ItemRecs, Stored
    <3>5. \A s \in 1 .. MaxMillis : rows[s].id = r => rows[s].updated = s
      BY <1>1, <3>0 DEF ReviewInv, RowsKeyed
    <3> DEFINE newest == { i \in Stored : /\ i.id = r
                                          /\ \A j \in Stored : j.id = r => i.updated >= j.updated }
               keyed  == { i \in newest : \E s \in 1 .. MaxMillis : rows[s] = i }
    <3>6. rows[t] \in newest
      BY <3>1, <3>2, <3>3, <3>4
    <3>7. rows[t] \in keyed
      BY <3>6
    <3>8. ASSUME NEW i \in keyed PROVE i = rows[t]
      <4>1. i \in Stored /\ i.id = r /\ i.updated >= t
        BY <3>1, <3>2
      <4>2. i.updated = t
        BY <3>3, <3>4, <4>1
      <4>3. PICK s \in 1 .. MaxMillis : rows[s] = i
        OBVIOUS
      <4> QED
        BY <3>5, <4>1, <4>2, <4>3
    <3>9. NewestRow(r) = keyed
      BY <3>7 DEF NewestRow
    <3> HIDE DEF newest, keyed
    <3> QED
      BY <3>1, <3>7, <3>8, <3>9
  <2>2. \A i \in Stored : i.manual /\ i.status = "Approved" => i.by = "person"
    BY <1>1 DEF ReviewInv, ReviewShapes, ItemRecs, Stored
  <2> QED
    BY <2>1, <2>2 DEF DecisionStands
<1> QED
  BY <1>1, ReviewInvariant, PTL
==============================================================================
