-------------------------- MODULE WorkflowMachine --------------------------
(***************************************************************************)
(* The workflow state machine of src/src/session: the transition table of   *)
(* transition.rs and the two ways machine.rs applies a signal.  The machine *)
(* owns its state and hands one record per transition to an audit sink,     *)
(* which may fail; it advances first and records afterwards.                *)
(***************************************************************************)
EXTENDS Naturals, Sequences

VARIABLES
    wfState,    \* WorkflowMachine.state
    trail,      \* the records the audit sink has stored, oldest first
    unaudited   \* transitions taken whose record the sink failed to store

wfVars == <<wfState, trail, unaudited>>

States == {"Intake", "PolicyReview", "Planned", "Scheduled", "Executing",
           "Verifying", "Closed", "Blocked"}

Signals == {"IntentReceived", "PolicyApproved", "PolicyRejected",
            "PlanCommitted", "TaskScheduled", "ExecutionStarted",
            "ExecutionFailed", "RuntimeBlocked", "VerifyPassed",
            "VerifyRejected", "Closed"}

\* The match arms of next_state.
Table == {
    <<"Intake",       "IntentReceived",   "PolicyReview">>,
    <<"PolicyReview", "PolicyApproved",   "Planned">>,
    <<"PolicyReview", "PolicyRejected",   "PolicyReview">>,
    <<"Planned",      "PlanCommitted",    "Scheduled">>,
    <<"Scheduled",    "TaskScheduled",    "Executing">>,
    <<"Executing",    "ExecutionStarted", "Executing">>,
    <<"Executing",    "ExecutionFailed",  "Planned">>,
    <<"Executing",    "RuntimeBlocked",   "Blocked">>,
    <<"Executing",    "VerifyPassed",     "Verifying">>,
    <<"Executing",    "VerifyRejected",   "Verifying">>,
    <<"Verifying",    "VerifyRejected",   "Planned">>,
    <<"Verifying",    "VerifyPassed",     "Closed">>,
    <<"Blocked",      "PolicyApproved",   "Planned">>,
    <<"Executing",    "TaskScheduled",    "Executing">>,
    <<"Executing",    "PlanCommitted",    "Executing">>,
    <<"Executing",    "PolicyRejected",   "Planned">>,
    <<"Executing",    "PolicyApproved",   "Executing">>,
    <<"Scheduled",    "ExecutionStarted", "Executing">>,
    <<"Planned",      "TaskScheduled",    "Scheduled">>,
    <<"Planned",      "VerifyRejected",   "Planned">>,
    <<"Planned",      "PolicyRejected",   "PolicyReview">>,
    <<"Closed",       "VerifyRejected",   "Planned">>,
    <<"Closed",       "VerifyPassed",     "Closed">> }

\* next_state(from, sig) = Ok(to): an arm of the table, or (_, Sig::Closed).
NextState(from, sig, to) ==
    \/ <<from, sig, to>> \in Table
    \/ sig = "Closed" /\ to = "Closed"

Legal(from, sig) == \E to \in States : NextState(from, sig, to)

Verdicts == {"VerifyPassed", "VerifyRejected"}

Record(from, sig, to) == [from |-> from, signal |-> sig, to |-> to]

Records == [from : States, signal : Signals, to : States]

WFInit ==
    /\ wfState = "Intake"
    /\ trail = <<>>
    /\ unaudited = 0

\* Mutated forms: a lost record also loses the move; the record's `from` is read
\* after the assignment.
ApplySingleUndo(to, sig) ==
    \/ /\ wfState' = to
       /\ trail' = Append(trail, Record(wfState, sig, to))
       /\ UNCHANGED unaudited
    \/ /\ unaudited' = unaudited + 1
       /\ UNCHANGED <<wfState, trail>>

ApplySingleLateFrom(to, sig) ==
    /\ wfState' = to
    /\ \/ /\ trail' = Append(trail, Record(to, sig, to))
          /\ UNCHANGED unaudited
       \/ /\ unaudited' = unaudited + 1
          /\ UNCHANGED trail

\* apply_single: `self.state = to` precedes record_transition, whose failure
\* becomes a TransitionError but does not undo the assignment.
ApplySingle(to, sig) ==
    /\ wfState' = to
    /\ \/ /\ trail' = Append(trail, Record(wfState, sig, to))
          /\ UNCHANGED unaudited
       \/ /\ unaudited' = unaudited + 1
          /\ UNCHANGED trail

\* A verdict in Executing is two hops, Executing -> Verifying -> target.  The
\* `?` after the first hop leaves the machine in Verifying when its record is
\* lost; the second hop loses its own record after it has moved.
VerdictHop(sig) ==
    LET hop == Record("Executing", sig, "Verifying") IN
    \/ /\ wfState' = "Verifying"
       /\ unaudited' = unaudited + 1
       /\ UNCHANGED trail
    \/ \E to \in States :
        /\ NextState("Verifying", sig, to)
        /\ wfState' = to
        /\ \/ /\ trail' = Append(Append(trail, hop), Record("Verifying", sig, to))
              /\ UNCHANGED unaudited
           \/ /\ trail' = Append(trail, hop)
              /\ unaudited' = unaudited + 1

\* WorkflowMachine::apply.  An illegal signal is an error and changes nothing.
Apply(sig) ==
    \/ /\ wfState = "Executing" /\ sig \in Verdicts
       /\ VerdictHop(sig)
    \/ /\ ~(wfState = "Executing" /\ sig \in Verdicts)
       /\ \E to \in States : NextState(wfState, sig, to) /\ ApplySingle(to, sig)
    \/ /\ ~Legal(wfState, sig)
       /\ UNCHANGED wfVars
=============================================================================
