---------------------------- MODULE RemoteSession ----------------------------
(***************************************************************************)
(* Remote control of one session (transport/remote_session.rs) and its     *)
(* bridge (transport/bridge.rs): tokens are issued, each start consumes    *)
(* one, the bridge's entry lives in memory and its status is also written   *)
(* to the state store.                                                     *)
(*                                                                         *)
(* Several clients call the runner at once; a step is one critical section  *)
(* of its locks or one access to the store.  Time is counted in units of    *)
(* which a second has Second.                                              *)
(***************************************************************************)
EXTENDS Integers, Sequences

CONSTANTS Peers,          \* clients of the runner
          Subjects,       \* subjects that tokens are issued to
          Second,         \* time units in a second: exp is in whole seconds
          TokenTtl,       \* bounded_ttl of a token
          MaxTime,        \* bound: the clock
          MaxTokens,      \* bound: tokens issued
          MaxBuffered,    \* bound: envelopes on an entry
          MaxRestarts     \* bound: restarts of the process

ASSUME RemoteConstants ==
    /\ Second \in Nat \ {0} /\ {TokenTtl, MaxTime, MaxTokens, MaxBuffered, MaxRestarts} \subseteq Nat

VARIABLES clock,          \* current_time_ms
          tokens,         \* the tokens clients have been given
          issues,         \* number of tokens issued
          record,         \* sessions: the current token, or none
          consumed,       \* consumed_jti
          entry,          \* the bridge's entry
          statusRow,      \* transport:bridge:<session>:status
          peer,           \* what each client is doing, with its locals
          lives,          \* restarts so far
          starts,         \* history: the jti of every start of this process
          replaced,       \* history: tokens this process has replaced by others
          tangled         \* history: two operations on the bridge overlapped, a
                          \* write of the status failed, or the process restarted

remoteVars == <<clock, tokens, issues, record, consumed, entry, statusRow, peer,
                lives, starts, replaced, tangled>>

NoToken == [sub |-> "none", jti |-> -1, exp |-> 0]
Down    == [there |-> FALSE, running |-> FALSE, buffered |-> 0, token |-> NoToken]
Quiet   == [at |-> "idle", token |-> NoToken, copy |-> Down, stale |-> FALSE]

InBridge == {"starting", "persist", "write"}
Tangles(p) == \E q \in Peers \ {p} : peer[q].at \in InBridge

RemoteInit ==
    /\ clock = 0 /\ tokens = {} /\ issues = 0 /\ record = NoToken /\ consumed = {}
    /\ entry = Down /\ statusRow = Down /\ lives = 0
    /\ peer = [p \in Peers |-> Quiet]
    /\ starts = <<>> /\ replaced = {} /\ tangled = FALSE

RemoteTick ==
    /\ clock < MaxTime
    /\ clock' = clock + 1
    /\ UNCHANGED <<tokens, issues, record, consumed, entry, statusRow, peer, lives, starts,
                   replaced, tangled>>

-----------------------------------------------------------------------------
\* issue_token: the jti is the time, so two tokens of one millisecond share it.
\* The record is replaced before the audit row is written; when that fails the
\* caller gets no token, and the one it had is void.
IssueToken(sub) ==
    /\ issues < MaxTokens
    /\ issues' = issues + 1
    /\ LET token == [sub |-> sub, jti |-> clock, exp |-> (clock + TokenTtl) \div Second]
       IN /\ record' = token
          /\ replaced' = (IF record = NoToken THEN replaced ELSE replaced \cup {record}) \ {token}
          /\ tokens' = tokens \cup {token} \/ UNCHANGED tokens
    /\ UNCHANGED <<clock, consumed, entry, statusRow, peer, lives, starts, tangled>>

\* validate_token up to the check of the rotation; a refusal is only audited.
Present(p, token) ==
    /\ peer[p].at = "idle" /\ token.exp > clock \div Second
    /\ record \in {NoToken, token}
    /\ peer' = [peer EXCEPT ![p] = [@ EXCEPT !.at = "checked", !.token = token,
                                             !.stale = token \in replaced]]
    /\ UNCHANGED <<clock, tokens, issues, record, consumed, entry, statusRow, lives, starts,
                   replaced, tangled>>

\* Mutant: the jti is noted, and not looked up.
ConsumeAlways(p) ==
    /\ peer[p].at = "checked"
    /\ consumed' = consumed \cup {peer[p].token.jti}
    /\ peer' = [peer EXCEPT ![p].at = "starting"]
    /\ UNCHANGED <<clock, tokens, issues, record, entry, statusRow, lives, starts, replaced,
                   tangled>>

\* The check and the insertion of the jti, under one write lock.
ConsumeJti(p) ==
    /\ peer[p].at = "checked"
    /\ IF peer[p].token.jti \in consumed
       THEN peer' = [peer EXCEPT ![p] = Quiet] /\ UNCHANGED consumed
       ELSE /\ consumed' = consumed \cup {peer[p].token.jti}
            /\ peer' = [peer EXCEPT ![p].at = "starting"]
    /\ UNCHANGED <<clock, tokens, issues, record, entry, statusRow, lives, starts, replaced,
                   tangled>>

\* bridge.start inserts a fresh entry, whenever that is: the token is not looked at again.
\* The expires_at_ms that remote_start computes from it is stored and never read, so it is
\* left out: a bridge runs until it is stopped, past the end of its token too.
StartBridge(p) ==
    /\ peer[p].at = "starting"
    /\ entry' = [there |-> TRUE, running |-> TRUE, buffered |-> 0, token |-> peer[p].token]
    /\ starts' = Append(starts, [jti |-> peer[p].token.jti, stale |-> peer[p].stale])
    /\ peer' = [peer EXCEPT ![p].at = "persist"]
    /\ tangled' = (tangled \/ Tangles(p))
    /\ UNCHANGED <<clock, tokens, issues, record, consumed, statusRow, lives, replaced>>

\* bridge.stop, which needs neither a token nor an entry.
StopBridge(p) ==
    /\ peer[p].at = "idle"
    /\ entry' = [entry EXCEPT !.running = FALSE]
    /\ peer' = [peer EXCEPT ![p].at = "persist"]
    /\ tangled' = (tangled \/ Tangles(p))
    /\ UNCHANGED <<clock, tokens, issues, record, consumed, statusRow, lives, starts, replaced>>

\* ingest_envelope: the status is looked up, and neither the token nor expires_at_ms; the
\* message goes to the session store.
AdmitEnvelope(p) ==
    /\ peer[p].at = "idle" /\ entry.running
    /\ peer' = [peer EXCEPT ![p].at = "ingest"]
    /\ UNCHANGED <<clock, tokens, issues, record, consumed, entry, statusRow, lives, starts,
                   replaced, tangled>>

\* It is counted on whatever entry is there then, a stopped or a newer one too.
CountEnvelope(p) ==
    /\ peer[p].at = "ingest" /\ entry.buffered < MaxBuffered
    /\ entry' = [entry EXCEPT !.buffered = @ + 1]
    /\ peer' = [peer EXCEPT ![p].at = "persist"]
    /\ tangled' = (tangled \/ Tangles(p))
    /\ UNCHANGED <<clock, tokens, issues, record, consumed, statusRow, lives, starts, replaced>>

\* persist_status copies the entry under the read lock, and writes the copy later.
ReadStatus(p) ==
    /\ peer[p].at = "persist"
    /\ peer' = [peer EXCEPT ![p] = [@ EXCEPT !.at = "write", !.copy = entry]]
    /\ UNCHANGED <<clock, tokens, issues, record, consumed, entry, statusRow, lives, starts,
                   replaced, tangled>>

WriteStatus(p) ==
    /\ peer[p].at = "write"
    /\ statusRow' = peer[p].copy
    /\ peer' = [peer EXCEPT ![p] = Quiet]
    /\ UNCHANGED <<clock, tokens, issues, record, consumed, entry, lives, starts, replaced,
                   tangled>>

\* The store fails: start and stop return the error, the entry stays.
WriteStatusFails(p) ==
    /\ peer[p].at = "write"
    /\ peer' = [peer EXCEPT ![p] = Quiet]
    /\ tangled' = TRUE
    /\ UNCHANGED <<clock, tokens, issues, record, consumed, entry, statusRow, lives, starts,
                   replaced>>

\* The process restarts: records, consumed jti and entries were in memory.
RestartRunner ==
    /\ lives < MaxRestarts
    /\ lives' = lives + 1
    /\ record' = NoToken /\ consumed' = {} /\ entry' = Down
    /\ peer' = [p \in Peers |-> Quiet]
    /\ starts' = <<>> /\ replaced' = {} /\ tangled' = TRUE
    /\ UNCHANGED <<clock, tokens, issues, statusRow>>

RemoteNext ==
    \/ RemoteTick \/ RestartRunner
    \/ \E sub \in Subjects : IssueToken(sub)
    \/ \E p \in Peers :
          \/ \E token \in tokens : Present(p, token)
          \/ ConsumeJti(p) \/ StartBridge(p) \/ StopBridge(p)
          \/ AdmitEnvelope(p) \/ CountEnvelope(p)
          \/ ReadStatus(p) \/ WriteStatus(p) \/ WriteStatusFails(p)

RemoteSpec == RemoteInit /\ [][RemoteNext]_remoteVars

-----------------------------------------------------------------------------
(* Properties. *)

\* Shapes; what is running was started.
RemoteTypeOK ==
    /\ clock \in 0 .. MaxTime /\ issues \in 0 .. MaxTokens /\ lives \in 0 .. MaxRestarts
    /\ \A t \in tokens : t.sub \in Subjects /\ t.jti \in 0 .. clock
    /\ \A p \in Peers : peer[p].at \in {"idle", "checked", "ingest"} \cup InBridge
    /\ entry.running => entry.token \in tokens /\ entry.token.jti \in consumed

\* Between two restarts a token starts a bridge once, however many clients
\* present it at the same time (tests/pq6_remote_bridge_jwt_replay_reject_e2e.rs
\* has them one after the other), and no start was asked for with a token that
\* had already been replaced by another.
OneStartPerToken ==
    /\ \A i, j \in DOMAIN starts : starts[i].jti = starts[j].jti => i = j
    /\ \A i \in DOMAIN starts : ~starts[i].stale

\* When nothing is under way the stored status is the bridge's, unless two
\* operations overlapped (the older copy may be written last), a write failed, or
\* the process restarted (the row still says running).
StatusRowCurrent ==
    \/ tangled
    \/ \E p \in Peers : peer[p].at \in InBridge
    \/ statusRow = entry
=============================================================================
