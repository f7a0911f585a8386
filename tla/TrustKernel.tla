----------------------------- MODULE TrustKernel -----------------------------
(***************************************************************************)
(* The trusted execution kernel of NoumenonCore (kernel.rs, state.rs,      *)
(* resource.rs, ledger.rs, execution.rs, syscall.rs, replay.rs).           *)
(*                                                                         *)
(* Several threads call `execute` on one kernel.  They share the resource  *)
(* pool, the budget account of their tenant and the evidence ledger, each  *)
(* behind a lock of its own; a step of this module is one critical         *)
(* section, or the whole of a piece of code that shares nothing.           *)
(***************************************************************************)
EXTENDS Integers, Sequences, FiniteSets, FiniteSetsExt, SequencesExt

CONSTANTS Execs,        \* the calls of execute
          ExecId,        \* the execution_id each one carries
          Plan,          \* its steps: a sequence of [cost, prio]
          Need,          \* what it asks of the resource pool, by kind
          Limit          \* what the pool has, by kind

Kinds == {"cpu", "memory"}

ASSUME KernelConstants ==
    /\ IsFiniteSet(Execs)
    /\ Plan \in [Execs -> Seq([cost : Nat, prio : Nat])]
    /\ Need \in [Execs -> [Kinds -> Nat]]
    /\ Limit \in [Kinds -> Nat]

VARIABLES status,        \* the state machine of a call
          result,        \* what the call has returned, or "running"
          pool,          \* cpu_used and memory_used_mb
          account,       \* the tenant's budget account
          ledger,        \* the evidence records, in the order they were appended
          todo,          \* outputs of the plan still to be recorded
          held,          \* calls whose ResourceReservation is alive
          charged        \* history: the calls that have consumed their cost

kernelVars == <<status, result, pool, account, ledger, todo, held, charged>>

-----------------------------------------------------------------------------
(* The state machine. *)

Status == {"PendingAdmission", "Admitted", "Enforcing", "Executing",
           "RecordingEvidence", "Verifying", "Rejected", "Failed",
           "RolledBack", "Completed"}

Transitions ==
    { <<"PendingAdmission", "Admitted">>, <<"PendingAdmission", "Rejected">>,
      <<"Admitted", "Enforcing">>, <<"Enforcing", "Executing">>,
      <<"Enforcing", "Rejected">>, <<"Executing", "RecordingEvidence">>,
      <<"Executing", "Failed">>, <<"RecordingEvidence", "Verifying">>,
      <<"RecordingEvidence", "Failed">>, <<"Verifying", "Completed">>,
      <<"Verifying", "Failed">>, <<"Failed", "RolledBack">> }

\* `transit` along a path of states: the call goes on only if each hop is valid.
Transit(e, path) ==
    LET hops == <<status[e]>> \o path
    IN /\ \A i \in 1 .. Len(path) : <<hops[i], hops[i + 1]>> \in Transitions
       /\ status' = [status EXCEPT ![e] = path[Len(path)]]

-----------------------------------------------------------------------------
(* The plan, as the scheduler drains it. *)

\* `dequeue`: the highest priority, and of those the oldest.
Dequeue(plan, left) ==
    CHOOSE i \in left :
        \A j \in left : \/ plan[i].prio > plan[j].prio
                        \/ plan[i].prio = plan[j].prio /\ i <= j

\* The order in which `drain` executes the steps of a plan.
Order(plan) ==
    LET drained[k \in 0 .. Len(plan)] ==
            IF k = 0 THEN <<>>
            ELSE Append(drained[k - 1],
                        Dequeue(plan, DOMAIN plan \ ToSet(drained[k - 1])))
    IN drained[Len(plan)]

\* The sum of f over S, for a finite S and natural numbers.
Total(f, S) == Cardinality(UNION { {x} \X (1 .. f[x]) : x \in S })

\* What execute reserves for a call, one unit per step, and what it consumes.
Units == [e \in Execs |-> Len(Plan[e])]
Cost  == [e \in Execs |-> Total([i \in DOMAIN Plan[e] |-> Plan[e][i].cost], DOMAIN Plan[e])]

-----------------------------------------------------------------------------
(* Evidence.  A digest is modelled by what it digests: a record's hash is   *)
(* the chain of <<step, output>> pairs that leads to it, the hash "genesis" *)
(* the empty chain, and the step 0 the admission context.  The output of a  *)
(* step is the call that produced it.                                       *)

Genesis == <<>>
Hash(step, output, prev) == Append(prev, <<step, output>>)

\* The elements of s at the positions `at`, in their order.
Kept(s, at) ==
    [k \in 1 .. Cardinality(at) |->
        s[CHOOSE i \in at : Cardinality({j \in at : j <= i}) = k]]

Evidence(id) == Kept(ledger, {i \in DOMAIN ledger : ledger[i].id = id})

\* by_prev_hash: of two records with the same prev_hash the later one stays.
ByPrevHash(events, prev) ==
    { i \in DOMAIN events : events[i].prev = prev
                          /\ \A j \in DOMAIN events : events[j].prev = prev => j <= i }

\* The walk from "genesis", one record after the other, at most all of them.
Walk(events) ==
    LET step[n \in 0 .. Len(events)] ==
            IF n = 0 THEN [at |-> Genesis, seen |-> <<>>]
            ELSE LET s == step[n - 1]
                     next == ByPrevHash(events, s.at)
                 IN IF next = {} THEN s
                    ELSE LET i == CHOOSE i \in next : TRUE
                         IN [at   |-> events[i].hash,
                             seen |-> Append(s.seen, events[i])]
    IN step[Len(events)].seen

Outputs(events) ==
    LET steps == Kept(events, {i \in DOMAIN events : events[i].step # 0})
    IN [i \in DOMAIN steps |-> <<steps[i].step, steps[i].out>>]

\* The fallback sorts by time and record id: the ids decide when the records
\* have the same millisecond, the order of appending when they have not.
ById(events) == SortSeq(events, LAMBDA a, b : a.step < b.step)

ReplayDigests(events) ==
    IF Len(Walk(events)) = Len(events)
    THEN {Outputs(Walk(events))}
    ELSE {Outputs(events), Outputs(ById(events))}

\* The chain of outputs in the record a call returns.
RecordedOutputs(e) ==
    LET order == Order(Plan[e]) IN [i \in DOMAIN order |-> <<order[i], e>>]

-----------------------------------------------------------------------------
KernelInit ==
    /\ status  = [e \in Execs |-> "PendingAdmission"]
    /\ result  = [e \in Execs |-> "running"]
    /\ pool    = [k \in Kinds |-> 0]
    /\ account = [reserved |-> 0, consumed |-> 0]
    /\ ledger  = <<>>
    /\ todo    = [e \in Execs |-> <<>>]
    /\ held    = {}
    /\ charged = {}

\* Drop of a ResourceReservation: `release`, saturating.
Release(e) ==
    /\ held' = held \ {e}
    /\ pool' = IF e \in held
               THEN [k \in Kinds |-> Max({0, pool[k] - Need[e][k]})]
               ELSE pool

\* Mutant: the reservation is leaked when the call returns an error.
ReturnLeaking(e, how) ==
    /\ result' = [result EXCEPT ![e] = how]
    /\ IF how = "error" THEN UNCHANGED <<held, pool>> ELSE Release(e)

\* The call returns: its reservation, if it has one, is dropped.
Return(e, how) ==
    /\ result' = [result EXCEPT ![e] = how]
    /\ Release(e)

Running(e, where) == result[e] = "running" /\ status[e] = where

\* Replay and audit modes, a bad identity, an unverified supply chain, the
\* rollout gate: rejected before admission.
RejectAdmission(e) ==
    /\ Running(e, "PendingAdmission")
    /\ Transit(e, <<"Rejected">>)
    /\ Return(e, "rejected")
    /\ UNCHANGED <<account, ledger, todo, charged>>

Admit(e) ==
    /\ Running(e, "PendingAdmission")
    /\ Transit(e, <<"Admitted", "Enforcing">>)
    /\ UNCHANGED <<result, pool, account, ledger, todo, held, charged>>

\* Attestation, tenant authority and hardening may refuse; so may the governor.
RejectEnforcing(e) ==
    /\ Running(e, "Enforcing") /\ e \notin held
    /\ Transit(e, <<"Rejected">>)
    /\ Return(e, "rejected")
    /\ UNCHANGED <<account, ledger, todo, charged>>

\* ResourceReservation::new
Reserve(e) ==
    /\ Running(e, "Enforcing") /\ e \notin held
    /\ \A k \in Kinds : pool[k] + Need[e][k] <= Limit[k]
    /\ pool' = [k \in Kinds |-> pool[k] + Need[e][k]]
    /\ held' = held \cup {e}
    /\ UNCHANGED <<status, result, account, ledger, todo, charged>>

\* The budget ledger refuses (its file cannot be written).
RejectBudget(e) ==
    /\ Running(e, "Enforcing") /\ e \in held
    /\ Transit(e, <<"Rejected">>)
    /\ Return(e, "rejected")
    /\ UNCHANGED <<account, ledger, todo, charged>>

\* One unit per step of the plan, on the tenant's account.
ReserveBudget(e) ==
    /\ Running(e, "Enforcing") /\ e \in held
    /\ account' = [account EXCEPT !.reserved = @ + Units[e]]
    /\ Transit(e, <<"Executing">>)
    /\ UNCHANGED <<result, pool, ledger, todo, held, charged>>

\* run_plan drains the whole plan; the context record is the first to be written.
RunPlan(e) ==
    /\ Running(e, "Executing")
    /\ Transit(e, <<"RecordingEvidence">>)
    /\ todo' = [todo EXCEPT ![e] = <<0>> \o Order(Plan[e])]
    /\ UNCHANGED <<result, pool, account, ledger, held, charged>>

\* A step fails and the drain stops.  `recover` may fail too: then the call
\* is an error and its machine stays Failed.
RunFails(e) ==
    /\ Running(e, "Executing")
    /\ \/ Transit(e, <<"Failed", "RolledBack">>) /\ Return(e, "rolledBack")
       \/ Transit(e, <<"Failed">>) /\ Return(e, "error")
    /\ UNCHANGED <<account, ledger, todo, charged>>

\* Mutant: prev_hash is not advanced past the context record.
PrevHashStuck(e) ==
    IF Len(todo[e]) > Units[e] THEN Genesis ELSE <<<<0, e>>>>

\* prev_hash of the call's next record: the hash of the one before it.
PrevHash(e) ==
    LET full == <<0>> \o Order(Plan[e])
        done == Len(full) - Len(todo[e])
    IN [i \in 1 .. done |-> <<full[i], e>>]

\* One append of a record, the admission context first.
AppendEvidence(e) ==
    /\ Running(e, "RecordingEvidence") /\ todo[e] # <<>>
    /\ LET step == Head(todo[e])
       IN ledger' = Append(ledger,
                           [id |-> ExecId[e], step |-> step, out |-> e,
                            prev |-> PrevHash(e),
                            hash |-> Hash(step, e, PrevHash(e))])
    /\ todo' = [todo EXCEPT ![e] = Tail(@)]
    /\ UNCHANGED <<status, result, pool, account, held, charged>>

\* The ledger's file cannot be written: `?` leaves with the machine where it is.
AppendFails(e) ==
    /\ Running(e, "RecordingEvidence") /\ todo[e] # <<>>
    /\ Return(e, "error")
    /\ UNCHANGED <<status, account, ledger, todo, charged>>

\* `consume` of the plan's cost, which the account's reserved units must cover.
Consume(e) ==
    /\ Running(e, "RecordingEvidence") /\ todo[e] = <<>>
    /\ account.reserved >= Cost[e]
    /\ account' = [reserved |-> account.reserved - Cost[e],
                   consumed |-> account.consumed + Cost[e]]
    /\ charged' = charged \cup {e}
    /\ Transit(e, <<"Verifying">>)
    /\ UNCHANGED <<result, pool, ledger, todo, held>>

\* `?` again: "insufficient reserved budget", or the account's file cannot be
\* written, however much is reserved.
ConsumeFails(e) ==
    /\ Running(e, "RecordingEvidence") /\ todo[e] = <<>>
    /\ Return(e, "error")
    /\ UNCHANGED <<status, account, ledger, todo, charged>>

\* The validator and the learning gate accept.
Complete(e) ==
    /\ Running(e, "Verifying")
    /\ Transit(e, <<"Completed">>)
    /\ Return(e, "completed")
    /\ UNCHANGED <<account, ledger, todo, charged>>

\* One of them refuses: recover, which may fail, and roll back.
RollBack(e) ==
    /\ Running(e, "Verifying")
    /\ \/ Transit(e, <<"Failed", "RolledBack">>) /\ Return(e, "rolledBack")
       \/ Transit(e, <<"Failed">>) /\ Return(e, "error")
    /\ UNCHANGED <<account, ledger, todo, charged>>

Step(e) ==
    \/ RejectAdmission(e) \/ Admit(e) \/ RejectEnforcing(e) \/ Reserve(e)
    \/ RejectBudget(e) \/ ReserveBudget(e) \/ RunPlan(e) \/ RunFails(e)
    \/ AppendEvidence(e) \/ AppendFails(e) \/ Consume(e) \/ ConsumeFails(e)
    \/ Complete(e) \/ RollBack(e)

KernelNext == \E e \in Execs : Step(e)

KernelSpec == KernelInit /\ [][KernelNext]_kernelVars

-----------------------------------------------------------------------------
(* Properties. *)

\* Shapes of the kernel's state; no amount is ever negative.
KernelTypeOK ==
    /\ status \in [Execs -> Status]
    /\ result \in [Execs -> {"running", "completed", "rolledBack", "rejected", "error"}]
    /\ pool \in [Kinds -> Nat]
    /\ account \in [reserved : Nat, consumed : Nat]
    /\ \A i \in DOMAIN ledger : ledger[i].out \in Execs
    /\ held \subseteq Execs /\ charged \subseteq Execs

\* The resource pool is exactly what the calls that are still running hold, and
\* never above its limit: every one of execute's exits, the `?` ones included,
\* drops the reservation once.
PoolIsHeld ==
    /\ \A k \in Kinds : /\ pool[k] = Total([e \in Execs |-> Need[e][k]], held)
                        /\ pool[k] <= Limit[k]
    /\ \A e \in held : result[e] = "running"

\* As long as no call has been charged more than one unit per step, a call that
\* has recorded its evidence finds its units on the tenant's account: neither
\* what the others consume nor what failed calls leave reserved takes them.  (A
\* routed model call costs two units for one: it takes its neighbours' units,
\* or fails after its steps were executed.)
UnitsAreThere ==
    (\A e \in charged : Cost[e] <= Units[e]) =>
        \A e \in Execs : /\ result[e] = "running" /\ status[e] = "RecordingEvidence"
                         /\ Cost[e] <= Units[e]
                         => account.reserved >= Cost[e]

\* Pool and account stay with the calls they were reserved for, over all of
\* execute's exits (resource.rs, kernel.rs).
KernelAccountsHeld == PoolIsHeld /\ UnitsAreThere

\* The evidence of a call that has returned a record, and whose execution_id no
\* other call has used, replays to the outputs in that record, whatever else
\* was appended in between (`replay_check`).
RecordReplays ==
    \A e \in Execs :
        /\ result[e] \in {"completed", "rolledBack"} /\ Evidence(ExecId[e]) # <<>>
        /\ \A i \in DOMAIN ledger : ledger[i].id = ExecId[e] => ledger[i].out = e
        => ReplayDigests(Evidence(ExecId[e])) = {RecordedOutputs(e)}
=============================================================================
