--------------------------- MODULE RuntimeBudget ---------------------------
(***************************************************************************)
(* RuntimeKernel::execute and its budget: concurrent calls precharge an     *)
(* account, run a provider or a tool, and settle or roll back.  The three   *)
(* budget operations run under budget_lock, but each is a sequence of       *)
(* separate store writes (account row, quota-window row, ledger entries),   *)
(* and a store error or the cancellation of the call (the swarm timeouts    *)
(* drop the future at whatever await it is at) may stop it between two.     *)
(*                                                                          *)
(* Amounts are micros.  The ledger is append-only and is only ever read by  *)
(* the fold of reconcile_budget_account, so it is kept as the three sums    *)
(* that fold computes.  blocked_count, timestamps, events, hooks' payloads  *)
(* and the cost attribution are left out: nothing here reads them.  The     *)
(* model is of budget_enforced = true; otherwise no budget state exists.    *)
(***************************************************************************)
EXTENDS Integers, FiniteSets

CONSTANTS
    Calls,          \* invocations of execute, each made once
    Accounts,       \* tenant:principal:policy
    Sessions,
    AccountOf,      \* the account a call is charged to
    SessionOf,      \* the session a call belongs to
    KindOf,         \* "provider" or "tool" (mcp tools included)
    Estimate,       \* estimate_precharge_micros of a call
    MaxEstimate,    \* a bound on the estimates (they are u64)
    Costs,          \* what cost_breakdown may say a call cost
    TotalBudget,    \* default_budget_micros
    WindowBudget,   \* quota_window_budget_micros
    ParallelLimit,  \* max_parallel_tool_window()
    Shadow,         \* gate_mode = Shadow: the precharge check is bypassed
    Faults,         \* store errors inside an operation and cancellations happen
    LastWindow,     \* bound on the quota windows time passes through
    NoCall

ASSUME ConstantsAssumption ==
    /\ IsFiniteSet(Calls) /\ NoCall \notin Calls
    /\ AccountOf \in [Calls -> Accounts]
    /\ SessionOf \in [Calls -> Sessions]
    /\ KindOf \in [Calls -> {"provider", "tool"}]
    /\ MaxEstimate \in Nat /\ Estimate \in [Calls -> 1..MaxEstimate]
    /\ Costs \subseteq Nat \ {0}
    /\ TotalBudget \in Nat /\ WindowBudget \in Nat /\ LastWindow \in Nat
    /\ ParallelLimit \in Nat \ {0}
    /\ Shadow \in BOOLEAN /\ Faults \in BOOLEAN

VARIABLES
    pc,        \* where each call is in execute
    op,        \* the budget operation a call is in
    cost,      \* what a call being settled cost
    started,   \* reservation.started_at_ms, as its quota window
    lock,      \* holder of budget_lock, or NoCall
    account,   \* BudgetAccount rows: reserved_micros, spent_micros
    quota,     \* QuotaWindow rows: consumed_micros
    ledger,    \* per account the sums of the Reserve, Settle and Refund entries
    clock,     \* the current quota window
    active,    \* parallel_tool_windows: tool calls per session
    guards,    \* calls that own a ParallelToolWindowGuard
    (* history, read by no action *)
    held,      \* calls whose reservation is in their account's reserved_micros
    torn,      \* accounts on which a budget operation stopped half-way
    overrun    \* per account, by how much settled costs exceeded reservations

budgetVars == <<account, quota, ledger, held, torn, overrun>>
vars == <<pc, op, cost, started, lock, clock, active, guards, budgetVars>>

Windows == 0..LastWindow

\* u64::saturating_sub
SatSub(x, y) == IF x >= y THEN x - y ELSE 0

Excess(x, y) == SatSub(x, y)

Points == {"start", "precharge", "quota", "ledger", "refund", "admitted",
           "responded", "guarding", "ran", "closing", "ended"}

Init ==
    /\ pc = [c \in Calls |-> "start"]
    /\ op = [c \in Calls |-> "none"]
    /\ cost = [c \in Calls |-> 0]
    /\ started = [c \in Calls |-> 0]
    /\ lock = NoCall
    /\ account = [a \in Accounts |-> [reserved |-> 0, spent |-> 0]]
    /\ quota = [a \in Accounts |-> [w \in Windows |-> 0]]
    /\ ledger = [a \in Accounts |-> [reserve |-> 0, settle |-> 0, refund |-> 0]]
    /\ clock = 0
    /\ active = [s \in Sessions |-> 0]
    /\ guards = {}
    /\ held = {}
    /\ torn = {}
    /\ overrun = [a \in Accounts |-> 0]

-----------------------------------------------------------------------------
(* Leaving execute *)

\* Drop for ParallelToolWindowGuard, when the call owns one.
DropGuard(c) ==
    IF c \in guards
    THEN /\ guards' = guards \ {c}
         /\ active' = [active EXCEPT ![SessionOf[c]] = SatSub(@, 1)]
    ELSE UNCHANGED <<guards, active>>

\* A return out of execute that touches no budget state.
Leave(c) ==
    /\ pc' = [pc EXCEPT ![c] = "ended"]
    /\ DropGuard(c)
    /\ UNCHANGED <<op, cost, started, lock, clock, budgetVars>>

\* Identity errors, the hard gate, the degrade profile's refusals and
\* unreadable provider messages all return before the precharge.
RefuseEarly(c) == pc[c] = "start" /\ Leave(c)

PassGates(c) ==
    /\ pc[c] = "start"
    /\ pc' = [pc EXCEPT ![c] = "precharge"]
    /\ UNCHANGED <<op, cost, started, lock, clock, active, guards, budgetVars>>

-----------------------------------------------------------------------------
(* The budget operations, one store write per step, under budget_lock *)

\* Mutated form: open reservations are not counted.
AccountRemainingSpentOnly(a) == SatSub(TotalBudget, account[a].spent)

AccountRemaining(a) == SatSub(TotalBudget, account[a].spent + account[a].reserved)

WindowRemaining(a, w) == SatSub(WindowBudget, quota[a][w])

\* precharge_budget: the estimate does not fit the account or the window.
OverBudget(c) ==
    /\ ~Shadow
    /\ \/ Estimate[c] > AccountRemaining(AccountOf[c])
       \/ Estimate[c] > WindowRemaining(AccountOf[c], clock)

\* precharge_budget bails with "budget precharge exceeded".
PrechargeBlocked(c) ==
    /\ pc[c] = "precharge" /\ lock = NoCall
    /\ OverBudget(c)
    /\ Leave(c)

\* Take the lock, read both rows, write the account row.
BeginReserve(c) ==
    LET a == AccountOf[c] IN
    /\ pc[c] = "precharge" /\ lock = NoCall
    /\ ~OverBudget(c)
    /\ lock' = c
    /\ account' = [account EXCEPT ![a].reserved = @ + Estimate[c]]
    /\ held' = held \cup {c}
    /\ started' = [started EXCEPT ![c] = clock]
    /\ op' = [op EXCEPT ![c] = "reserve"]
    /\ pc' = [pc EXCEPT ![c] = "quota"]
    /\ UNCHANGED <<cost, clock, active, guards, quota, ledger, torn, overrun>>

\* Mutated form: only what was spent is taken off the reservation.
BeginSettleByCost(c, x) ==
    LET a == AccountOf[c] IN
    /\ lock = NoCall /\ lock' = c
    /\ account' = [account EXCEPT ![a].reserved = SatSub(@, x), ![a].spent = @ + x]
    /\ held' = held \ {c}
    /\ cost' = [cost EXCEPT ![c] = x]
    /\ overrun' = [overrun EXCEPT ![a] = @ + Excess(x, Estimate[c])]
    /\ op' = [op EXCEPT ![c] = "settle"]
    /\ pc' = [pc EXCEPT ![c] = "quota"]
    /\ UNCHANGED <<started, clock, active, guards, quota, ledger, torn>>

\* settle_budget up to its account write; x is the cost_breakdown's total.
BeginSettle(c, x) ==
    LET a == AccountOf[c] IN
    /\ lock = NoCall /\ lock' = c
    /\ account' = [account EXCEPT ![a].reserved = SatSub(@, Estimate[c]),
                                  ![a].spent = @ + x]
    /\ held' = held \ {c}
    /\ cost' = [cost EXCEPT ![c] = x]
    /\ overrun' = [overrun EXCEPT ![a] = @ + Excess(x, Estimate[c])]
    /\ op' = [op EXCEPT ![c] = "settle"]
    /\ pc' = [pc EXCEPT ![c] = "quota"]
    /\ UNCHANGED <<started, clock, active, guards, quota, ledger, torn>>

\* rollback_budget up to its account write.
BeginRollback(c) ==
    LET a == AccountOf[c] IN
    /\ lock = NoCall /\ lock' = c
    /\ account' = [account EXCEPT ![a].reserved = SatSub(@, Estimate[c])]
    /\ held' = held \ {c}
    /\ op' = [op EXCEPT ![c] = "rollback"]
    /\ pc' = [pc EXCEPT ![c] = "quota"]
    /\ UNCHANGED <<cost, started, clock, active, guards, quota, ledger, torn, overrun>>

\* The consumed_micros each operation writes to the window of the reservation.
Consumed(c, old) ==
    CASE op[c] = "reserve"  -> old + Estimate[c]
      [] op[c] = "settle"   -> SatSub(old, Estimate[c]) + cost[c]
      [] op[c] = "rollback" -> SatSub(old, Estimate[c])

\* Mutated form: the current window is charged, not the reservation's.
WriteQuotaNow(c) ==
    /\ pc[c] = "quota"
    /\ quota' = [quota EXCEPT ![AccountOf[c]][clock] = Consumed(c, @)]
    /\ pc' = [pc EXCEPT ![c] = "ledger"]
    /\ UNCHANGED <<op, cost, started, lock, clock, active, guards, account, ledger,
                   held, torn, overrun>>

WriteQuota(c) ==
    /\ pc[c] = "quota"
    /\ quota' = [quota EXCEPT ![AccountOf[c]][started[c]] = Consumed(c, @)]
    /\ pc' = [pc EXCEPT ![c] = "ledger"]
    /\ UNCHANGED <<op, cost, started, lock, clock, active, guards, account, ledger,
                   held, torn, overrun>>

\* The Reserve, Settle or rollback Refund entry; a settled call whose cost is
\* below its reservation has one more entry to append.
WriteLedger(c) ==
    LET a == AccountOf[c]
        refund == op[c] = "settle" /\ Estimate[c] > cost[c]
    IN
    /\ pc[c] = "ledger"
    /\ \/ /\ op[c] = "reserve"
          /\ ledger' = [ledger EXCEPT ![a].reserve = @ + Estimate[c]]
          /\ pc' = [pc EXCEPT ![c] = "admitted"]
       \/ /\ op[c] = "settle"
          /\ ledger' = [ledger EXCEPT ![a].settle = @ + cost[c]]
          /\ pc' = [pc EXCEPT ![c] = IF refund THEN "refund" ELSE "closing"]
       \/ /\ op[c] = "rollback"
          /\ ledger' = [ledger EXCEPT ![a].refund = @ + Estimate[c]]
          /\ pc' = [pc EXCEPT ![c] = "closing"]
    /\ lock' = IF refund THEN c ELSE NoCall
    /\ op' = [op EXCEPT ![c] = IF refund THEN "settle" ELSE "none"]
    /\ UNCHANGED <<cost, started, clock, active, guards, account, quota,
                   held, torn, overrun>>

\* Mutated form: the refund entry is left out.
WriteRefundNothing(c) ==
    /\ pc[c] = "refund"
    /\ lock' = NoCall
    /\ op' = [op EXCEPT ![c] = "none"]
    /\ pc' = [pc EXCEPT ![c] = "closing"]
    /\ UNCHANGED <<cost, started, clock, active, guards, account, quota, ledger,
                   held, torn, overrun>>

WriteRefund(c) ==
    /\ pc[c] = "refund"
    /\ ledger' = [ledger EXCEPT ![AccountOf[c]].refund = @ + Estimate[c] - cost[c]]
    /\ lock' = NoCall
    /\ op' = [op EXCEPT ![c] = "none"]
    /\ pc' = [pc EXCEPT ![c] = "closing"]
    /\ UNCHANGED <<cost, started, clock, active, guards, account, quota,
                   held, torn, overrun>>

\* Mutated form: the lock is not released.
OperationStopsLocked(c) ==
    /\ Faults /\ pc[c] \in {"quota", "ledger", "refund"}
    /\ torn' = torn \cup {AccountOf[c]}
    /\ op' = [op EXCEPT ![c] = "none"]
    /\ pc' = [pc EXCEPT ![c] = "ended"]
    /\ DropGuard(c)
    /\ UNCHANGED <<cost, started, lock, clock, account, quota, ledger, held, overrun>>

\* A write fails (`?`) or the call is cancelled inside the operation: the lock
\* guard is dropped and what was written stays.
OperationStops(c) ==
    /\ Faults /\ pc[c] \in {"quota", "ledger", "refund"}
    /\ torn' = torn \cup {AccountOf[c]}
    /\ lock' = NoCall
    /\ op' = [op EXCEPT ![c] = "none"]
    /\ pc' = [pc EXCEPT ![c] = "ended"]
    /\ DropGuard(c)
    /\ UNCHANGED <<cost, started, clock, account, quota, ledger, held, overrun>>

-----------------------------------------------------------------------------
(* The provider path *)

Admitted(c, kind) == pc[c] = "admitted" /\ KindOf[c] = kind

\* The PreToolUse or PostToolUse prompt hook denies: an early return.
PromptHookDenies(c) == Admitted(c, "provider") /\ Leave(c)

\* Too many tokens even after compaction: roll back, then bail.
TokensExceeded(c) == Admitted(c, "provider") /\ BeginRollback(c)

\* chat_with_trace fails: degrade to ProviderFallback, roll back, answer with
\* the fallback response.
ProviderFails(c) == Admitted(c, "provider") /\ BeginRollback(c)

ProviderResponds(c) ==
    /\ Admitted(c, "provider")
    /\ pc' = [pc EXCEPT ![c] = "responded"]
    /\ UNCHANGED <<op, cost, started, lock, clock, active, guards, budgetVars>>

\* The Stream, Timeout or OnResult hook denies the response: an early return.
ResponseHookDenies(c) == pc[c] = "responded" /\ Leave(c)

SettleProvider(c) == pc[c] = "responded" /\ \E x \in Costs : BeginSettle(c, x)

-----------------------------------------------------------------------------
(* The tool path *)

\* Mutated form: the count before the call is compared with the limit.
EnterWindowLate(c) ==
    LET s == SessionOf[c] IN
    /\ Admitted(c, "tool")
    /\ active[s] <= ParallelLimit
    /\ active' = [active EXCEPT ![s] = @ + 1]
    /\ guards' = guards \cup {c}
    /\ pc' = [pc EXCEPT ![c] = "guarding"]
    /\ UNCHANGED <<op, cost, started, lock, clock, budgetVars>>

\* try_enter_parallel_tool_window
EnterWindow(c) ==
    LET s == SessionOf[c] IN
    /\ Admitted(c, "tool")
    /\ active[s] + 1 <= ParallelLimit
    /\ active' = [active EXCEPT ![s] = @ + 1]
    /\ guards' = guards \cup {c}
    /\ pc' = [pc EXCEPT ![c] = "guarding"]
    /\ UNCHANGED <<op, cost, started, lock, clock, budgetVars>>

\* The window is full: count up, count down again, return Blocked.
WindowFull(c) ==
    /\ Admitted(c, "tool")
    /\ active[SessionOf[c]] + 1 > ParallelLimit
    /\ Leave(c)

\* extract_tool_arguments or guard_tool_execution_with_state fails with `?`.
GuardErrors(c) == pc[c] = "guarding" /\ Leave(c)

\* The guard, a hook, the approval requirement or the trusted preflight leaves
\* a decision other than Allow: nothing runs and the reservation is rolled back.
GuardRefuses(c) == pc[c] = "guarding" /\ BeginRollback(c)

\* The step hook, the tool itself or the stream hook fails.
ToolFails(c) == pc[c] = "guarding" /\ BeginRollback(c)

ToolRuns(c) ==
    /\ pc[c] = "guarding"
    /\ pc' = [pc EXCEPT ![c] = "ran"]
    /\ UNCHANGED <<op, cost, started, lock, clock, active, guards, budgetVars>>

\* The Timeout or OnResult hook turns the decision into Blocked.
ResultHookDenies(c) == pc[c] = "ran" /\ BeginRollback(c)

SettleTool(c) == pc[c] = "ran" /\ \E x \in Costs : BeginSettle(c, x)

-----------------------------------------------------------------------------

\* Events and the replay snapshot are written; execute returns.
Return(c) == pc[c] = "closing" /\ Leave(c)

\* The future is dropped at an await outside the budget operations, or an
\* operation fails before its first write.
Cancel(c) ==
    /\ Faults
    /\ pc[c] \in {"precharge", "admitted", "responded", "guarding", "ran", "closing"}
    /\ Leave(c)

Tick ==
    /\ clock < LastWindow
    /\ clock' = clock + 1
    /\ UNCHANGED <<pc, op, cost, started, lock, active, guards, budgetVars>>

Done ==
    /\ \A c \in Calls : pc[c] = "ended"
    /\ UNCHANGED vars

BudgetStep(c) ==
    \/ PrechargeBlocked(c) \/ BeginReserve(c)
    \/ WriteQuota(c) \/ WriteLedger(c) \/ WriteRefund(c)

ProviderStep(c) ==
    \/ PromptHookDenies(c) \/ TokensExceeded(c) \/ ProviderFails(c)
    \/ ProviderResponds(c) \/ ResponseHookDenies(c) \/ SettleProvider(c)

ToolStep(c) ==
    \/ EnterWindow(c) \/ WindowFull(c) \/ GuardErrors(c) \/ GuardRefuses(c)
    \/ ToolFails(c) \/ ToolRuns(c) \/ ResultHookDenies(c) \/ SettleTool(c)

\* What execute does by itself, as long as it is polled.
CallStep(c) ==
    \/ RefuseEarly(c) \/ PassGates(c) \/ Return(c)
    \/ BudgetStep(c) \/ ProviderStep(c) \/ ToolStep(c)

Next ==
    \/ \E c \in Calls : CallStep(c) \/ OperationStops(c) \/ Cancel(c)
    \/ Tick
    \/ Done

Spec == Init /\ [][Next]_vars

\* Every future is polled until it completes or is dropped; providers and tools
\* answer or time out.  Faults and the passing of time are never forced.
FairSpec == Spec /\ \A c \in Calls : WF_vars(CallStep(c))

-----------------------------------------------------------------------------
(* Properties *)

\* Every variable has the type its Rust counterpart has; sums never go negative.
TypeOK ==
    /\ pc \in [Calls -> Points]
    /\ op \in [Calls -> {"none", "reserve", "settle", "rollback"}]
    /\ cost \in [Calls -> Nat]
    /\ started \in [Calls -> Windows]
    /\ lock \in Calls \cup {NoCall}
    /\ account \in [Accounts -> [reserved : Nat, spent : Nat]]
    /\ quota \in [Accounts -> [Windows -> Nat]]
    /\ ledger \in [Accounts -> [reserve : Nat, settle : Nat, refund : Nat]]
    /\ clock \in Windows
    /\ active \in [Sessions -> Nat]
    /\ guards \subseteq Calls
    /\ held \subseteq Calls
    /\ torn \subseteq Accounts
    /\ overrun \in [Accounts -> Nat]

\* The micros a set of calls has reserved: each reservation is that many units.
Units(S) == {u \in S \X (1..MaxEstimate) : u[2] <= Estimate[u[1]]}

Committed(S) == Cardinality(Units(S))

HeldBy(a) == {c \in held : AccountOf[c] = a}

\* reserved_micros is exactly the sum of the reservations of the calls that have
\* neither settled nor rolled back, whatever interleaving, error or cancellation
\* came before; so the saturating_sub of settle_budget and rollback_budget never
\* saturates and never eats another call's reservation.
ReservedIsHeld == \A a \in Accounts : account[a].reserved = Committed(HeldBy(a))

\* precharge_budget keeps the account within total_budget_micros: what is spent
\* and what is reserved exceed it by no more than costs that overran their own
\* reservation.  (Not in shadow mode, which bypasses the check.)
BudgetRespected ==
    ~Shadow => \A a \in Accounts :
        account[a].spent + account[a].reserved <= TotalBudget + overrun[a]

\* An account row is exact and within its budget: what precharge_budget reads
\* under budget_lock is all that is committed, so that calls at the same time,
\* each let through by itself, do not spend the same micros together.
AccountHeld == ReservedIsHeld /\ BudgetRespected

\* The same for every quota window.
QuotaRespected ==
    ~Shadow => \A a \in Accounts, w \in Windows :
        quota[a][w] <= WindowBudget + overrun[a]

\* Running calls whose reservation the quota row of window w must contain.
CountedIn(a, w) ==
    {c \in Calls :
        /\ AccountOf[c] = a /\ started[c] = w
        /\ \/ pc[c] \in {"admitted", "responded", "guarding", "ran"}
           \/ pc[c] = "ledger" /\ op[c] = "reserve"
           \/ pc[c] = "quota" /\ op[c] \in {"settle", "rollback"}}

\* A quota window always contains the reservations of the calls that were
\* admitted in it and still run, also of those that settle or roll back after
\* the window has passed, and whatever was cut short before: the saturating_sub
\* on consumed_micros never saturates.
QuotaCoversRunning ==
    \A a \in Accounts, w \in Windows : quota[a][w] >= Committed(CountedIn(a, w))

\* A quota row is between what its running calls reserved and the window's budget
\* (precharge_budget, settle_budget, rollback_budget_reserve).
QuotaHeld == QuotaRespected /\ QuotaCoversRunning

\* What reconcile_budget_account computes from the ledger.
LedgerOpen(a) == ledger[a].reserve - ledger[a].settle - ledger[a].refund

Quiet(a) == lock = NoCall \/ AccountOf[lock] # a

\* Ledger and account tell the same story whenever no operation is in progress
\* on the account and none was cut short: the settled sum is spent_micros, and
\* the open sum is reserved_micros less the overruns that no entry records.
LedgerReconciles ==
    \A a \in Accounts \ torn : Quiet(a) =>
        /\ ledger[a].settle = account[a].spent
        /\ LedgerOpen(a) + overrun[a] = account[a].reserved

\* parallel_tool_windows counts exactly the calls that own a guard, never more
\* than the limit, and a call that has left execute owns none: every return,
\* error and cancellation drops it.
ParallelWithinLimit ==
    /\ \A s \in Sessions :
        /\ active[s] = Cardinality({c \in guards : SessionOf[c] = s})
        /\ active[s] <= ParallelLimit
    /\ \A c \in guards : pc[c] # "ended"

\* Every call of execute comes to an end, also when an operation of another
\* call stopped while it held budget_lock.
EveryCallEnds == \A c \in Calls : <>(pc[c] = "ended")

\* The budget is what BudgetAccount promises: with operations of several writes that
\* overlap, fail and are cancelled, every reservation still fits beside all that are
\* open and all that was spent, no call reserves twice, and none is charged without a
\* reservation, twice, or after it was rolled back.
Promised == INSTANCE BudgetAccount WITH
    fresh <- {c \in Calls : pc[c] \in {"start", "precharge"}},
    open <- held,
    spent <- [a \in Accounts |-> account[a].spent]
KeepsBudgetPromise == Promised!AccountSpec

\* reconcile_budget_account's `consistent`.
Consistent(a) ==
    /\ ledger[a].settle = account[a].spent
    /\ LedgerOpen(a) = account[a].reserved

\* tests/p8_budget_ledger_sovereignty.rs, p8_concurrent_charging_is_consistent:
\* after concurrent calls, "ledger and account should match".
LedgerAndAccountMatch ==
    (\A c \in Calls : pc[c] = "ended") => \A a \in Accounts : Consistent(a)

\* tests/p8_budget_ledger_sovereignty.rs, p8_rollback_compensation_restores_reserve:
\* a call that did not run to the end leaves account_reserved_micros at 0.
ReserveRestored ==
    (\A c \in Calls : pc[c] = "ended") => \A a \in Accounts : account[a].reserved = 0
=============================================================================
