------------------------ MODULE RuntimeBudgetProofs ------------------------
(***************************************************************************)
(* TLAPS proofs about RuntimeBudget, for any finite number of calls,        *)
(* accounts, sessions, estimates, costs and limits, with faults.            *)
(***************************************************************************)
EXTENDS RuntimeBudget, FiniteSetTheorems, TLAPS

\* Where a call is admitted and has not begun to settle or roll back.
Running == {"admitted", "responded", "guarding", "ran"}

\* Where a call is inside a budget operation, past its first write.
InOp == {"quota", "ledger", "refund"}

-----------------------------------------------------------------------------
(* The actions, sorted by what they do to the budget *)

\* A call goes on inside execute without touching the budget.
GoOn(c, q) ==
    /\ <<pc[c], q>> \in {<<"start", "precharge">>, <<"admitted", "responded">>,
                         <<"admitted", "guarding">>, <<"guarding", "ran">>}
    /\ pc' = [pc EXCEPT ![c] = q]
    /\ \/ q # "guarding" /\ UNCHANGED <<active, guards>>
       \/ /\ q = "guarding"
          /\ active[SessionOf[c]] + 1 <= ParallelLimit
          /\ active' = [active EXCEPT ![SessionOf[c]] = @ + 1]
          /\ guards' = guards \cup {c}
    /\ UNCHANGED <<op, cost, started, lock, clock, budgetVars>>

\* Every step of the specification is one of ten kinds.
LEMMA StepKinds ==
    ASSUME [Next]_vars
    PROVE  \/ \E c \in Calls : pc[c] \notin InOp \cup {"ended"} /\ Leave(c)
           \/ \E c \in Calls : \E q \in Points : GoOn(c, q)
           \/ \E c \in Calls : BeginReserve(c)
           \/ \E c \in Calls : \E x \in Costs : pc[c] \in Running /\ BeginSettle(c, x)
           \/ \E c \in Calls : pc[c] \in Running /\ BeginRollback(c)
           \/ \E c \in Calls : WriteQuota(c)
           \/ \E c \in Calls : WriteLedger(c)
           \/ \E c \in Calls : WriteRefund(c)
           \/ \E c \in Calls : OperationStops(c)
           \/ Tick
           \/ UNCHANGED vars
  <1>1. CASE \E c \in Calls : RefuseEarly(c) \/ PrechargeBlocked(c) \/ PromptHookDenies(c)
                \/ ResponseHookDenies(c) \/ WindowFull(c) \/ GuardErrors(c) \/ Return(c)
                \/ Cancel(c)
    BY <1>1 DEF RefuseEarly, PrechargeBlocked, PromptHookDenies, Admitted, InOp,
                ResponseHookDenies, WindowFull, GuardErrors, Return, Cancel
  <1>2. CASE \E c \in Calls : PassGates(c) \/ ProviderResponds(c) \/ ToolRuns(c)
    BY <1>2 DEF PassGates, ProviderResponds, ToolRuns, GoOn, Admitted, Points
  <1>3. CASE \E c \in Calls : EnterWindow(c)
    BY <1>3 DEF EnterWindow, GoOn, Admitted, Points
  <1>4. CASE \E c \in Calls : SettleProvider(c) \/ SettleTool(c)
    BY <1>4 DEF SettleProvider, SettleTool, Running
  <1>5. CASE \E c \in Calls : TokensExceeded(c) \/ ProviderFails(c) \/ GuardRefuses(c)
                \/ ToolFails(c) \/ ResultHookDenies(c)
    BY <1>5 DEF TokensExceeded, ProviderFails, GuardRefuses, ToolFails,
                ResultHookDenies, Admitted, Running
  <1> QED
    BY <1>1, <1>2, <1>3, <1>4, <1>5
    DEF Next, CallStep, BudgetStep, ProviderStep, ToolStep, Done

-----------------------------------------------------------------------------
(* Sums of reservations *)

\* Disjoint finite sets add up.
LEMMA DisjointCardinality ==
    ASSUME NEW A, NEW B, IsFiniteSet(A), IsFiniteSet(B), A \cap B = {}
    PROVE  Cardinality(A \cup B) = Cardinality(A) + Cardinality(B)
  <1>1. Cardinality(A \cup B) = Cardinality(A) + Cardinality(B) - Cardinality(A \cap B)
    BY FS_Union
  <1>2. Cardinality(A \cap B) = 0
    BY FS_EmptySet
  <1>3. Cardinality(A) \in Nat /\ Cardinality(B) \in Nat
    BY FS_CardinalityType
  <1> QED
    BY <1>1, <1>2, <1>3

\* The units of a set of calls are finitely many.
LEMMA UnitsFinite ==
    ASSUME NEW S \in SUBSET Calls
    PROVE  IsFiniteSet(Units(S)) /\ Committed(S) \in Nat
  <1>1. IsFiniteSet(S)
    BY FS_Subset, ConstantsAssumption
  <1>2. IsFiniteSet(1..MaxEstimate)
    BY FS_Interval, ConstantsAssumption
  <1>3. IsFiniteSet(S \X (1..MaxEstimate))
    BY <1>1, <1>2, FS_Product
  <1>4. Units(S) \in SUBSET (S \X (1..MaxEstimate))
    BY DEF Units
  <1>5. IsFiniteSet(Units(S))
    BY <1>3, <1>4, FS_Subset
  <1> QED
    BY <1>5, FS_CardinalityType DEF Committed

\* One call's reservation is as many units as its estimate.
LEMMA CommittedOne ==
    ASSUME NEW c \in Calls
    PROVE  Committed({c}) = Estimate[c]
  <1>1. Estimate[c] \in 1..MaxEstimate /\ MaxEstimate \in Nat
    BY ConstantsAssumption
  <1>2. Units({c}) = {c} \X (1..Estimate[c])
    <2>1. ASSUME NEW u \in Units({c}) PROVE u \in {c} \X (1..Estimate[c])
      BY <1>1 DEF Units
    <2>2. ASSUME NEW k \in 1..Estimate[c] PROVE <<c, k>> \in Units({c})
      BY <1>1 DEF Units
    <2>3. ASSUME NEW u \in {c} \X (1..Estimate[c])
          PROVE  u = <<c, u[2]>> /\ u[2] \in 1..Estimate[c]
      OBVIOUS
    <2> QED
      BY <2>1, <2>2, <2>3
  <1>3. IsFiniteSet(1..Estimate[c]) /\ Cardinality(1..Estimate[c]) = Estimate[c]
    BY <1>1, FS_Interval
  <1>4. IsFiniteSet({c}) /\ Cardinality({c}) = 1
    BY FS_Singleton
  <1>5. Cardinality({c} \X (1..Estimate[c])) = Cardinality({c}) * Cardinality(1..Estimate[c])
    BY <1>3, <1>4, FS_Product
  <1>6. Cardinality({c}) * Cardinality(1..Estimate[c]) = 1 * Estimate[c]
    BY <1>3, <1>4
  <1>7. 1 * Estimate[c] = Estimate[c]
    BY <1>1
  <1> QED
    BY <1>2, <1>5, <1>6, <1>7 DEF Committed

\* Reservations of disjoint sets of calls add up.
LEMMA CommittedAdd ==
    ASSUME NEW S \in SUBSET Calls, NEW c \in Calls, c \notin S
    PROVE  Committed(S \cup {c}) = Committed(S) + Estimate[c]
  <1>1. Units(S \cup {c}) = Units(S) \cup Units({c})
    <2>1. ASSUME NEW u \in (S \cup {c}) \X (1..MaxEstimate)
          PROVE  u \in S \X (1..MaxEstimate) \/ u \in {c} \X (1..MaxEstimate)
      OBVIOUS
    <2>2. ASSUME NEW u \in Units(S \cup {c}) PROVE u \in Units(S) \cup Units({c})
      <3>1. u \in (S \cup {c}) \X (1..MaxEstimate) /\ u[2] <= Estimate[u[1]]
        BY DEF Units
      <3>2. CASE u \in S \X (1..MaxEstimate)
        BY <3>1, <3>2 DEF Units
      <3>3. CASE u \in {c} \X (1..MaxEstimate)
        BY <3>1, <3>3 DEF Units
      <3> QED
        BY <2>1, <3>1, <3>2, <3>3
    <2>3. ASSUME NEW T \in SUBSET (S \cup {c}), NEW u \in Units(T)
          PROVE  u \in Units(S \cup {c})
      <3>1. u \in T \X (1..MaxEstimate) /\ u[2] <= Estimate[u[1]]
        BY DEF Units
      <3>2. u \in (S \cup {c}) \X (1..MaxEstimate)
        BY <3>1
      <3> QED
        BY <3>1, <3>2 DEF Units
    <2>4. Units(S \cup {c}) \subseteq Units(S) \cup Units({c})
      BY <2>2
    <2>5. Units(S) \subseteq Units(S \cup {c}) /\ Units({c}) \subseteq Units(S \cup {c})
      BY <2>3
    <2> QED
      BY <2>4, <2>5
  <1>2. Units(S) \cap Units({c}) = {}
    <2>1. ASSUME NEW u \in Units(S), u \in Units({c}) PROVE FALSE
      BY <2>1 DEF Units
    <2> QED
      BY <2>1
  <1>3. IsFiniteSet(Units(S)) /\ IsFiniteSet(Units({c}))
    BY UnitsFinite
  <1>4. Cardinality(Units(S) \cup Units({c}))
            = Cardinality(Units(S)) + Cardinality(Units({c}))
    BY <1>2, <1>3, DisjointCardinality
  <1>5. Cardinality(Units(S)) \in Nat /\ Cardinality(Units({c})) = Estimate[c]
    BY UnitsFinite, CommittedOne DEF Committed
  <1> QED
    BY <1>1, <1>4, <1>5 DEF Committed

\* Without one of its calls a set has reserved less by that call's estimate.
LEMMA CommittedRemove ==
    ASSUME NEW S \in SUBSET Calls, NEW c \in S
    PROVE  /\ Committed(S) = Committed(S \ {c}) + Estimate[c]
           /\ Committed(S) >= Estimate[c]
           /\ Committed(S \ {c}) \in Nat
  <1>1. (S \ {c}) \cup {c} = S
    OBVIOUS
  <1>2. Committed(S) = Committed(S \ {c}) + Estimate[c]
    BY <1>1, CommittedAdd
  <1> QED
    BY <1>2, UnitsFinite, ConstantsAssumption

-----------------------------------------------------------------------------
(* Control: who holds the lock, in which operation, with which reservation *)

\* The lock is held by the call that is in an operation, and by no other.
LockInv ==
    \A c \in Calls :
        /\ pc[c] \in InOp <=> lock = c
        /\ pc[c] \in InOp <=> op[c] # "none"
        /\ pc[c] = "refund" => op[c] = "settle" /\ cost[c] < Estimate[c]

\* A reservation is open while its call runs, and during the operation that made it.
HeldInv ==
    \A c \in Calls :
        /\ pc[c] \in Running => c \in held
        /\ pc[c] \in {"start", "precharge", "closing"} => c \notin held
        /\ pc[c] \in InOp => (c \in held <=> op[c] = "reserve")

\* Who is where, without the amounts: inductive by itself.
Control == TypeOK /\ LockInv /\ HeldInv

\* Nobody has begun.
LEMMA ControlInit == Init => Control
  <1> SUFFICES ASSUME Init PROVE Control
    OBVIOUS
  <1>1. 0 \in Windows
    BY ConstantsAssumption DEF Windows
  <1>2. /\ pc \in [Calls -> Points] /\ started \in [Calls -> Windows] /\ clock \in Windows
        /\ op \in [Calls -> {"none", "reserve", "settle", "rollback"}]
    BY <1>1 DEF Init, Points
  <1>3. /\ account \in [Accounts -> [reserved : Nat, spent : Nat]]
        /\ ledger \in [Accounts -> [reserve : Nat, settle : Nat, refund : Nat]]
        /\ quota \in [Accounts -> [Windows -> Nat]]
    BY DEF Init
  <1>4. /\ cost \in [Calls -> Nat] /\ active \in [Sessions -> Nat]
        /\ overrun \in [Accounts -> Nat]
    BY DEF Init
  <1>5. TypeOK
    BY <1>2, <1>3, <1>4 DEF Init, TypeOK
  <1>6. LockInv /\ HeldInv
    BY ConstantsAssumption DEF Init, LockInv, HeldInv, InOp, Running
  <1> QED
    BY <1>5, <1>6 DEF Control

\* Dropping a guard keeps the session counters natural numbers.
LEMMA DropGuardType ==
    ASSUME TypeOK, NEW c \in Calls, DropGuard(c)
    PROVE  active' \in [Sessions -> Nat] /\ guards' \subseteq Calls
  <1>1. CASE c \in guards
    <2>1. active \in [Sessions -> Nat] /\ SessionOf[c] \in Sessions
      BY ConstantsAssumption DEF TypeOK
    <2>2. active' = [active EXCEPT ![SessionOf[c]] = SatSub(@, 1)]
      BY <1>1 DEF DropGuard
    <2>3. guards' \subseteq Calls
      BY <1>1 DEF DropGuard, TypeOK
    <2> QED
      BY <2>1, <2>2, <2>3 DEF SatSub
  <1>2. CASE c \notin guards
    BY <1>2 DEF DropGuard, TypeOK
  <1> QED
    BY <1>1, <1>2

\* Every kind of step keeps lock, operations and reservations in line.
LEMMA ControlStep ==
    ASSUME Control, [Next]_vars
    PROVE  Control'
  <1> USE DEF Control
  <1>c. \A c \in Calls : /\ AccountOf[c] \in Accounts /\ SessionOf[c] \in Sessions
                        /\ Estimate[c] \in Nat
    BY ConstantsAssumption
  <1>d. Costs \subseteq Nat /\ NoCall \notin Calls /\ LastWindow \in Nat
    BY ConstantsAssumption
  <1>1. CASE \E c \in Calls : pc[c] \notin InOp \cup {"ended"} /\ Leave(c)
    <2> PICK c \in Calls : pc[c] \notin InOp \cup {"ended"} /\ Leave(c)
      BY <1>1
    <2>1. TypeOK'
      BY DropGuardType DEF Leave, TypeOK, budgetVars, Points
    <2>2. LockInv' /\ HeldInv'
      BY <1>d DEF Leave, LockInv, HeldInv, TypeOK, budgetVars, InOp, Running
    <2> QED BY <2>1, <2>2
  <1>2. CASE \E c \in Calls : \E q \in Points : GoOn(c, q)
    <2> PICK c \in Calls, q \in Points : GoOn(c, q)
      BY <1>2
    <2>1. TypeOK'
      <3>1. active' \in [Sessions -> Nat] /\ guards' \subseteq Calls
        <4>1. CASE UNCHANGED <<active, guards>>
          BY <4>1 DEF TypeOK
        <4>2. CASE active' = [active EXCEPT ![SessionOf[c]] = @ + 1] /\ guards' = guards \cup {c}
          BY <4>2, <1>c DEF TypeOK
        <4> QED BY <4>1, <4>2 DEF GoOn
      <3> QED
        BY <3>1 DEF GoOn, TypeOK, budgetVars
    <2>2. LockInv' /\ HeldInv'
      BY <1>d DEF GoOn, LockInv, HeldInv, TypeOK, budgetVars, InOp, Running
    <2> QED BY <2>1, <2>2
  <1>3. CASE \E c \in Calls : BeginReserve(c)
    <2> PICK c \in Calls : BeginReserve(c)
      BY <1>3
    <2>1. TypeOK'
      <3>1. account' \in [Accounts -> [reserved : Nat, spent : Nat]]
        <4>1. account \in [Accounts -> [reserved : Nat, spent : Nat]]
          BY DEF TypeOK
        <4>2. account' = [account EXCEPT ![AccountOf[c]].reserved = @ + Estimate[c]]
          BY DEF BeginReserve
        <4> QED BY <4>1, <4>2, <1>c
      <3> QED
        BY <3>1 DEF BeginReserve, TypeOK, Points
    <2>2. LockInv' /\ HeldInv'
      BY <1>d DEF BeginReserve, LockInv, HeldInv, TypeOK, InOp, Running
    <2> QED BY <2>1, <2>2
  <1>4. CASE \E c \in Calls : \E x \in Costs : pc[c] \in Running /\ BeginSettle(c, x)
    <2> PICK c \in Calls, x \in Costs : pc[c] \in Running /\ BeginSettle(c, x)
      BY <1>4
    <2>1. TypeOK'
      <3>1. account' \in [Accounts -> [reserved : Nat, spent : Nat]]
        BY <1>c, <1>d DEF BeginSettle, TypeOK, SatSub
      <3>2. overrun' \in [Accounts -> Nat]
        <4>1. overrun \in [Accounts -> Nat]
          BY DEF TypeOK
        <4>2. overrun' = [overrun EXCEPT ![AccountOf[c]] = @ + Excess(x, Estimate[c])]
          BY DEF BeginSettle
        <4>3. Excess(x, Estimate[c]) \in Nat
          BY <1>c, <1>d DEF Excess, SatSub
        <4> QED BY <4>1, <4>2, <4>3, <1>c
      <3>3. x \in Nat
        BY <1>d
      <3>4. cost' \in [Calls -> Nat]
        BY <3>3 DEF BeginSettle, TypeOK
      <3> QED
        BY <3>1, <3>2, <3>4 DEF BeginSettle, TypeOK, Points
    <2>2. LockInv' /\ HeldInv'
      BY <1>d DEF BeginSettle, LockInv, HeldInv, TypeOK, InOp, Running
    <2> QED BY <2>1, <2>2
  <1>5. CASE \E c \in Calls : pc[c] \in Running /\ BeginRollback(c)
    <2> PICK c \in Calls : pc[c] \in Running /\ BeginRollback(c)
      BY <1>5
    <2>1. TypeOK'
      <3>1. account' \in [Accounts -> [reserved : Nat, spent : Nat]]
        <4>1. account \in [Accounts -> [reserved : Nat, spent : Nat]]
          BY DEF TypeOK
        <4>2. account' = [account EXCEPT ![AccountOf[c]].reserved = SatSub(@, Estimate[c])]
          BY DEF BeginRollback
        <4> QED BY <4>1, <4>2, <1>c DEF SatSub
      <3> QED
        BY <3>1 DEF BeginRollback, TypeOK, Points
    <2>2. LockInv' /\ HeldInv'
      BY <1>d DEF BeginRollback, LockInv, HeldInv, TypeOK, InOp, Running
    <2> QED BY <2>1, <2>2
  <1>6. CASE \E c \in Calls : WriteQuota(c)
    <2> PICK c \in Calls : WriteQuota(c)
      BY <1>6
    <2>1. \A n \in Nat : Consumed(c, n) \in Nat
      <3>1. op[c] \in {"reserve", "settle", "rollback"}
        BY <1>d DEF WriteQuota, LockInv, TypeOK, InOp
      <3> QED
        BY <3>1, <1>c, <1>d DEF Consumed, SatSub, TypeOK
    <2>2. TypeOK'
      <3>1. quota' \in [Accounts -> [Windows -> Nat]]
        BY <2>1, <1>c DEF WriteQuota, TypeOK
      <3> QED
        BY <3>1 DEF WriteQuota, TypeOK, Points
    <2>3. LockInv' /\ HeldInv'
      BY <1>d DEF WriteQuota, LockInv, HeldInv, TypeOK, InOp, Running
    <2> QED BY <2>2, <2>3
  <1>7. CASE \E c \in Calls : WriteLedger(c)
    <2> PICK c \in Calls : WriteLedger(c)
      BY <1>7
    <2>1. TypeOK'
      <3>1. ledger' \in [Accounts -> [reserve : Nat, settle : Nat, refund : Nat]]
        <4>1. ledger \in [Accounts -> [reserve : Nat, settle : Nat, refund : Nat]]
          BY DEF TypeOK
        <4>2. cost[c] \in Nat
          BY DEF TypeOK
        <4>3. \/ ledger' = [ledger EXCEPT ![AccountOf[c]].reserve = @ + Estimate[c]]
              \/ ledger' = [ledger EXCEPT ![AccountOf[c]].settle = @ + cost[c]]
              \/ ledger' = [ledger EXCEPT ![AccountOf[c]].refund = @ + Estimate[c]]
          BY DEF WriteLedger
        <4> QED BY <4>1, <4>2, <4>3, <1>c
      <3>2. pc' \in [Calls -> Points] /\ lock' \in Calls \cup {NoCall}
        BY DEF WriteLedger, TypeOK, Points
      <3> QED
        BY <3>1, <3>2 DEF WriteLedger, TypeOK
    <2>2. LockInv' /\ HeldInv'
      BY <1>d DEF WriteLedger, LockInv, HeldInv, TypeOK, InOp, Running
    <2> QED BY <2>1, <2>2
  <1>8. CASE \E c \in Calls : WriteRefund(c)
    <2> PICK c \in Calls : WriteRefund(c)
      BY <1>8
    <2>1. TypeOK'
      <3>1. cost[c] \in Nat /\ cost[c] < Estimate[c]
        BY <1>d DEF TypeOK, LockInv, WriteRefund
      <3>2. ledger' \in [Accounts -> [reserve : Nat, settle : Nat, refund : Nat]]
        BY <3>1, <1>c DEF WriteRefund, TypeOK
      <3> QED
        BY <3>2 DEF WriteRefund, TypeOK, Points
    <2>2. LockInv' /\ HeldInv'
      BY <1>d DEF WriteRefund, LockInv, HeldInv, TypeOK, InOp, Running
    <2> QED BY <2>1, <2>2
  <1>9. CASE \E c \in Calls : OperationStops(c)
    <2> PICK c \in Calls : OperationStops(c)
      BY <1>9
    <2>1. TypeOK'
      BY <1>c, DropGuardType DEF OperationStops, TypeOK, Points
    <2>2. LockInv' /\ HeldInv'
      BY <1>d DEF OperationStops, LockInv, HeldInv, TypeOK, InOp, Running
    <2> QED BY <2>1, <2>2
  <1>10. CASE Tick
    BY <1>10, <1>d DEF Tick, TypeOK, LockInv, HeldInv, budgetVars, Windows
  <1>11. CASE UNCHANGED vars
    BY <1>11 DEF vars, budgetVars, TypeOK, LockInv, HeldInv
  <1> QED
    BY <1>1, <1>2, <1>3, <1>4, <1>5, <1>6, <1>7, <1>8, <1>9, <1>10, <1>11, StepKinds

\* Control holds of every behaviour.
LEMMA ControlInvariant == Spec => []Control
  BY ControlInit, ControlStep, PTL DEF Spec

\* Type correctness, for any calls, accounts and limits.
THEOREM TypeInvariant == Spec => []TypeOK
  <1>1. Control => TypeOK
    BY DEF Control
  <1> QED
    BY <1>1, ControlInvariant, PTL

-----------------------------------------------------------------------------
(* What the operations do to the rows of an account *)

\* The account row and the overrun of every account, after the first write of
\* an operation.
LEMMA ReserveEffect ==
    ASSUME TypeOK, NEW c \in Calls, BeginReserve(c), NEW a \in Accounts
    PROVE  /\ a # AccountOf[c] => account'[a] = account[a]
           /\ a = AccountOf[c] =>
                /\ account'[a].reserved = account[a].reserved + Estimate[c]
                /\ account'[a].spent = account[a].spent
  <1>1. account \in [Accounts -> [reserved : Nat, spent : Nat]]
    BY DEF TypeOK
  <1>2. account' = [account EXCEPT ![AccountOf[c]].reserved = @ + Estimate[c]]
    BY DEF BeginReserve
  <1> QED
    BY <1>1, <1>2

\* The first write of settle_budget.
LEMMA SettleEffect ==
    ASSUME TypeOK, NEW c \in Calls, NEW x \in Costs, BeginSettle(c, x), NEW a \in Accounts
    PROVE  /\ a # AccountOf[c] => account'[a] = account[a] /\ overrun'[a] = overrun[a]
           /\ a = AccountOf[c] =>
                /\ account'[a].reserved = SatSub(account[a].reserved, Estimate[c])
                /\ account'[a].spent = account[a].spent + x
                /\ overrun'[a] = overrun[a] + Excess(x, Estimate[c])
  <1>1. account \in [Accounts -> [reserved : Nat, spent : Nat]] /\ overrun \in [Accounts -> Nat]
    BY DEF TypeOK
  <1>2. account' = [account EXCEPT ![AccountOf[c]].reserved = SatSub(@, Estimate[c]),
                                   ![AccountOf[c]].spent = @ + x]
    BY DEF BeginSettle
  <1>3. overrun' = [overrun EXCEPT ![AccountOf[c]] = @ + Excess(x, Estimate[c])]
    BY DEF BeginSettle
  <1>4. a # AccountOf[c] => account'[a] = account[a] /\ overrun'[a] = overrun[a]
    BY <1>1, <1>2, <1>3
  <1>5. a = AccountOf[c] =>
          /\ account'[a].reserved = SatSub(account[a].reserved, Estimate[c])
          /\ account'[a].spent = account[a].spent + x
    BY <1>1, <1>2
  <1>6. a = AccountOf[c] => overrun'[a] = overrun[a] + Excess(x, Estimate[c])
    BY <1>1, <1>3
  <1> QED
    BY <1>4, <1>5, <1>6

\* The first write of rollback_budget.
LEMMA RollbackEffect ==
    ASSUME TypeOK, NEW c \in Calls, BeginRollback(c), NEW a \in Accounts
    PROVE  /\ a # AccountOf[c] => account'[a] = account[a]
           /\ a = AccountOf[c] =>
                /\ account'[a].reserved = SatSub(account[a].reserved, Estimate[c])
                /\ account'[a].spent = account[a].spent
  <1>1. account \in [Accounts -> [reserved : Nat, spent : Nat]]
    BY DEF TypeOK
  <1>2. account' = [account EXCEPT ![AccountOf[c]].reserved = SatSub(@, Estimate[c])]
    BY DEF BeginRollback
  <1> QED
    BY <1>1, <1>2

\* A running call's reservation is in its account: nothing saturates.
LEMMA NoSaturation ==
    ASSUME Control, ReservedIsHeld, NEW c \in Calls, c \in held
    PROVE  /\ account[AccountOf[c]].reserved >= Estimate[c]
           /\ account[AccountOf[c]].reserved
                = Committed(HeldBy(AccountOf[c]) \ {c}) + Estimate[c]
           /\ Committed(HeldBy(AccountOf[c]) \ {c}) \in Nat
  <1>1. AccountOf[c] \in Accounts
    BY ConstantsAssumption
  <1>2. HeldBy(AccountOf[c]) \in SUBSET Calls /\ c \in HeldBy(AccountOf[c])
    BY DEF HeldBy, Control, TypeOK
  <1> QED
    BY <1>1, <1>2, CommittedRemove DEF ReservedIsHeld

\* Taking a held call's reservation off keeps ReservedIsHeld.
LEMMA Release ==
    ASSUME Control, ReservedIsHeld, NEW c \in Calls, c \in held, held' = held \ {c},
           \A a \in Accounts :
              /\ a # AccountOf[c] => account'[a] = account[a]
              /\ a = AccountOf[c] =>
                   account'[a].reserved = SatSub(account[a].reserved, Estimate[c])
    PROVE  ReservedIsHeld'
  <1> SUFFICES ASSUME NEW a \in Accounts
               PROVE  account'[a].reserved = Committed(HeldBy(a))'
    BY DEF ReservedIsHeld
  <1>0. Committed(HeldBy(a))' = Committed(HeldBy(a)')
    BY DEF Committed, Units
  <1>1. CASE a # AccountOf[c]
    <2>1. HeldBy(a)' = HeldBy(a)
      BY <1>1 DEF HeldBy
    <2> QED
      BY <1>0, <1>1, <2>1 DEF ReservedIsHeld
  <1>2. CASE a = AccountOf[c]
    <2>1. HeldBy(a)' = HeldBy(a) \ {c}
      BY <1>2 DEF HeldBy
    <2>2. Estimate[c] \in Nat
      BY ConstantsAssumption
    <2>3. SatSub(account[a].reserved, Estimate[c]) = Committed(HeldBy(a) \ {c})
      BY <1>2, <2>2, NoSaturation DEF SatSub
    <2> QED
      BY <1>0, <1>2, <2>1, <2>3
  <1> QED
    BY <1>1, <1>2

\* Every step keeps reserved_micros equal to the open reservations.
LEMMA ReservedStep ==
    ASSUME Control, ReservedIsHeld, [Next]_vars
    PROVE  ReservedIsHeld'
  <1>1. ASSUME UNCHANGED <<account, held>> PROVE ReservedIsHeld'
    <2> SUFFICES ASSUME NEW a \in Accounts
                 PROVE  account'[a].reserved = Committed(HeldBy(a))'
      BY DEF ReservedIsHeld
    <2>1. HeldBy(a)' = HeldBy(a)
      BY <1>1 DEF HeldBy
    <2>2. Committed(HeldBy(a))' = Committed(HeldBy(a)')
      BY DEF Committed, Units
    <2> QED
      BY <1>1, <2>1, <2>2 DEF ReservedIsHeld
  <1>2. CASE \E c \in Calls : BeginReserve(c)
    <2> PICK c \in Calls : BeginReserve(c)
      BY <1>2
    <2> SUFFICES ASSUME NEW a \in Accounts
                 PROVE  account'[a].reserved = Committed(HeldBy(a))'
      BY DEF ReservedIsHeld
    <2>0. Committed(HeldBy(a))' = Committed(HeldBy(a)')
      BY DEF Committed, Units
    <2>1. c \notin held /\ held' = held \cup {c} /\ held \subseteq Calls
      BY DEF BeginReserve, Control, HeldInv, TypeOK
    <2>2. CASE a # AccountOf[c]
      <3>1. HeldBy(a)' = HeldBy(a)
        BY <2>1, <2>2 DEF HeldBy
      <3> QED
        BY <2>0, <2>2, <3>1, ReserveEffect DEF ReservedIsHeld, Control
    <2>3. CASE a = AccountOf[c]
      <3>1. HeldBy(a)' = HeldBy(a) \cup {c} /\ c \notin HeldBy(a) /\ HeldBy(a) \in SUBSET Calls
        BY <2>1, <2>3 DEF HeldBy
      <3>2. Committed(HeldBy(a) \cup {c}) = Committed(HeldBy(a)) + Estimate[c]
        BY <3>1, CommittedAdd
      <3> QED
        BY <2>0, <2>3, <3>1, <3>2, ReserveEffect DEF ReservedIsHeld, Control
    <2> QED
      BY <2>2, <2>3
  <1>3. CASE \E c \in Calls : \E x \in Costs : pc[c] \in Running /\ BeginSettle(c, x)
    <2> PICK c \in Calls, x \in Costs : pc[c] \in Running /\ BeginSettle(c, x)
      BY <1>3
    <2>1. c \in held /\ held' = held \ {c}
      BY DEF BeginSettle, Control, HeldInv
    <2> QED
      BY <2>1, SettleEffect, Release DEF Control
  <1>4. CASE \E c \in Calls : pc[c] \in Running /\ BeginRollback(c)
    <2> PICK c \in Calls : pc[c] \in Running /\ BeginRollback(c)
      BY <1>4
    <2>1. c \in held /\ held' = held \ {c}
      BY DEF BeginRollback, Control, HeldInv
    <2> QED
      BY <2>1, RollbackEffect, Release DEF Control
  <1>5. \/ UNCHANGED <<account, held>>
        \/ \E c \in Calls : BeginReserve(c)
        \/ \E c \in Calls : \E x \in Costs : pc[c] \in Running /\ BeginSettle(c, x)
        \/ \E c \in Calls : pc[c] \in Running /\ BeginRollback(c)
    BY StepKinds DEF Leave, GoOn, WriteQuota, WriteLedger, WriteRefund, OperationStops,
                     Tick, vars, budgetVars
  <1> QED
    BY <1>1, <1>2, <1>3, <1>4, <1>5

\* The inductive invariant of the reservations.
Reserved == Control /\ ReservedIsHeld

\* It holds of every behaviour.
LEMMA ReservedInvariant == Spec => []Reserved
  <1>1. Init => Reserved
    <2> SUFFICES ASSUME Init, NEW a \in Accounts
                 PROVE  account[a].reserved = Committed(HeldBy(a))
      BY ControlInit DEF Reserved, ReservedIsHeld
    <2>1. HeldBy(a) = {} /\ account[a].reserved = 0
      BY DEF Init, HeldBy
    <2>2. Units({}) = {}
      BY DEF Units
    <2> QED
      BY <2>1, <2>2, FS_EmptySet DEF Committed
  <1>2. Reserved /\ [Next]_vars => Reserved'
    BY ControlStep, ReservedStep DEF Reserved
  <1> QED
    BY <1>1, <1>2, PTL DEF Spec

\* reserved_micros is the sum of the open reservations, in every behaviour: no
\* interleaving, store error or cancellation makes settle_budget or
\* rollback_budget saturate.
THEOREM ReservationsExact == Spec => []ReservedIsHeld
  <1>1. Reserved => ReservedIsHeld
    BY DEF Reserved
  <1> QED
    BY <1>1, ReservedInvariant, PTL

-----------------------------------------------------------------------------
(* The budget is respected *)

\* Every step keeps the account within its budget and the overruns.
LEMMA BudgetStepKeeps ==
    ASSUME Reserved, BudgetRespected, [Next]_vars
    PROVE  BudgetRespected'
  <1> SUFFICES ASSUME ~Shadow, NEW a \in Accounts
               PROVE  account'[a].spent + account'[a].reserved <= TotalBudget + overrun'[a]
    BY DEF BudgetRespected
  <1> DEFINE r == account[a].reserved
             s == account[a].spent
  <1>t. r \in Nat /\ s \in Nat /\ overrun[a] \in Nat /\ TotalBudget \in Nat
    BY ConstantsAssumption DEF Reserved, Control, TypeOK
  <1>b. s + r <= TotalBudget + overrun[a]
    BY DEF BudgetRespected
  <1>e. TypeOK
    BY DEF Reserved, Control
  <1> HIDE DEF r, s
  <1>1. ASSUME account'[a] = account[a], overrun'[a] = overrun[a]
        PROVE  account'[a].spent + account'[a].reserved <= TotalBudget + overrun'[a]
    BY <1>1, <1>b DEF r, s
  <1>2. CASE \E c \in Calls : BeginReserve(c)
    <2> PICK c \in Calls : BeginReserve(c)
      BY <1>2
    <2>0. overrun' = overrun
      BY DEF BeginReserve
    <2>1. CASE a # AccountOf[c]
      BY <1>1, <2>0, <2>1, <1>e, ReserveEffect
    <2>2. CASE a = AccountOf[c]
      <3>1. Estimate[c] \in Nat /\ Estimate[c] >= 1
        BY ConstantsAssumption
      <3>2. Estimate[c] <= SatSub(TotalBudget, s + r)
        <4>1. ~(Estimate[c] > AccountRemaining(a))
          BY <2>2 DEF BeginReserve, OverBudget
        <4>2. AccountRemaining(a) = SatSub(TotalBudget, s + r)
          BY DEF AccountRemaining, r, s
        <4>3. SatSub(TotalBudget, s + r) \in Nat
          BY <1>t DEF SatSub
        <4> QED BY <3>1, <4>1, <4>2, <4>3
      <3>3. s + r + Estimate[c] <= TotalBudget
        BY <1>t, <3>1, <3>2 DEF SatSub
      <3>4. account'[a].reserved = r + Estimate[c] /\ account'[a].spent = s
        BY <2>2, <1>e, ReserveEffect DEF r, s
      <3> QED
        BY <1>t, <2>0, <3>1, <3>3, <3>4
    <2> QED BY <2>1, <2>2
  <1>3. CASE \E c \in Calls : \E x \in Costs : pc[c] \in Running /\ BeginSettle(c, x)
    <2> PICK c \in Calls, x \in Costs : pc[c] \in Running /\ BeginSettle(c, x)
      BY <1>3
    <2>1. CASE a # AccountOf[c]
      BY <1>1, <2>1, <1>e, SettleEffect
    <2>2. CASE a = AccountOf[c]
      <3>1. Estimate[c] \in Nat /\ x \in Nat
        BY ConstantsAssumption
      <3>2. r >= Estimate[c]
        <4>1. c \in held
          BY DEF Reserved, Control, HeldInv
        <4> QED BY <4>1, <2>2, NoSaturation DEF Reserved, r
      <3>3. /\ account'[a].reserved = SatSub(r, Estimate[c])
            /\ account'[a].spent = s + x
            /\ overrun'[a] = overrun[a] + Excess(x, Estimate[c])
        BY <2>2, <1>e, SettleEffect DEF r, s
      <3> QED
        BY <1>t, <1>b, <3>1, <3>2, <3>3 DEF SatSub, Excess
    <2> QED BY <2>1, <2>2
  <1>4. CASE \E c \in Calls : pc[c] \in Running /\ BeginRollback(c)
    <2> PICK c \in Calls : pc[c] \in Running /\ BeginRollback(c)
      BY <1>4
    <2>0. overrun' = overrun
      BY DEF BeginRollback
    <2>1. CASE a # AccountOf[c]
      BY <1>1, <2>0, <2>1, <1>e, RollbackEffect
    <2>2. CASE a = AccountOf[c]
      <3>1. Estimate[c] \in Nat
        BY ConstantsAssumption
      <3>2. account'[a].reserved = SatSub(r, Estimate[c]) /\ account'[a].spent = s
        BY <2>2, <1>e, RollbackEffect DEF r, s
      <3> QED
        BY <1>t, <1>b, <2>0, <3>1, <3>2 DEF SatSub
    <2> QED BY <2>1, <2>2
  <1>5. \/ UNCHANGED <<account, overrun>>
        \/ \E c \in Calls : BeginReserve(c)
        \/ \E c \in Calls : \E x \in Costs : pc[c] \in Running /\ BeginSettle(c, x)
        \/ \E c \in Calls : pc[c] \in Running /\ BeginRollback(c)
    BY StepKinds DEF Leave, GoOn, WriteQuota, WriteLedger, WriteRefund, OperationStops,
                     Tick, vars, budgetVars
  <1> QED
    BY <1>1, <1>2, <1>3, <1>4, <1>5

\* Concurrent calls never commit an account beyond its budget, except by what
\* single calls cost more than they had reserved.
THEOREM AccountsStayInBudget == Spec => []BudgetRespected
  <1>1. Init => BudgetRespected
    BY ConstantsAssumption DEF Init, BudgetRespected
  <1>2. Reserved /\ BudgetRespected /\ [Next]_vars => BudgetRespected'
    BY BudgetStepKeeps
  <1> QED
    BY <1>1, <1>2, ReservedInvariant, PTL DEF Spec

\* An account row is the sum of the open reservations and, with what is spent,
\* within the budget (AccountHeld): what a precharge reads is all there is.
THEOREM AccountsKept == Spec => []AccountHeld
  <1>1. ReservedIsHeld /\ BudgetRespected => AccountHeld
    BY DEF AccountHeld
  <1> QED
    BY <1>1, ReservationsExact, AccountsStayInBudget, PTL

-----------------------------------------------------------------------------
(* Ledger and account tell the same story *)

\* What the ledger lacks while call c is between two writes on account a.
Flight(a, c) ==
    /\ op[c] = "reserve" =>
         /\ ledger[a].settle = account[a].spent
         /\ LedgerOpen(a) + overrun[a] + Estimate[c] = account[a].reserved
    /\ op[c] = "rollback" =>
         /\ ledger[a].settle = account[a].spent
         /\ LedgerOpen(a) + overrun[a] = account[a].reserved + Estimate[c]
    /\ op[c] = "settle" /\ pc[c] \in {"quota", "ledger"} =>
         /\ ledger[a].settle + cost[c] = account[a].spent
         /\ LedgerOpen(a) + overrun[a]
                = account[a].reserved + Estimate[c] + Excess(cost[c], Estimate[c])
    /\ op[c] = "settle" /\ pc[c] = "refund" =>
         /\ ledger[a].settle = account[a].spent
         /\ LedgerOpen(a) + overrun[a] = account[a].reserved + Estimate[c] - cost[c]

\* Ledger and account agree, up to the overruns no entry records.
Balanced(a) ==
    /\ ledger[a].settle = account[a].spent
    /\ LedgerOpen(a) + overrun[a] = account[a].reserved

\* An account without a torn operation is balanced, or as far from it as the operation
\* in progress has come.
LedgerInv ==
    \A a \in Accounts \ torn :
        /\ Quiet(a) => Balanced(a)
        /\ \A c \in Calls : lock = c /\ AccountOf[c] = a => Flight(a, c)

\* Every step keeps ledger and account in line.
LEMMA LedgerStep ==
    ASSUME Reserved, LedgerInv, [Next]_vars
    PROVE  LedgerInv'
  <1>n. torn \subseteq torn' /\ NoCall \notin Calls
    BY StepKinds, ConstantsAssumption
       DEF Leave, GoOn, BeginReserve, BeginSettle, BeginRollback, WriteQuota, WriteLedger,
           WriteRefund, OperationStops, Tick, vars, budgetVars
  <1> SUFFICES ASSUME NEW a \in Accounts, a \notin torn, a \notin torn'
               PROVE  /\ Quiet(a)' => Balanced(a)'
                      /\ \A c \in Calls : lock' = c /\ AccountOf[c] = a => Flight(a, c)'
    BY <1>n DEF LedgerInv
  <1>i. /\ Quiet(a) => Balanced(a)
        /\ \A c \in Calls : lock = c /\ AccountOf[c] = a => Flight(a, c)
    BY DEF LedgerInv
  <1>l. \A c \in Calls : pc[c] \in InOp <=> lock = c
    BY DEF Reserved, Control, LockInv
  <1>t. TypeOK
    BY DEF Reserved, Control
  <1>r. /\ account[a].reserved \in Nat /\ account[a].spent \in Nat
        /\ ledger[a].reserve \in Nat /\ ledger[a].settle \in Nat /\ ledger[a].refund \in Nat
        /\ overrun[a] \in Nat
    BY <1>t DEF TypeOK
  <1>u. \A c \in Calls : Estimate[c] \in Nat /\ cost[c] \in Nat
    BY <1>t, ConstantsAssumption DEF TypeOK
  <1> DEFINE Same == /\ account'[a] = account[a] /\ ledger'[a] = ledger[a]
                     /\ overrun'[a] = overrun[a]
             Goal == /\ Quiet(a)' => Balanced(a)'
                     /\ \A c \in Calls : lock' = c /\ AccountOf[c] = a => Flight(a, c)'
  \* A step of another account's operation.
  <1>1. ASSUME Same, Quiet(a), Quiet(a)'
        PROVE  Goal
    BY <1>1, <1>i, <1>n DEF Quiet, Balanced, LedgerOpen
  \* A step outside the operation in progress.
  <1>2. ASSUME Same, UNCHANGED <<lock, op, cost>>,
               \A d \in Calls : lock = d => pc'[d] = pc[d] \/ (pc[d] = "quota" /\ pc'[d] = "ledger")
        PROVE  Goal
    <2>1. Quiet(a)' => Balanced(a)'
      BY <1>2, <1>i DEF Quiet, Balanced, LedgerOpen
    <2>2. ASSUME NEW d \in Calls, lock' = d, AccountOf[d] = a PROVE Flight(a, d)'
      <3>1. Flight(a, d) /\ (pc'[d] = pc[d] \/ (pc[d] = "quota" /\ pc'[d] = "ledger"))
        BY <1>2, <1>i, <2>2
      <3>2. /\ op'[d] = op[d] /\ cost'[d] = cost[d] /\ LedgerOpen(a)' = LedgerOpen(a)
            /\ account'[a] = account[a] /\ ledger'[a] = ledger[a] /\ overrun'[a] = overrun[a]
        BY <1>2 DEF LedgerOpen
      <3> QED
        BY <3>1, <3>2 DEF Flight
    <2> QED BY <2>1, <2>2
  <1>3. CASE \E c \in Calls : pc[c] \notin InOp \cup {"ended"} /\ Leave(c)
    <2> PICK c \in Calls : pc[c] \notin InOp \cup {"ended"} /\ Leave(c)
      BY <1>3
    <2>1. Same /\ UNCHANGED <<lock, op, cost>>
      BY DEF Leave, budgetVars
    <2>2. \A d \in Calls : lock = d => pc'[d] = pc[d]
      BY <1>l, <1>t DEF Leave, TypeOK
    <2> QED BY <1>2, <2>1, <2>2
  <1>4. CASE \E c \in Calls : \E q \in Points : GoOn(c, q)
    <2> PICK c \in Calls, q \in Points : GoOn(c, q)
      BY <1>4
    <2>1. Same /\ UNCHANGED <<lock, op, cost>>
      BY DEF GoOn, budgetVars
    <2>2. \A d \in Calls : lock = d => pc'[d] = pc[d]
      BY <1>l, <1>t DEF GoOn, TypeOK, InOp
    <2> QED BY <1>2, <2>1, <2>2
  <1>5. CASE \E c \in Calls : WriteQuota(c)
    <2> PICK c \in Calls : WriteQuota(c)
      BY <1>5
    <2>1. Same /\ UNCHANGED <<lock, op, cost>>
      BY DEF WriteQuota
    <2>2. \A d \in Calls : pc'[d] = pc[d] \/ (pc[d] = "quota" /\ pc'[d] = "ledger")
      BY <1>t DEF WriteQuota, TypeOK
    <2> QED BY <1>2, <2>1, <2>2
  <1>6. CASE \E c \in Calls : BeginReserve(c)
    <2> PICK c \in Calls : BeginReserve(c)
      BY <1>6
    <2>0. Quiet(a) /\ Balanced(a) /\ lock' = c
      BY <1>i DEF BeginReserve, Quiet
    <2>1. ledger' = ledger /\ overrun' = overrun
      BY DEF BeginReserve
    <2>2. CASE AccountOf[c] # a
      BY <1>1, <1>t, <2>0, <2>1, <2>2, ReserveEffect DEF Quiet
    <2>3. CASE AccountOf[c] = a
      <3>1. account'[a].reserved = account[a].reserved + Estimate[c]
            /\ account'[a].spent = account[a].spent
        BY <1>t, <2>3, ReserveEffect
      <3>2. op'[c] = "reserve" /\ c # NoCall
        BY <1>t, <1>n DEF BeginReserve, TypeOK
      <3>3. LedgerOpen(a)' = LedgerOpen(a)
        BY <2>1 DEF LedgerOpen
      <3>4. LedgerOpen(a) \in Int
        BY <1>r DEF LedgerOpen
      <3>5. Flight(a, c)'
        BY <1>r, <1>u, <2>0, <2>1, <3>1, <3>2, <3>3, <3>4 DEF Flight, Balanced
      <3> QED BY <2>0, <2>3, <3>2, <3>5 DEF Quiet
    <2> QED BY <2>2, <2>3
  <1>7. CASE \E c \in Calls : \E x \in Costs : pc[c] \in Running /\ BeginSettle(c, x)
    <2> PICK c \in Calls, x \in Costs : pc[c] \in Running /\ BeginSettle(c, x)
      BY <1>7
    <2>0. Quiet(a) /\ Balanced(a) /\ lock' = c
      BY <1>i DEF BeginSettle, Quiet
    <2>1. ledger' = ledger
      BY DEF BeginSettle
    <2>2. CASE AccountOf[c] # a
      BY <1>1, <1>t, <2>0, <2>1, <2>2, SettleEffect DEF Quiet
    <2>3. CASE AccountOf[c] = a
      <3>0. x \in Nat
        BY ConstantsAssumption
      <3>1. /\ account'[a].reserved = SatSub(account[a].reserved, Estimate[c])
            /\ account'[a].spent = account[a].spent + x
            /\ overrun'[a] = overrun[a] + Excess(x, Estimate[c])
        BY <1>t, <2>3, SettleEffect
      <3>2. op'[c] = "settle" /\ pc'[c] = "quota" /\ cost'[c] = x /\ c # NoCall
        BY <1>t, <1>n DEF BeginSettle, TypeOK
      <3>3. LedgerOpen(a)' = LedgerOpen(a)
        BY <2>1 DEF LedgerOpen
      <3>4. LedgerOpen(a) \in Int /\ Excess(x, Estimate[c]) \in Nat
        BY <1>r, <1>u, <3>0 DEF LedgerOpen, Excess, SatSub
      <3>5. c \in held
        BY DEF Reserved, Control, HeldInv
      <3>6. account[a].reserved >= Estimate[c]
        BY <2>3, <3>5, NoSaturation DEF Reserved
      <3>7. account'[a].reserved = account[a].reserved - Estimate[c]
        BY <1>r, <1>u, <3>1, <3>6 DEF SatSub
      <3>8. /\ ledger'[a].settle + cost'[c] = account'[a].spent
            /\ LedgerOpen(a)' + overrun'[a]
                 = account'[a].reserved + Estimate[c] + Excess(cost'[c], Estimate[c])
        BY <1>r, <1>u, <2>0, <2>1, <3>0, <3>1, <3>2, <3>3, <3>4, <3>7 DEF Balanced
      <3>9. Flight(a, c)'
        BY <3>2, <3>8 DEF Flight, Excess, SatSub
      <3> QED BY <2>0, <2>3, <3>2, <3>9 DEF Quiet
    <2> QED BY <2>2, <2>3
  <1>8. CASE \E c \in Calls : pc[c] \in Running /\ BeginRollback(c)
    <2> PICK c \in Calls : pc[c] \in Running /\ BeginRollback(c)
      BY <1>8
    <2>0. Quiet(a) /\ Balanced(a) /\ lock' = c
      BY <1>i DEF BeginRollback, Quiet
    <2>1. ledger' = ledger /\ overrun' = overrun
      BY DEF BeginRollback
    <2>2. CASE AccountOf[c] # a
      BY <1>1, <1>t, <2>0, <2>1, <2>2, RollbackEffect DEF Quiet
    <2>3. CASE AccountOf[c] = a
      <3>1. /\ account'[a].reserved = SatSub(account[a].reserved, Estimate[c])
            /\ account'[a].spent = account[a].spent
        BY <1>t, <2>3, RollbackEffect
      <3>2. op'[c] = "rollback" /\ c # NoCall
        BY <1>t, <1>n DEF BeginRollback, TypeOK
      <3>3. LedgerOpen(a)' = LedgerOpen(a)
        BY <2>1 DEF LedgerOpen
      <3>4. LedgerOpen(a) \in Int
        BY <1>r DEF LedgerOpen
      <3>5. c \in held
        BY DEF Reserved, Control, HeldInv
      <3>6. account[a].reserved >= Estimate[c]
        BY <2>3, <3>5, NoSaturation DEF Reserved
      <3>7. account'[a].reserved = account[a].reserved - Estimate[c]
        BY <1>r, <1>u, <3>1, <3>6 DEF SatSub
      <3>8. Flight(a, c)'
        BY <1>r, <1>u, <2>0, <2>1, <3>1, <3>2, <3>3, <3>4, <3>7 DEF Flight, Balanced
      <3> QED BY <2>0, <2>3, <3>2, <3>8 DEF Quiet
    <2> QED BY <2>2, <2>3
  <1>9. CASE \E c \in Calls : WriteLedger(c)
    <2> PICK c \in Calls : WriteLedger(c)
      BY <1>9
    <2>0. lock = c /\ c # NoCall /\ account' = account /\ overrun' = overrun /\ cost' = cost
      BY <1>l, <1>n DEF WriteLedger, InOp
    <2>1. AccountOf[c] \in Accounts /\ ledger \in [Accounts -> [reserve : Nat, settle : Nat, refund : Nat]]
      BY <1>t, ConstantsAssumption DEF TypeOK
    <2>2. CASE AccountOf[c] # a
      <3>1. \/ ledger' = [ledger EXCEPT ![AccountOf[c]].reserve = @ + Estimate[c]]
            \/ ledger' = [ledger EXCEPT ![AccountOf[c]].settle = @ + cost[c]]
            \/ ledger' = [ledger EXCEPT ![AccountOf[c]].refund = @ + Estimate[c]]
        BY DEF WriteLedger
      <3>2. ledger'[a] = ledger[a]
        BY <2>1, <2>2, <3>1
      <3>3. lock' = c \/ lock' = NoCall
        BY DEF WriteLedger
      <3> QED BY <1>1, <2>0, <2>2, <3>2, <3>3 DEF Quiet
    <2>3. CASE AccountOf[c] = a
      <3>0. Flight(a, c) /\ pc[c] = "ledger"
        BY <1>i, <2>0, <2>3 DEF WriteLedger
      <3>1. CASE op[c] = "reserve"
        <4>1. ledger' = [ledger EXCEPT ![a].reserve = @ + Estimate[c]] /\ lock' = NoCall
          BY <2>3, <3>1 DEF WriteLedger
        <4>2. /\ ledger'[a].reserve = ledger[a].reserve + Estimate[c]
              /\ ledger'[a].settle = ledger[a].settle /\ ledger'[a].refund = ledger[a].refund
          BY <2>1, <4>1
        <4>3. Balanced(a)'
          BY <1>r, <1>u, <2>0, <3>0, <3>1, <4>2 DEF Balanced, Flight, LedgerOpen
        <4> QED BY <1>n, <4>1, <4>3
      <3>2. CASE op[c] = "rollback"
        <4>1. ledger' = [ledger EXCEPT ![a].refund = @ + Estimate[c]] /\ lock' = NoCall
          BY <2>3, <3>2 DEF WriteLedger
        <4>2. /\ ledger'[a].refund = ledger[a].refund + Estimate[c]
              /\ ledger'[a].settle = ledger[a].settle /\ ledger'[a].reserve = ledger[a].reserve
          BY <2>1, <4>1
        <4>3. Balanced(a)'
          BY <1>r, <1>u, <2>0, <3>0, <3>2, <4>2 DEF Balanced, Flight, LedgerOpen
        <4> QED BY <1>n, <4>1, <4>3
      <3>3. CASE op[c] = "settle"
        <4>1. ledger' = [ledger EXCEPT ![a].settle = @ + cost[c]]
          BY <2>3, <3>3 DEF WriteLedger
        <4>2. /\ ledger'[a].settle = ledger[a].settle + cost[c]
              /\ ledger'[a].reserve = ledger[a].reserve /\ ledger'[a].refund = ledger[a].refund
          BY <2>1, <4>1
        <4>3. /\ ledger[a].settle + cost[c] = account[a].spent
              /\ LedgerOpen(a) + overrun[a]
                    = account[a].reserved + Estimate[c] + Excess(cost[c], Estimate[c])
          BY <3>0, <3>3 DEF Flight
        <4>4. ledger'[a].settle = account'[a].spent
          BY <2>0, <4>2, <4>3
        <4>5. LedgerOpen(a)' + overrun'[a]
                = account'[a].reserved + Estimate[c] + Excess(cost[c], Estimate[c]) - cost[c]
          BY <1>r, <1>u, <2>0, <4>2, <4>3 DEF LedgerOpen, Excess, SatSub
        <4>6. CASE Estimate[c] > cost[c]
          <5>1. lock' = c /\ op'[c] = "settle" /\ pc'[c] = "refund"
            BY <1>t, <3>3, <4>6 DEF WriteLedger, TypeOK
          <5>2. Excess(cost[c], Estimate[c]) = 0
            BY <1>u, <4>6 DEF Excess, SatSub
          <5>3. LedgerOpen(a)' + overrun'[a] = account'[a].reserved + Estimate[c] - cost'[c]
            BY <1>r, <1>u, <2>0, <4>5, <5>2
          <5>4. Flight(a, c)'
            BY <4>4, <5>1, <5>3 DEF Flight
          <5> QED BY <2>0, <2>3, <5>1, <5>4 DEF Quiet
        <4>7. CASE ~(Estimate[c] > cost[c])
          <5>1. lock' = NoCall
            BY <4>7 DEF WriteLedger
          <5>2. Excess(cost[c], Estimate[c]) = cost[c] - Estimate[c]
            BY <1>u, <4>7 DEF Excess, SatSub
          <5>3. LedgerOpen(a)' + overrun'[a] = account'[a].reserved
            BY <1>r, <1>u, <2>0, <4>5, <5>2
          <5>4. Balanced(a)'
            BY <4>4, <5>3 DEF Balanced
          <5> QED BY <1>n, <5>1, <5>4
        <4> QED BY <4>6, <4>7
      <3> QED BY <3>1, <3>2, <3>3 DEF WriteLedger
    <2> QED BY <2>2, <2>3
  <1>10. CASE \E c \in Calls : WriteRefund(c)
    <2> PICK c \in Calls : WriteRefund(c)
      BY <1>10
    <2>0. /\ lock = c /\ lock' = NoCall /\ op[c] = "settle" /\ pc[c] = "refund"
          /\ account' = account /\ overrun' = overrun
      BY <1>l DEF WriteRefund, InOp, Reserved, Control, LockInv
    <2>1. /\ AccountOf[c] \in Accounts
          /\ ledger \in [Accounts -> [reserve : Nat, settle : Nat, refund : Nat]]
          /\ ledger' = [ledger EXCEPT ![AccountOf[c]].refund = @ + Estimate[c] - cost[c]]
      BY <1>t, ConstantsAssumption DEF TypeOK, WriteRefund
    <2>2. CASE AccountOf[c] # a
      <3>1. ledger'[a] = ledger[a]
        BY <2>1, <2>2
      <3> QED BY <1>1, <2>0, <2>2, <3>1 DEF Quiet
    <2>3. CASE AccountOf[c] = a
      <3>1. /\ ledger'[a].refund = ledger[a].refund + Estimate[c] - cost[c]
            /\ ledger'[a].settle = ledger[a].settle /\ ledger'[a].reserve = ledger[a].reserve
        BY <2>1, <2>3
      <3>2. Flight(a, c)
        BY <1>i, <2>0, <2>3
      <3>3. Balanced(a)'
        BY <1>r, <1>u, <2>0, <3>1, <3>2 DEF Balanced, Flight, LedgerOpen
      <3> QED BY <1>n, <2>0, <3>3
    <2> QED BY <2>2, <2>3
  <1>11. CASE \E c \in Calls : OperationStops(c)
    <2> PICK c \in Calls : OperationStops(c)
      BY <1>11
    <2>1. AccountOf[c] # a /\ lock = c /\ lock' = NoCall /\ Same
      BY <1>l DEF OperationStops, InOp
    <2> QED BY <1>1, <2>1 DEF Quiet
  <1>12. CASE Tick \/ UNCHANGED vars
    BY <1>2, <1>12 DEF Tick, vars, budgetVars
  <1> QED
    BY <1>3, <1>4, <1>5, <1>6, <1>7, <1>8, <1>9, <1>10, <1>11, <1>12, StepKinds

\* Whenever no operation is half done, the append-only spend ledger and the
\* account row agree, up to the overruns the ledger does not record.
THEOREM LedgerAgrees == Spec => []LedgerReconciles
  <1>1. Init => LedgerInv
    BY ConstantsAssumption DEF Init, LedgerInv, Balanced, LedgerOpen, Quiet
  <1>2. Reserved /\ LedgerInv /\ [Next]_vars => LedgerInv'
    BY LedgerStep
  <1>3. LedgerInv => LedgerReconciles
    BY DEF LedgerInv, LedgerReconciles, Balanced
  <1> QED
    BY <1>1, <1>2, <1>3, ReservedInvariant, PTL DEF Spec

-----------------------------------------------------------------------------
(* The parallel tool window *)

\* The guards of a session.
GuardsOf(s) == {c \in guards : SessionOf[c] = s}

\* Where a call that owns a ParallelToolWindowGuard can be.
GuardPlace ==
    \A c \in guards :
        \/ pc[c] \in {"guarding", "ran", "closing"}
        \/ pc[c] \in InOp /\ op[c] # "reserve"

\* The counter of a session is the number of its guards, within the limit.
WindowCount ==
    \A s \in Sessions :
        /\ active[s] = Cardinality(GuardsOf(s))
        /\ active[s] <= ParallelLimit

\* Every step keeps a guard with a call that may own one.
LEMMA GuardPlaceStep ==
    ASSUME Control, GuardPlace, [Next]_vars
    PROVE  GuardPlace'
  <1>t. TypeOK /\ LockInv
    BY DEF Control
  <1>1. CASE \E c \in Calls : pc[c] \notin InOp \cup {"ended"} /\ Leave(c)
    BY <1>1, <1>t DEF Leave, DropGuard, GuardPlace, TypeOK, InOp
  <1>2. CASE \E c \in Calls : \E q \in Points : GoOn(c, q)
    BY <1>2, <1>t DEF GoOn, GuardPlace, TypeOK, InOp
  <1>3. CASE \E c \in Calls : BeginReserve(c)
    BY <1>3, <1>t DEF BeginReserve, GuardPlace, TypeOK, InOp
  <1>4. CASE \E c \in Calls : \E x \in Costs : pc[c] \in Running /\ BeginSettle(c, x)
    BY <1>4, <1>t DEF BeginSettle, GuardPlace, TypeOK, InOp
  <1>5. CASE \E c \in Calls : pc[c] \in Running /\ BeginRollback(c)
    BY <1>5, <1>t DEF BeginRollback, GuardPlace, TypeOK, InOp
  <1>6. CASE \E c \in Calls : WriteQuota(c)
    BY <1>6, <1>t DEF WriteQuota, GuardPlace, TypeOK, InOp
  <1>7. CASE \E c \in Calls : WriteLedger(c)
    <2> PICK c \in Calls : WriteLedger(c)
      BY <1>7
    <2>1. /\ \A d \in Calls : d # c => pc'[d] = pc[d] /\ op'[d] = op[d]
          /\ guards' = guards /\ guards \subseteq Calls /\ pc[c] = "ledger"
      BY <1>t DEF WriteLedger, TypeOK
    <2>2. c \in guards => \/ pc'[c] = "closing"
                          \/ pc'[c] = "refund" /\ op'[c] = "settle"
      <3>1. c \in guards => op[c] # "reserve"
        BY <2>1 DEF GuardPlace
      <3>2. pc \in [Calls -> Points] /\ op \in [Calls -> {"none", "reserve", "settle", "rollback"}]
        BY <1>t DEF TypeOK
      <3>3. CASE op[c] = "settle" /\ Estimate[c] > cost[c]
        <4>1. pc' = [pc EXCEPT ![c] = "refund"] /\ op' = [op EXCEPT ![c] = "settle"]
          BY <3>3 DEF WriteLedger
        <4> QED BY <3>2, <4>1
      <3>4. CASE op[c] # "reserve" /\ ~(op[c] = "settle" /\ Estimate[c] > cost[c])
        <4>1. pc' = [pc EXCEPT ![c] = "closing"]
          BY <3>4 DEF WriteLedger
        <4> QED BY <2>1, <3>2, <4>1
      <3> QED BY <3>1, <3>3, <3>4
    <2> QED
      BY <2>1, <2>2 DEF GuardPlace, InOp
  <1>8. CASE \E c \in Calls : WriteRefund(c)
    BY <1>8, <1>t DEF WriteRefund, GuardPlace, TypeOK, InOp
  <1>9. CASE \E c \in Calls : OperationStops(c)
    BY <1>9, <1>t DEF OperationStops, DropGuard, GuardPlace, TypeOK, InOp
  <1>10. CASE Tick
    BY <1>10 DEF Tick, GuardPlace
  <1>11. CASE UNCHANGED vars
    BY <1>11 DEF vars, GuardPlace
  <1> QED
    BY <1>1, <1>2, <1>3, <1>4, <1>5, <1>6, <1>7, <1>8, <1>9, <1>10, <1>11, StepKinds

\* A guard's Drop takes exactly its own call off the count.
LEMMA DropGuardCount ==
    ASSUME TypeOK, WindowCount, NEW c \in Calls, DropGuard(c)
    PROVE  WindowCount'
  <1>1. CASE c \notin guards
    BY <1>1 DEF DropGuard, WindowCount, GuardsOf
  <1>2. CASE c \in guards
    <2> SUFFICES ASSUME NEW s \in Sessions
                 PROVE  /\ active'[s] = Cardinality(GuardsOf(s)')
                        /\ active'[s] <= ParallelLimit
      BY DEF WindowCount, GuardsOf
    <2>0. /\ active \in [Sessions -> Nat] /\ SessionOf[c] \in Sessions /\ ParallelLimit \in Nat
          /\ active' = [active EXCEPT ![SessionOf[c]] = SatSub(@, 1)] /\ guards' = guards \ {c}
          /\ active[s] = Cardinality(GuardsOf(s)) /\ active[s] <= ParallelLimit
      BY <1>2, ConstantsAssumption DEF TypeOK, DropGuard, WindowCount
    <2>1. CASE s # SessionOf[c]
      <3>1. GuardsOf(s)' = GuardsOf(s)
        BY <2>0, <2>1 DEF GuardsOf
      <3> QED BY <2>0, <2>1, <3>1
    <2>2. CASE s = SessionOf[c]
      <3>1. GuardsOf(s)' = GuardsOf(s) \ {c} /\ c \in GuardsOf(s)
        BY <1>2, <2>0, <2>2 DEF GuardsOf
      <3>2. IsFiniteSet(GuardsOf(s))
        BY ConstantsAssumption, FS_Subset DEF GuardsOf, TypeOK
      <3>3. Cardinality(GuardsOf(s) \ {c}) = Cardinality(GuardsOf(s)) - 1
        BY <3>1, <3>2, FS_RemoveElement
      <3>4. active'[s] = SatSub(active[s], 1)
        BY <2>0, <2>2
      <3>5. Cardinality(GuardsOf(s) \ {c}) \in Nat
        BY <3>2, FS_RemoveElement, FS_CardinalityType
      <3>6. active[s] \in Nat
        BY <2>0
      <3> QED BY <2>0, <3>1, <3>3, <3>4, <3>5, <3>6 DEF SatSub
    <2> QED BY <2>1, <2>2
  <1> QED
    BY <1>1, <1>2

\* Every step keeps the counter exact and within the limit.
LEMMA WindowStep ==
    ASSUME Control, GuardPlace, WindowCount, [Next]_vars
    PROVE  WindowCount'
  <1>t. TypeOK
    BY DEF Control
  <1>1. ASSUME UNCHANGED <<active, guards>> PROVE WindowCount'
    BY <1>1 DEF WindowCount, GuardsOf
  <1>2. CASE \E c \in Calls : DropGuard(c)
    BY <1>2, <1>t, DropGuardCount
  <1>3. CASE \E c \in Calls : \E q \in Points : GoOn(c, q)
    <2> PICK c \in Calls, q \in Points : GoOn(c, q)
      BY <1>3
    <2>1. CASE UNCHANGED <<active, guards>>
      BY <1>1, <2>1
    <2>2. CASE /\ q = "guarding" /\ active[SessionOf[c]] + 1 <= ParallelLimit
               /\ active' = [active EXCEPT ![SessionOf[c]] = @ + 1]
               /\ guards' = guards \cup {c}
      <3> SUFFICES ASSUME NEW s \in Sessions
                   PROVE  /\ active'[s] = Cardinality(GuardsOf(s)')
                          /\ active'[s] <= ParallelLimit
        BY DEF WindowCount, GuardsOf
      <3>0. /\ active \in [Sessions -> Nat] /\ SessionOf[c] \in Sessions /\ guards \subseteq Calls
            /\ active[s] = Cardinality(GuardsOf(s)) /\ active[s] <= ParallelLimit
        BY <1>t, ConstantsAssumption DEF TypeOK, WindowCount
      <3>1. c \notin guards
        <4>1. pc[c] = "admitted"
          BY <2>2 DEF GoOn
        <4> QED BY <4>1 DEF GuardPlace, InOp
      <3>2. CASE s # SessionOf[c]
        <4>1. GuardsOf(s)' = GuardsOf(s)
          BY <2>2, <3>2 DEF GuardsOf
        <4> QED BY <2>2, <3>0, <3>2, <4>1
      <3>3. CASE s = SessionOf[c]
        <4>1. GuardsOf(s)' = GuardsOf(s) \cup {c} /\ c \notin GuardsOf(s)
          BY <2>2, <3>1, <3>3 DEF GuardsOf
        <4>2. IsFiniteSet(GuardsOf(s))
          BY <3>0, ConstantsAssumption, FS_Subset DEF GuardsOf
        <4>3. Cardinality(GuardsOf(s) \cup {c}) = Cardinality(GuardsOf(s)) + 1
          BY <4>1, <4>2, FS_AddElement
        <4>4. active'[s] = active[s] + 1 /\ active[s] + 1 <= ParallelLimit
          BY <2>2, <3>0, <3>3
        <4> QED BY <3>0, <4>1, <4>3, <4>4
      <3> QED BY <3>2, <3>3
    <2> QED BY <2>1, <2>2 DEF GoOn
  <1>4. \/ UNCHANGED <<active, guards>>
        \/ \E c \in Calls : DropGuard(c)
        \/ \E c \in Calls : \E q \in Points : GoOn(c, q)
    BY StepKinds DEF Leave, BeginReserve, BeginSettle, BeginRollback, WriteQuota, WriteLedger,
                     WriteRefund, OperationStops, Tick, vars
  <1> QED
    BY <1>1, <1>2, <1>3, <1>4

\* The parallel-window counter is exact and bounded for any number of calls and
\* sessions, whichever way each call leaves execute.
THEOREM WindowBounded == Spec => []ParallelWithinLimit
  <1> DEFINE Inv == GuardPlace /\ WindowCount
  <1>1. Init => Inv
    <2> SUFFICES ASSUME Init PROVE Inv
      OBVIOUS
    <2>1. GuardPlace
      BY DEF Init, GuardPlace
    <2>2. \A s \in Sessions : GuardsOf(s) = {} /\ active[s] = 0
      BY DEF Init, GuardsOf
    <2>3. WindowCount
      BY <2>2, FS_EmptySet, ConstantsAssumption DEF WindowCount
    <2> QED BY <2>1, <2>3
  <1>2. Control /\ Inv /\ [Next]_vars => Inv'
    BY GuardPlaceStep, WindowStep
  <1>3. Inv => ParallelWithinLimit
    BY DEF GuardPlace, WindowCount, ParallelWithinLimit, InOp, GuardsOf
  <1> QED
    BY <1>1, <1>2, <1>3, ControlInvariant, PTL DEF Spec

-----------------------------------------------------------------------------
(* The quota windows *)

\* Fewer calls have reserved no more.
LEMMA CommittedMonotone ==
    ASSUME NEW S \in SUBSET Calls, NEW T \in SUBSET S
    PROVE  Committed(T) <= Committed(S)
  <1>1. Units(T) \in SUBSET Units(S)
    <2> SUFFICES ASSUME NEW u \in Units(T) PROVE u \in Units(S)
      OBVIOUS
    <2>1. u \in T \X (1..MaxEstimate) /\ u[2] <= Estimate[u[1]]
      BY DEF Units
    <2>2. u \in S \X (1..MaxEstimate)
      BY <2>1
    <2> QED
      BY <2>1, <2>2 DEF Units
  <1>2. IsFiniteSet(Units(S))
    BY UnitsFinite
  <1> QED
    BY <1>1, <1>2, FS_Subset DEF Committed

\* What the operation that holds the lock has read of the quota row is still
\* there when it writes the row: a reservation fits the window, and a settled
\* cost exceeds it by no more than it overran its reservation.
InFlight ==
    ~Shadow => \A c \in Calls : pc[c] = "quota" =>
        /\ op[c] = "reserve" =>
              quota[AccountOf[c]][started[c]] + Estimate[c] <= WindowBudget
        /\ op[c] = "settle" =>
              quota[AccountOf[c]][started[c]] + Excess(cost[c], Estimate[c])
                  <= WindowBudget + overrun[AccountOf[c]]

\* What the second write of an operation does to the quota rows.
LEMMA QuotaEffect ==
    ASSUME TypeOK, NEW c \in Calls, WriteQuota(c), NEW a \in Accounts, NEW w \in Windows
    PROVE  /\ ~(a = AccountOf[c] /\ w = started[c]) => quota'[a][w] = quota[a][w]
           /\ a = AccountOf[c] /\ w = started[c] =>
                quota'[a][w] = Consumed(c, quota[a][w])
  <1>1. quota \in [Accounts -> [Windows -> Nat]]
    BY DEF TypeOK
  <1>2. quota' = [quota EXCEPT ![AccountOf[c]][started[c]] = Consumed(c, @)]
    BY DEF WriteQuota
  <1>3. AccountOf[c] \in Accounts /\ started[c] \in Windows
    BY ConstantsAssumption DEF TypeOK
  <1> QED
    BY <1>1, <1>2, <1>3

\* The call that writes a quota row is in a reserve, or it is one of the calls
\* the row counts and the row covers its reservation.
LEMMA WriterCounted ==
    ASSUME Control, QuotaCoversRunning, NEW c \in Calls, pc[c] = "quota"
    PROVE  LET a == AccountOf[c]
               w == started[c]
           IN  /\ op[c] \in {"reserve", "settle", "rollback"}
               /\ op[c] = "reserve" => c \notin CountedIn(a, w)
               /\ op[c] # "reserve" =>
                    /\ c \in CountedIn(a, w)
                    /\ quota[a][w] >= Committed(CountedIn(a, w) \ {c}) + Estimate[c]
                    /\ Committed(CountedIn(a, w) \ {c}) \in Nat
  <1> DEFINE a == AccountOf[c]
             w == started[c]
  <1>1. a \in Accounts /\ w \in Windows
    BY ConstantsAssumption DEF Control, TypeOK
  <1>2. op[c] \in {"reserve", "settle", "rollback"}
    BY DEF Control, LockInv, TypeOK, InOp
  <1>3. op[c] = "reserve" => c \notin CountedIn(a, w)
    BY DEF CountedIn
  <1>4. ASSUME op[c] # "reserve"
        PROVE  /\ c \in CountedIn(a, w)
               /\ quota[a][w] >= Committed(CountedIn(a, w) \ {c}) + Estimate[c]
               /\ Committed(CountedIn(a, w) \ {c}) \in Nat
    <2>1. c \in CountedIn(a, w)
      BY <1>2, <1>4 DEF CountedIn
    <2>2. CountedIn(a, w) \in SUBSET Calls
      BY DEF CountedIn
    <2>3. quota[a][w] >= Committed(CountedIn(a, w))
      BY <1>1 DEF QuotaCoversRunning
    <2> HIDE DEF a, w
    <2>4. /\ Committed(CountedIn(a, w)) = Committed(CountedIn(a, w) \ {c}) + Estimate[c]
          /\ Committed(CountedIn(a, w) \ {c}) \in Nat
      BY <2>1, <2>2, CommittedRemove
    <2> QED
      BY <2>1, <2>3, <2>4
  <1> QED
    BY <1>2, <1>3, <1>4

\* No other step adds a call to those a quota row counts, or writes a row.
LEMMA CountedElsewhere ==
    ASSUME Control, [Next]_vars, \A c \in Calls : ~WriteQuota(c)
    PROVE  /\ quota' = quota
           /\ \A a \in Accounts, w \in Windows : CountedIn(a, w)' \subseteq CountedIn(a, w)
  <1> DEFINE Fine == /\ quota' = quota
                     /\ \A a \in Accounts, w \in Windows :
                            CountedIn(a, w)' \subseteq CountedIn(a, w)
  <1>t. /\ pc \in [Calls -> Points] /\ started \in [Calls -> Windows]
        /\ op \in [Calls -> {"none", "reserve", "settle", "rollback"}]
    BY DEF Control, TypeOK
  <1>1. CASE \E c \in Calls : pc[c] \notin InOp \cup {"ended"} /\ Leave(c)
    BY <1>1, <1>t DEF Leave, CountedIn, budgetVars
  <1>2. CASE \E c \in Calls : \E q \in Points : GoOn(c, q)
    <2> PICK c \in Calls, q \in Points : GoOn(c, q)
      BY <1>2
    <2>1. /\ pc' = [pc EXCEPT ![c] = q] /\ UNCHANGED <<op, started, quota>>
          /\ pc[c] \in {"start", "admitted", "guarding"}
          /\ pc[c] = "start" => q = "precharge"
      BY DEF GoOn, budgetVars
    <2>2. q \in {"precharge", "responded", "guarding", "ran"}
      BY DEF GoOn
    <2> QED BY <2>1, <2>2, <1>t DEF CountedIn
  <1>3. CASE \E c \in Calls : BeginReserve(c)
    BY <1>3, <1>t DEF BeginReserve, CountedIn
  <1>4. CASE \E c \in Calls : \E x \in Costs : pc[c] \in Running /\ BeginSettle(c, x)
    BY <1>4, <1>t DEF BeginSettle, CountedIn, Running
  <1>5. CASE \E c \in Calls : pc[c] \in Running /\ BeginRollback(c)
    BY <1>5, <1>t DEF BeginRollback, CountedIn, Running
  <1>6. CASE \E c \in Calls : WriteLedger(c)
    <2> PICK c \in Calls : WriteLedger(c)
      BY <1>6
    <2>1. /\ UNCHANGED <<started, quota>> /\ pc[c] = "ledger"
          /\ \E q \in Points : /\ pc' = [pc EXCEPT ![c] = q]
                               /\ \/ q = "admitted" /\ op[c] = "reserve"
                                  \/ q \in {"refund", "closing"}
          /\ \E o \in {"none", "settle"} : op' = [op EXCEPT ![c] = o]
      BY DEF WriteLedger, Points
    <2> QED BY <2>1, <1>t DEF CountedIn
  <1>7. CASE \E c \in Calls : WriteRefund(c)
    BY <1>7, <1>t DEF WriteRefund, CountedIn
  <1>8. CASE \E c \in Calls : OperationStops(c)
    BY <1>8, <1>t DEF OperationStops, CountedIn
  <1>9. CASE Tick \/ UNCHANGED vars
    BY <1>9 DEF Tick, vars, budgetVars, CountedIn
  <1> QED
    BY <1>1, <1>2, <1>3, <1>4, <1>5, <1>6, <1>7, <1>8, <1>9, StepKinds

\* The rows cover the running calls after every step.
LEMMA CoversStep ==
    ASSUME Control, QuotaCoversRunning, [Next]_vars
    PROVE  QuotaCoversRunning'
  <1> SUFFICES ASSUME NEW a \in Accounts, NEW w \in Windows
               PROVE  quota'[a][w] >= Committed(CountedIn(a, w))'
    BY DEF QuotaCoversRunning
  <1>0. Committed(CountedIn(a, w))' = Committed(CountedIn(a, w)')
    BY DEF Committed, Units
  <1>t. /\ quota[a][w] \in Nat /\ quota[a][w] >= Committed(CountedIn(a, w))
        /\ CountedIn(a, w) \in SUBSET Calls /\ TypeOK
    BY DEF QuotaCoversRunning, Control, TypeOK, CountedIn
  <1>n. Committed(CountedIn(a, w)) \in Nat
    BY <1>t, UnitsFinite
  <1>1. CASE \A c \in Calls : ~WriteQuota(c)
    <2>1. quota'[a][w] = quota[a][w] /\ CountedIn(a, w)' \in SUBSET CountedIn(a, w)
      BY <1>1, CountedElsewhere
    <2>2. Committed(CountedIn(a, w)') <= Committed(CountedIn(a, w))
      BY <1>t, <2>1, CommittedMonotone
    <2>3. Committed(CountedIn(a, w)') \in Nat
      BY <1>t, <2>1, UnitsFinite
    <2> QED
      BY <1>0, <1>t, <1>n, <2>1, <2>2, <2>3
  <1>2. ASSUME NEW c \in Calls, WriteQuota(c)
        PROVE  quota'[a][w] >= Committed(CountedIn(a, w)')
    <2>1. /\ pc[c] = "quota" /\ pc' = [pc EXCEPT ![c] = "ledger"] /\ UNCHANGED <<op, started>>
          /\ pc \in [Calls -> Points]
      BY <1>2, <1>t DEF WriteQuota, TypeOK
    <2>2. CASE ~(a = AccountOf[c] /\ w = started[c])
      <3>1. quota'[a][w] = quota[a][w]
        BY <1>2, <1>t, <2>2, QuotaEffect
      <3>2. CountedIn(a, w)' = CountedIn(a, w)
        BY <2>1, <2>2 DEF CountedIn
      <3> QED
        BY <1>t, <3>1, <3>2
    <2>3. CASE a = AccountOf[c] /\ w = started[c]
      <3>1. quota'[a][w] = Consumed(c, quota[a][w])
        BY <1>2, <1>t, <2>3, QuotaEffect
      <3>2. Estimate[c] \in Nat /\ cost[c] \in Nat
        BY <1>t, ConstantsAssumption DEF TypeOK
      <3>3. CASE op[c] = "reserve"
        <4>1. CountedIn(a, w)' = CountedIn(a, w) \cup {c}
          BY <2>1, <2>3, <3>3 DEF CountedIn
        <4>2. c \notin CountedIn(a, w)
          BY <2>1, <3>3 DEF CountedIn
        <4>3. Committed(CountedIn(a, w)') = Committed(CountedIn(a, w)) + Estimate[c]
          BY <1>t, <4>1, <4>2, CommittedAdd
        <4>4. quota'[a][w] = quota[a][w] + Estimate[c]
          BY <3>1, <3>3 DEF Consumed
        <4> QED
          BY <1>t, <1>n, <3>2, <4>3, <4>4
      <3>4. CASE op[c] # "reserve"
        <4>1. /\ op[c] \in {"settle", "rollback"} /\ c \in CountedIn(a, w)
              /\ quota[a][w] >= Committed(CountedIn(a, w) \ {c}) + Estimate[c]
              /\ Committed(CountedIn(a, w) \ {c}) \in Nat
          BY <2>1, <2>3, <3>4, WriterCounted
        <4>2. CountedIn(a, w)' = CountedIn(a, w) \ {c}
          BY <2>1, <3>4 DEF CountedIn
        <4>3. \/ quota'[a][w] = SatSub(quota[a][w], Estimate[c]) + cost[c]
              \/ quota'[a][w] = SatSub(quota[a][w], Estimate[c])
          BY <3>1, <4>1 DEF Consumed
        <4>4. SatSub(quota[a][w], Estimate[c]) >= Committed(CountedIn(a, w) \ {c})
              /\ SatSub(quota[a][w], Estimate[c]) \in Nat
          BY <1>t, <3>2, <4>1 DEF SatSub
        <4>5. quota'[a][w] >= Committed(CountedIn(a, w) \ {c})
          BY <3>2, <4>1, <4>3, <4>4
        <4> QED
          BY <4>2, <4>5
      <3> QED
        BY <3>3, <3>4
    <2> QED
      BY <2>2, <2>3
  <1> QED
    BY <1>0, <1>1, <1>2

\* When an operation begins, no other operation is between its read and its
\* write of a quota row.
LEMMA InFlightAlone ==
    ASSUME Control, NEW c \in Calls, NEW d \in Calls, d # c,
           lock = NoCall \/ lock = c
    PROVE  pc[d] # "quota"
  BY ConstantsAssumption DEF Control, LockInv, InOp

\* What an operation has read stays true until it writes.
LEMMA InFlightStep ==
    ASSUME Control, QuotaRespected, InFlight, [Next]_vars
    PROVE  InFlight'
  <1> DEFINE Fits(c) ==
        /\ op[c] = "reserve" =>
              quota[AccountOf[c]][started[c]] + Estimate[c] <= WindowBudget
        /\ op[c] = "settle" =>
              quota[AccountOf[c]][started[c]] + Excess(cost[c], Estimate[c])
                  <= WindowBudget + overrun[AccountOf[c]]
  <1> SUFFICES ASSUME ~Shadow, NEW d \in Calls, pc'[d] = "quota"
               PROVE  Fits(d)'
    BY DEF InFlight
  <1>t. /\ pc \in [Calls -> Points] /\ started \in [Calls -> Windows] /\ cost \in [Calls -> Nat]
        /\ op \in [Calls -> {"none", "reserve", "settle", "rollback"}]
        /\ overrun \in [Accounts -> Nat] /\ clock \in Windows
        /\ quota \in [Accounts -> [Windows -> Nat]]
    BY DEF Control, TypeOK
  <1>e. TypeOK
    BY DEF Control
  <1>a. AccountOf[d] \in Accounts /\ Estimate[d] \in Nat /\ Estimate[d] >= 1 /\ WindowBudget \in Nat
    BY ConstantsAssumption
  <1>f. pc[d] = "quota" => Fits(d)
    BY DEF InFlight
  <1>1. ASSUME pc[d] = "quota", op'[d] = op[d], started'[d] = started[d], cost'[d] = cost[d],
               quota' = quota, overrun' = overrun
        PROVE  Fits(d)'
    BY <1>1, <1>f
  <1> HIDE DEF Fits
  <1>2. CASE \E c \in Calls : BeginReserve(c)
    <2> PICK c \in Calls : BeginReserve(c)
      BY <1>2
    <2>1. d = c
      BY InFlightAlone, <1>t DEF BeginReserve
    <2>2. /\ op'[c] = "reserve" /\ started'[c] = clock /\ quota' = quota
          /\ ~(Estimate[c] > WindowRemaining(AccountOf[c], clock))
      BY <1>t DEF BeginReserve, OverBudget
    <2>3. quota[AccountOf[c]][clock] \in Nat
      BY <1>t, <1>a, <2>1
    <2>4. quota[AccountOf[c]][clock] + Estimate[c] <= WindowBudget
      BY <1>a, <2>1, <2>2, <2>3 DEF WindowRemaining, SatSub
    <2> QED
      BY <2>1, <2>2, <2>4 DEF Fits
  <1>3. CASE \E c \in Calls : \E x \in Costs : pc[c] \in Running /\ BeginSettle(c, x)
    <2> PICK c \in Calls, x \in Costs : pc[c] \in Running /\ BeginSettle(c, x)
      BY <1>3
    <2>1. d = c
      BY InFlightAlone, <1>t DEF BeginSettle
    <2>2. /\ op'[c] = "settle" /\ started' = started /\ quota' = quota /\ cost'[c] = x
      BY <1>t DEF BeginSettle
    <2>3. overrun'[AccountOf[c]] = overrun[AccountOf[c]] + Excess(x, Estimate[c])
      BY <1>e, <1>a, <2>1, SettleEffect
    <2>4. /\ quota[AccountOf[c]][started[c]] \in Nat /\ overrun[AccountOf[c]] \in Nat
          /\ quota[AccountOf[c]][started[c]] <= WindowBudget + overrun[AccountOf[c]]
      BY <1>t, <1>a, <2>1 DEF QuotaRespected
    <2>5. Excess(x, Estimate[c]) \in Nat
      BY <1>a, <2>1, ConstantsAssumption DEF Excess, SatSub
    <2>6. quota[AccountOf[c]][started[c]] + Excess(x, Estimate[c])
              <= WindowBudget + overrun'[AccountOf[c]]
      BY <1>a, <2>3, <2>4, <2>5
    <2> QED
      BY <2>1, <2>2, <2>6 DEF Fits, Excess, SatSub
  <1>4. CASE \E c \in Calls : pc[c] \in Running /\ BeginRollback(c)
    <2> PICK c \in Calls : pc[c] \in Running /\ BeginRollback(c)
      BY <1>4
    <2>1. d = c
      BY InFlightAlone, <1>t DEF BeginRollback
    <2>2. op'[c] = "rollback"
      BY <1>t DEF BeginRollback
    <2> QED
      BY <2>1, <2>2 DEF Fits
  <1>5. CASE \E c \in Calls : WriteQuota(c)
    <2> PICK c \in Calls : WriteQuota(c)
      BY <1>5
    <2>1. d # c /\ pc[d] = "quota"
      BY <1>t DEF WriteQuota
    <2>2. lock = c
      BY DEF WriteQuota, Control, LockInv, InOp
    <2> QED
      BY <2>1, <2>2, InFlightAlone
  <1>6. CASE \E c \in Calls : Leave(c) \/ WriteLedger(c) \/ WriteRefund(c) \/ OperationStops(c)
                \/ \E q \in Points : GoOn(c, q)
    <2> PICK c \in Calls : Leave(c) \/ WriteLedger(c) \/ WriteRefund(c) \/ OperationStops(c)
                \/ \E q \in Points : GoOn(c, q)
      BY <1>6
    <2>1. /\ \E q \in Points \ {"quota"} : pc' = [pc EXCEPT ![c] = q]
          /\ op' = op \/ \E o \in {"none", "settle"} : op' = [op EXCEPT ![c] = o]
          /\ UNCHANGED <<cost, started, quota, overrun>>
      BY DEF Leave, WriteLedger, WriteRefund, OperationStops, GoOn, budgetVars, Points
    <2>2. d # c /\ pc[d] = "quota" /\ op'[d] = op[d]
      BY <1>t, <2>1
    <2> QED
      BY <1>1, <2>1, <2>2
  <1>7. CASE Tick \/ UNCHANGED vars
    BY <1>1, <1>7 DEF Tick, vars, budgetVars
  <1> QED
    BY <1>2, <1>3, <1>4, <1>5, <1>6, <1>7, StepKinds

\* Every row stays within the window's budget and the overruns.
LEMMA RespectedStep ==
    ASSUME Control, QuotaCoversRunning, QuotaRespected, InFlight, [Next]_vars
    PROVE  QuotaRespected'
  <1> SUFFICES ASSUME ~Shadow, NEW a \in Accounts, NEW w \in Windows
               PROVE  quota'[a][w] <= WindowBudget + overrun'[a]
    BY DEF QuotaRespected
  <1>t. TypeOK /\ quota[a][w] \in Nat /\ overrun[a] \in Nat /\ WindowBudget \in Nat
    BY ConstantsAssumption DEF Control, TypeOK
  <1>r. quota[a][w] <= WindowBudget + overrun[a]
    BY DEF QuotaRespected
  <1>1. CASE \A c \in Calls : ~WriteQuota(c)
    <2>1. quota'[a][w] = quota[a][w]
      BY <1>1, CountedElsewhere
    <2>2. CASE \E c \in Calls : \E x \in Costs : pc[c] \in Running /\ BeginSettle(c, x)
      <3> PICK c \in Calls, x \in Costs : pc[c] \in Running /\ BeginSettle(c, x)
        BY <2>2
      <3>1. Excess(x, Estimate[c]) \in Nat
        BY ConstantsAssumption DEF Excess, SatSub
      <3>2. overrun'[a] = overrun[a] \/ overrun'[a] = overrun[a] + Excess(x, Estimate[c])
        BY <1>t, SettleEffect
      <3> QED
        BY <1>t, <1>r, <2>1, <3>1, <3>2
    <2>3. CASE ~\E c \in Calls : \E x \in Costs : pc[c] \in Running /\ BeginSettle(c, x)
      <3>1. overrun' = overrun
        BY <2>3, <1>1, StepKinds DEF Leave, GoOn, BeginReserve, BeginRollback, WriteLedger,
               WriteRefund, OperationStops, Tick, vars, budgetVars
      <3> QED
        BY <1>r, <2>1, <3>1
    <2> QED
      BY <2>2, <2>3
  <1>2. ASSUME NEW c \in Calls, WriteQuota(c)
        PROVE  quota'[a][w] <= WindowBudget + overrun'[a]
    <2>0. overrun' = overrun /\ pc[c] = "quota"
      BY <1>2 DEF WriteQuota
    <2>1. CASE ~(a = AccountOf[c] /\ w = started[c])
      BY <1>2, <1>t, <1>r, <2>0, <2>1, QuotaEffect
    <2>2. CASE a = AccountOf[c] /\ w = started[c]
      <3>1. quota'[a][w] = Consumed(c, quota[a][w])
        BY <1>2, <1>t, <2>2, QuotaEffect
      <3>2. Estimate[c] \in Nat /\ cost[c] \in Nat
        BY <1>t, ConstantsAssumption DEF TypeOK
      <3>3. /\ op[c] = "reserve" => quota[a][w] + Estimate[c] <= WindowBudget
            /\ op[c] = "settle" =>
                  quota[a][w] + Excess(cost[c], Estimate[c]) <= WindowBudget + overrun[a]
        BY <2>0, <2>2 DEF InFlight
      <3>4. CASE op[c] = "reserve"
        <4>1. quota'[a][w] = quota[a][w] + Estimate[c]
          BY <3>1, <3>4 DEF Consumed
        <4>2. quota[a][w] + Estimate[c] <= WindowBudget
          BY <3>3, <3>4
        <4> QED
          BY <1>t, <2>0, <3>2, <4>1, <4>2
      <3>5. CASE op[c] # "reserve"
        <4>1. /\ op[c] \in {"settle", "rollback"}
              /\ quota[a][w] >= Committed(CountedIn(a, w) \ {c}) + Estimate[c]
              /\ Committed(CountedIn(a, w) \ {c}) \in Nat
          BY <2>0, <2>2, <3>5, WriterCounted
        <4>2. quota[a][w] >= Estimate[c]
          BY <1>t, <3>2, <4>1
        <4>3. CASE op[c] = "rollback"
          <5>1. quota'[a][w] = SatSub(quota[a][w], Estimate[c])
            BY <3>1, <4>3 DEF Consumed
          <5> QED
            BY <1>t, <1>r, <2>0, <3>2, <4>2, <5>1 DEF SatSub
        <4>4. CASE op[c] = "settle"
          <5>1. quota'[a][w] = SatSub(quota[a][w], Estimate[c]) + cost[c]
            BY <3>1, <4>4 DEF Consumed
          <5>2. quota[a][w] + Excess(cost[c], Estimate[c]) <= WindowBudget + overrun[a]
            BY <3>3, <4>4
          <5> QED
            BY <1>t, <1>r, <2>0, <3>2, <4>2, <5>1, <5>2 DEF SatSub, Excess
        <4> QED
          BY <4>1, <4>3, <4>4
      <3> QED
        BY <3>4, <3>5
    <2> QED
      BY <2>1, <2>2
  <1> QED
    BY <1>1, <1>2

\* The quota rows at the start.
LEMMA QuotaInit ==
    ASSUME Init
    PROVE  QuotaCoversRunning /\ QuotaRespected /\ InFlight
  <1>1. \A a \in Accounts, w \in Windows : quota[a][w] = 0 /\ CountedIn(a, w) = {}
    BY DEF Init, CountedIn
  <1>2. Committed({}) = 0
    <2>1. Units({}) = {}
      BY DEF Units
    <2> QED
      BY <2>1, FS_EmptySet DEF Committed
  <1>3. QuotaCoversRunning
    BY <1>1, <1>2 DEF QuotaCoversRunning
  <1>4. \A a \in Accounts : overrun[a] = 0
    BY DEF Init
  <1>5. QuotaRespected
    BY <1>1, <1>4, ConstantsAssumption DEF QuotaRespected
  <1>6. InFlight
    BY DEF Init, InFlight
  <1> QED
    BY <1>3, <1>5, <1>6

\* Every quota row lies between what its running calls reserved and the window's
\* budget plus the overruns, for any calls, windows and budgets, with store
\* errors and cancellations between the writes of an operation.
THEOREM QuotaBounded == Spec => []QuotaHeld
  <1> DEFINE Inv == QuotaCoversRunning /\ QuotaRespected /\ InFlight
  <1>1. Init => Inv
    BY QuotaInit
  <1>2. Control /\ Inv /\ [Next]_vars => Inv'
    BY CoversStep, RespectedStep, InFlightStep
  <1>3. Inv => QuotaHeld
    BY DEF QuotaHeld
  <1> QED
    BY <1>1, <1>2, <1>3, ControlInvariant, PTL DEF Spec

-----------------------------------------------------------------------------
(* The budget as its callers see it *)

\* What BudgetAccount counts as reserved is the row's reserved_micros.
LEMMA PromisedReserved ==
    ASSUME Control, ReservedIsHeld, NEW a \in Accounts
    PROVE  Promised!Reserved(a) = account[a].reserved
  BY DEF Promised!Reserved, ReservedIsHeld, HeldBy

\* The calls that have not come to their reservation.
Unreserved == {c \in Calls : pc[c] \in {"start", "precharge"}}

\* What has been charged to each account.
Spent == [a \in Accounts |-> account[a].spent]

\* A step of the kernel is one of BudgetAccount, or nothing it shows.
LEMMA PromisedStep ==
    ASSUME Control, ReservedIsHeld, [Next]_vars
    PROVE  [Promised!AccountNext]_<<Unreserved, held, Spent>>
  <1>t. /\ pc \in [Calls -> Points] /\ held \subseteq Calls
        /\ account \in [Accounts -> [reserved : Nat, spent : Nat]]
    BY DEF Control, TypeOK
  <1>1. ASSUME NEW c \in Calls, NEW q, pc' = [pc EXCEPT ![c] = q],
               q \notin {"start", "precharge"}
        PROVE  Unreserved' = Unreserved \ {c}
    BY <1>1, <1>t DEF Unreserved
  <1>2. ASSUME account' = account PROVE Spent' = Spent
    BY <1>2 DEF Spent
  <1>3. ASSUME NEW c \in Calls, pc[c] \notin {"start", "precharge"}
        PROVE  Unreserved \ {c} = Unreserved
    BY <1>3 DEF Unreserved
  <1>4. CASE \E c \in Calls : pc[c] \notin InOp \cup {"ended"} /\ Leave(c)
    <2> PICK c \in Calls : pc[c] \notin InOp \cup {"ended"} /\ Leave(c)
      BY <1>4
    <2>1. pc' = [pc EXCEPT ![c] = "ended"] /\ held' = held /\ account' = account
      BY DEF Leave, budgetVars
    <2>2. Unreserved' = Unreserved \ {c} /\ Spent' = Spent
      BY <1>t, <1>2, <2>1 DEF Unreserved
    <2>3. CASE pc[c] \in {"start", "precharge"}
      <3>1. c \in Unreserved
        BY <2>3 DEF Unreserved
      <3>2. Promised!Refuse(c)
        BY <2>1, <2>2, <3>1 DEF Promised!Refuse, Unreserved, Spent
      <3> QED
        BY <3>2 DEF Promised!AccountNext
    <2>4. CASE pc[c] \notin {"start", "precharge"}
      BY <1>3, <2>1, <2>2, <2>4
    <2> QED
      BY <2>3, <2>4
  <1>5. CASE \E c \in Calls : \E q \in Points : GoOn(c, q)
    <2> PICK c \in Calls, q \in Points : GoOn(c, q)
      BY <1>5
    <2>1. /\ pc' = [pc EXCEPT ![c] = q] /\ held' = held /\ account' = account
          /\ pc[c] \in {"start", "precharge"} <=> q \in {"start", "precharge"}
      BY DEF GoOn, budgetVars
    <2>2. Unreserved' = Unreserved
      BY <1>t, <2>1 DEF Unreserved
    <2> QED
      BY <1>2, <2>1, <2>2
  <1>6. CASE \E c \in Calls : BeginReserve(c)
    <2> PICK c \in Calls : BeginReserve(c)
      BY <1>6
    <2> DEFINE a == AccountOf[c]
    <2>1. /\ pc[c] = "precharge" /\ pc' = [pc EXCEPT ![c] = "quota"] /\ ~OverBudget(c)
          /\ held' = held \cup {c}
      BY DEF BeginReserve
    <2>2. c \in Unreserved /\ Unreserved' = Unreserved \ {c}
      BY <1>1, <2>1 DEF Unreserved
    <2>3. Spent' = Spent
      BY ReserveEffect DEF Spent, Control
    <2>4. a \in Accounts /\ Estimate[c] \in Nat \ {0} /\ TotalBudget \in Nat
      BY ConstantsAssumption
    <2>5. account[a].spent \in Nat /\ account[a].reserved \in Nat
      BY <1>t, <2>4
    <2>6. Shadow \/ Estimate[c] + account[a].reserved + account[a].spent <= TotalBudget
      <3>1. Shadow \/ ~(Estimate[c] > SatSub(TotalBudget, account[a].spent + account[a].reserved))
        BY <2>1 DEF OverBudget, AccountRemaining
      <3> QED
        BY <2>4, <2>5, <3>1 DEF SatSub
    <2>7. Promised!Reserved(a) = account[a].reserved /\ Spent[a] = account[a].spent
      BY <2>4, PromisedReserved DEF Spent
    <2>8. Shadow \/ Promised!Fits(c)
      BY <2>6, <2>7 DEF Promised!Fits, Spent
    <2>9. Promised!Reserve(c)
      BY <2>1, <2>2, <2>3, <2>8 DEF Promised!Reserve, Unreserved, Spent
    <2> QED
      BY <2>9 DEF Promised!AccountNext
  <1>7. CASE \E c \in Calls : \E x \in Costs : pc[c] \in Running /\ BeginSettle(c, x)
    <2> PICK c \in Calls, x \in Costs : pc[c] \in Running /\ BeginSettle(c, x)
      BY <1>7
    <2>1. pc' = [pc EXCEPT ![c] = "quota"] /\ held' = held \ {c}
      BY DEF BeginSettle
    <2>2. c \in held /\ pc[c] \notin {"start", "precharge"}
      BY DEF Control, HeldInv, Running
    <2>3. Unreserved' = Unreserved
      BY <1>t, <2>1, <2>2 DEF Unreserved
    <2>4. \A b \in Accounts : account'[b].spent = IF b = AccountOf[c] THEN account[b].spent + x
                                                  ELSE account[b].spent
      BY SettleEffect DEF Control
    <2>5. Spent' = [Spent EXCEPT ![AccountOf[c]] = @ + x]
      BY <2>4 DEF Spent
    <2>6. Promised!Charge(c, x)
      BY <2>1, <2>2, <2>3, <2>5 DEF Promised!Charge, Unreserved, Spent
    <2> QED
      BY <2>6 DEF Promised!AccountNext
  <1>8. CASE \E c \in Calls : pc[c] \in Running /\ BeginRollback(c)
    <2> PICK c \in Calls : pc[c] \in Running /\ BeginRollback(c)
      BY <1>8
    <2>1. pc' = [pc EXCEPT ![c] = "quota"] /\ held' = held \ {c}
      BY DEF BeginRollback
    <2>2. c \in held /\ pc[c] \notin {"start", "precharge"}
      BY DEF Control, HeldInv, Running
    <2>3. Unreserved' = Unreserved
      BY <1>t, <2>1, <2>2 DEF Unreserved
    <2>4. Spent' = Spent
      BY RollbackEffect DEF Spent, Control
    <2>5. Promised!GiveBack(c)
      BY <2>1, <2>2, <2>3, <2>4 DEF Promised!GiveBack, Unreserved, Spent
    <2> QED
      BY <2>5 DEF Promised!AccountNext
  <1>9. CASE \E c \in Calls : WriteQuota(c) \/ WriteLedger(c) \/ WriteRefund(c) \/ OperationStops(c)
    <2> PICK c \in Calls : WriteQuota(c) \/ WriteLedger(c) \/ WriteRefund(c) \/ OperationStops(c)
      BY <1>9
    <2>1. /\ held' = held /\ account' = account /\ pc[c] \notin {"start", "precharge"}
          /\ \E q \in {"ledger", "admitted", "refund", "closing", "ended"} :
                pc' = [pc EXCEPT ![c] = q]
      BY DEF WriteQuota, WriteLedger, WriteRefund, OperationStops
    <2>2. Unreserved' = Unreserved
      BY <1>1, <1>3, <2>1
    <2> QED
      BY <1>2, <2>1, <2>2
  <1>10. CASE Tick \/ UNCHANGED vars
    BY <1>2, <1>10 DEF Tick, vars, budgetVars, Unreserved
  <1> QED
    BY <1>4, <1>5, <1>6, <1>7, <1>8, <1>9, <1>10, StepKinds

\* The kernel's budget implements BudgetAccount for any calls, accounts, costs and
\* limits: though an operation is several writes that may be cut short, a reservation
\* is checked against all that is open and spent, and ends in one charge or rollback
\* (KeepsBudgetPromise).
THEOREM BudgetPromiseKept == Spec => KeepsBudgetPromise
  <1>1. Init => Promised!AccountInit
    BY DEF Init, Promised!AccountInit
  <1>2. Reserved /\ [Next]_vars => [Promised!AccountNext]_<<Unreserved, held, Spent>>
    BY PromisedStep DEF Reserved
  <1>3. KeepsBudgetPromise <=>
          Promised!AccountInit /\ [][Promised!AccountNext]_<<Unreserved, held, Spent>>
    BY DEF KeepsBudgetPromise, Promised!AccountSpec, Promised!accountVars, Unreserved, Spent
  <1> QED
    BY <1>1, <1>2, <1>3, ReservedInvariant, PTL DEF Spec

-----------------------------------------------------------------------------
(* Why every call ends *)

\* How far a call has come in execute.
Stage(c) ==
    CASE pc[c] = "start"     -> 0
      [] pc[c] = "precharge" -> 1
      [] pc[c] = "quota"     -> IF op[c] = "reserve" THEN 2 ELSE 7
      [] pc[c] = "ledger"    -> IF op[c] = "reserve" THEN 3 ELSE 8
      [] pc[c] = "admitted"  -> 4
      [] pc[c] \in {"responded", "guarding"} -> 5
      [] pc[c] = "ran"       -> 6
      [] pc[c] = "refund"    -> 9
      [] pc[c] = "closing"   -> 10
      [] pc[c] = "ended"     -> 11

\* A call stays where it is or comes closer to its end, whoever steps.
CallsAdvance ==
    \A c \in Calls : (pc'[c] = pc[c] /\ op'[c] = op[c]) \/ Stage(c) < Stage(c)'

\* Whoever holds budget_lock is inside an operation whose next write waits for nothing.
HolderWrites ==
    lock # NoCall =>
        \/ pc[lock] = "quota" /\ op[lock] \in {"reserve", "settle", "rollback"}
        \/ pc[lock] = "ledger" /\ op[lock] \in {"reserve", "settle", "rollback"}
        \/ pc[lock] = "refund" /\ op[lock] = "settle"

\* A call whose place is the only thing that moved has come closer to its end.
LEMMA StageMoves ==
    ASSUME Control, NEW c \in Calls, NEW q \in Points,
           NEW o \in {"none", "reserve", "settle", "rollback"},
           pc' = [pc EXCEPT ![c] = q], op' = [op EXCEPT ![c] = o], Stage(c) < Stage(c)'
    PROVE  CallsAdvance
  <1>1. pc \in [Calls -> Points] /\ op \in [Calls -> {"none", "reserve", "settle", "rollback"}]
    BY DEF Control, TypeOK
  <1>2. \A d \in Calls : d # c => pc'[d] = pc[d] /\ op'[d] = op[d]
    BY <1>1
  <1> QED
    BY <1>2 DEF CallsAdvance

\* Every step moves at most one call, towards its end.
LEMMA AdvanceStep ==
    ASSUME Control, [Next]_vars
    PROVE  CallsAdvance
  <1>t. pc \in [Calls -> Points] /\ op \in [Calls -> {"none", "reserve", "settle", "rollback"}]
    BY DEF Control, TypeOK
  <1>1. ASSUME NEW c \in Calls, pc' = [pc EXCEPT ![c] = "ended"], pc[c] # "ended",
               op' = op \/ op' = [op EXCEPT ![c] = "none"]
        PROVE  CallsAdvance
    <2>1. Stage(c) < 11
      BY <1>t, <1>1 DEF Stage, Points
    <2>2. pc'[c] = "ended" /\ Stage(c)' = 11
      BY <1>t, <1>1 DEF Stage
    <2>3. \A d \in Calls : d # c => pc'[d] = pc[d] /\ op'[d] = op[d]
      BY <1>t, <1>1
    <2> QED
      BY <2>1, <2>2, <2>3 DEF CallsAdvance
  <1>2. ASSUME NEW c \in Calls, OperationStops(c) PROVE CallsAdvance
    BY <1>1, <1>2 DEF OperationStops
  <1>3. ASSUME NEW c \in Calls, pc[c] # "ended", Leave(c) PROVE CallsAdvance
    BY <1>1, <1>3 DEF Leave
  <1>4. ASSUME NEW c \in Calls, NEW q \in Points, GoOn(c, q) PROVE CallsAdvance
    <2>1. /\ pc' = [pc EXCEPT ![c] = q] /\ op' = op
          /\ <<pc[c], q>> \in {<<"start", "precharge">>, <<"admitted", "responded">>,
                               <<"admitted", "guarding">>, <<"guarding", "ran">>}
      BY <1>4 DEF GoOn
    <2>2. pc'[c] = q /\ \A d \in Calls : d # c => pc'[d] = pc[d]
      BY <1>t, <2>1
    <2>3. Stage(c) < Stage(c)'
      BY <2>1, <2>2 DEF Stage
    <2> QED
      BY <2>1, <2>2, <2>3 DEF CallsAdvance
  <1>5. ASSUME NEW c \in Calls, BeginReserve(c) PROVE CallsAdvance
    <2>1. /\ pc[c] = "precharge" /\ pc' = [pc EXCEPT ![c] = "quota"]
          /\ op' = [op EXCEPT ![c] = "reserve"]
      BY <1>5 DEF BeginReserve
    <2>2. Stage(c) < Stage(c)'
      BY <1>t, <2>1 DEF Stage
    <2> QED
      BY <2>1, <2>2, StageMoves DEF Points
  <1>6. ASSUME NEW c \in Calls, pc[c] \in Running, NEW o \in {"settle", "rollback"},
               pc' = [pc EXCEPT ![c] = "quota"], op' = [op EXCEPT ![c] = o]
        PROVE  CallsAdvance
    <2>1. pc'[c] = "quota" /\ op'[c] = o /\ o # "reserve"
      BY <1>t, <1>6
    <2>2. Stage(c)' = 7
      BY <2>1 DEF Stage
    <2>3. Stage(c) < 7
      BY <1>6 DEF Stage, Running
    <2> QED
      BY <1>6, <2>2, <2>3, StageMoves DEF Points
  <1>7. ASSUME NEW c \in Calls, WriteQuota(c) PROVE CallsAdvance
    <2>1. pc[c] = "quota" /\ pc' = [pc EXCEPT ![c] = "ledger"] /\ op' = op
      BY <1>7 DEF WriteQuota
    <2>2. pc'[c] = "ledger" /\ \A d \in Calls : d # c => pc'[d] = pc[d]
      BY <1>t, <2>1
    <2>3. Stage(c) < Stage(c)'
      BY <2>1, <2>2 DEF Stage
    <2> QED
      BY <2>1, <2>2, <2>3 DEF CallsAdvance
  <1>8. ASSUME NEW c \in Calls, WriteLedger(c) PROVE CallsAdvance
    <2>1. PICK q \in Points, o \in {"none", "settle"} :
             /\ pc[c] = "ledger" /\ pc' = [pc EXCEPT ![c] = q] /\ op' = [op EXCEPT ![c] = o]
             /\ IF op[c] = "reserve" THEN q = "admitted" ELSE q \in {"refund", "closing"}
      BY <1>8 DEF WriteLedger, Points
    <2>2. pc'[c] = q
      BY <1>t, <2>1
    <2>3. Stage(c) < Stage(c)'
      <3>1. CASE op[c] = "reserve"
        BY <2>1, <2>2, <3>1 DEF Stage
      <3>2. CASE op[c] # "reserve"
        BY <2>1, <2>2, <3>2 DEF Stage
      <3> QED
        BY <3>1, <3>2
    <2> QED
      BY <2>1, <2>3, StageMoves
  <1>9. ASSUME NEW c \in Calls, WriteRefund(c) PROVE CallsAdvance
    <2>1. /\ pc[c] = "refund" /\ pc' = [pc EXCEPT ![c] = "closing"]
          /\ op' = [op EXCEPT ![c] = "none"]
      BY <1>9 DEF WriteRefund
    <2>2. Stage(c) < Stage(c)'
      BY <1>t, <2>1 DEF Stage
    <2> QED
      BY <2>1, <2>2, StageMoves DEF Points
  <1>10. ASSUME Tick \/ UNCHANGED vars PROVE CallsAdvance
    BY <1>10 DEF Tick, vars, CallsAdvance
  <1> QED
    BY <1>2, <1>3, <1>4, <1>5, <1>6, <1>7, <1>8, <1>9, <1>10, StepKinds
    DEF BeginSettle, BeginRollback, InOp

\* What EveryCallEnds rests on, for any calls and faults: no step of any call sets
\* another back, each takes at most eleven of its own, and budget_lock is only ever
\* held by a call that can make its next write.
THEOREM CallsOnlyAdvance == Spec => [][CallsAdvance]_vars /\ []HolderWrites
  <1>1. Control => HolderWrites
    BY DEF Control, LockInv, HolderWrites, TypeOK, InOp
  <1>2. Control /\ [Next]_vars => [CallsAdvance]_vars
    BY AdvanceStep
  <1> QED
    BY <1>1, <1>2, ControlInvariant, PTL DEF Spec
=============================================================================
