---------------------------- MODULE BudgetAccount ----------------------------
(***************************************************************************)
(* What the budget of the runtime kernel promises its callers: a call       *)
(* reserves its estimate at most once, in one step with the check that it   *)
(* fits beside everything spent and reserved, and then is charged once or   *)
(* gives the reservation back.  The row of reserved_micros, the lock and    *)
(* the separate writes of an operation are not seen.                        *)
(***************************************************************************)
EXTENDS Naturals

CONSTANTS Calls, Accounts, AccountOf, Estimate, Costs, TotalBudget, Shadow,
          Committed(_)    \* the sum of the estimates of a set of calls

VARIABLES fresh,          \* calls that have not come to their reservation
          open,           \* calls with an open reservation
          spent           \* micros charged to each account

accountVars == <<fresh, open, spent>>

Reserved(a) == Committed({c \in open : AccountOf[c] = a})

AccountInit == fresh = Calls /\ open = {} /\ spent = [a \in Accounts |-> 0]

Fits(c) == Estimate[c] + Reserved(AccountOf[c]) + spent[AccountOf[c]] <= TotalBudget

Reserve(c) ==
    /\ c \in fresh /\ (Shadow \/ Fits(c))
    /\ fresh' = fresh \ {c} /\ open' = open \cup {c}
    /\ UNCHANGED spent

\* The call is refused, or gives up, before it has reserved.
Refuse(c) == c \in fresh /\ fresh' = fresh \ {c} /\ UNCHANGED <<open, spent>>

Charge(c, x) ==
    /\ c \in open
    /\ open' = open \ {c} /\ spent' = [spent EXCEPT ![AccountOf[c]] = @ + x]
    /\ UNCHANGED fresh

GiveBack(c) == c \in open /\ open' = open \ {c} /\ UNCHANGED <<fresh, spent>>

AccountNext ==
    \E c \in Calls : \/ Reserve(c) \/ Refuse(c) \/ GiveBack(c)
                     \/ \E x \in Costs : Charge(c, x)

AccountSpec == AccountInit /\ [][AccountNext]_accountVars
=============================================================================
