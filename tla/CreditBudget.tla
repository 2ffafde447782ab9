---------------------------- MODULE CreditBudget ----------------------------
(***************************************************************************)
(* What HenrriMonthlyCredits promises, with no reservation, process or     *)
(* failure in sight: in each UTC month at most Limit business writes reach *)
(* Henrri, the consumption declared by the environment for one month       *)
(* (HENRRI_MONTHLY_CREDIT_INITIAL_USED) included.                          *)
(***************************************************************************)
EXTENDS Integers

CONSTANTS
    Months,         \* the calendar months the budget is kept for
    Limit,          \* HENRRI_CREDIT_LIMIT
    Seed(_)         \* the consumption a month starts with

VARIABLE spent      \* month -> business writes charged to its budget

Init == spent = [m \in Months |-> Seed(m)]

\* Henrri executes one more business write on the budget of month m.
Spend(m) ==
    /\ spent[m] < Limit
    /\ spent' = [spent EXCEPT ![m] = @ + 1]

Next == \E m \in Months : Spend(m)

Spec == Init /\ [][Next]_spent
=============================================================================
