-------------------------- MODULE MCSupplierOrders --------------------------
(* SupplierOrders in its two environments: one careful tab at a time works  *)
(* on every order (calm); all tabs at once, with any entry and workers that *)
(* die, work on one order only, with fewer lines.                           *)
EXTENDS SupplierOrders, TLC

Concurrent(o) == INSTANCE SupplierOrders WITH
    Orders <- {o}, Objects <- Counted, InitialStock <- 1, MaxLines <- 2

Untouched(o) == orders[o] = [state |-> "none", kind |-> "CMD"]

MCNext ==
    \/ calm /\ Next
    \/ ~calm /\ \E o \in Orders : (\A p \in Orders \ {o} : Untouched(p)) /\ Concurrent(o)!Next

MCSpec == Init /\ [][MCNext]_vars

\* Tabs and orders are interchangeable.
Symmetry == Permutations(Orders) \union Permutations(Tabs)
=============================================================================
