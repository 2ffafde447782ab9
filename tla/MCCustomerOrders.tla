-------------------------- MODULE MCCustomerOrders --------------------------
(* CustomerOrders with careful users, one tab at a time and workers that    *)
(* live (serial, with the constants of the cfg), and without, on one order: *)
(* in one tab, where lines are cut, and in two tabs that race on two lines. *)
EXTENDS CustomerOrders, TLC

CONSTANTS o1, a1, t1, t2

VARIABLE mode

Crashing == INSTANCE CustomerOrders WITH
    Orders <- {o1}, TypedIn <- {o1}, Addresses <- {a1},
    Prices <- 1, MaxQty <- 2, MaxLines <- 2, MaxReserved <- 2, MaxShipped <- 2,
    MaxInvoices <- 2, Discounts <- {FALSE}, Fees <- BOOLEAN, Tabs <- {t1}

\* Two valid prices: every addition creates two lines.
Racing == INSTANCE CustomerOrders WITH
    Orders <- {o1}, TypedIn <- {o1}, Addresses <- {a1},
    Prices <- 2, MaxQty <- 1, MaxLines <- 2, MaxReserved <- 2, MaxShipped <- 1,
    MaxInvoices <- 2, Discounts <- {FALSE}, Fees <- {FALSE}, Tabs <- {t1, t2}

MCInit ==
    \/ mode = "serial" /\ Init /\ serial
    \/ mode = "crashing" /\ Crashing!Init /\ ~serial
    \/ mode = "racing" /\ Racing!Init /\ ~serial

MCNext ==
    /\ UNCHANGED mode
    /\ \/ mode = "serial" /\ Next
       \/ mode = "crashing" /\ Crashing!Next
       \/ mode = "racing" /\ Racing!Next

MCSpec == MCInit /\ [][MCNext]_<<vars, mode>>

\* Tabs are interchangeable.
Symmetry == Permutations({t1, t2})
=============================================================================
