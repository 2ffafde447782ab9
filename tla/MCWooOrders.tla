---------------------------- MODULE MCWooOrders ----------------------------
(* WooOrders under three environments, told apart by mode: calm (the        *)
(* constants of the cfg); lost answers, dying tasks and hasty customers;    *)
(* the same on one order with a fee and replaced lines.                     *)
EXTENDS WooOrders, TLC

CONSTANTS o1, i1

VARIABLE mode

Faulty == INSTANCE WooOrders WITH
    Orders <- {o1, i1}, TypedIn <- {o1}, MaxRemote <- 2, MaxLines <- 1,
    MaxLineId <- 2, Fees <- {FALSE}, Replaces <- FALSE

Replacing == INSTANCE WooOrders WITH
    Orders <- {o1}, TypedIn <- {o1}, MaxRemote <- 1, MaxLines <- 2, MaxLineId <- 3,
    Fees <- {TRUE}, Replaces <- TRUE

MCInit == OrdersInit /\ mode \in {"calm", "faulty", "replacing"} /\ (calm <=> mode = "calm")

MCNext ==
    /\ UNCHANGED mode
    /\ \/ mode = "calm" /\ OrdersNext
       \/ mode = "faulty" /\ Faulty!OrdersNext
       \/ mode = "replacing" /\ Replacing!OrdersNext

MCSpec == MCInit /\ [][MCNext]_<<orderVars, mode>>
=============================================================================
