---------------------------- MODULE MCCustomers ----------------------------
(* Customers with one push at a time whose answers all arrive (the          *)
(* constants of the cfg), and with two tabs that overlap, lost answers,     *)
(* processes that die and rows without a name. A third instance has         *)
(* addresses that move from one customer or account to another.             *)
EXTENDS Customers

CONSTANTS m1, m2, tab, task

VARIABLE mode

Hasty == INSTANCE Customers WITH
    Mails <- {m1}, Names <- {"own", "none"}, Tabs <- Syncers, MaxCustomers <- 2,
    MaxAccounts <- 1, MaxCopies <- 2, MaxPushes <- 1

Moving == INSTANCE Customers WITH
    Names <- {"own"}, Syncers <- {task}, Tabs <- {}, MaxCustomers <- 2, MaxAccounts <- 1,
    MaxCopies <- 1

MCInit ==
    /\ mode \in {"calm", "hasty", "moving"}
    /\ calm = (mode # "hasty") /\ stays = (mode # "moving")
    /\ IF mode = "moving" THEN Moving!CustomersInit ELSE CustomersInit

MCNext ==
    /\ UNCHANGED mode
    /\ \/ mode = "calm" /\ CustomersNext
       \/ mode = "hasty" /\ Hasty!CustomersNext
       \/ mode = "moving" /\ Moving!CustomersNext

MCSpec == MCInit /\ [][MCNext]_<<customerVars, mode>>
=============================================================================
