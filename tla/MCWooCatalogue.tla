--------------------------- MODULE MCWooCatalogue ---------------------------
(* The catalogue with one task at a time and faults (the constants of the    *)
(* cfg), with two tasks, screens and the shop moving under each other, and,  *)
(* while the catalogue stands still, the rates: three over three days, then  *)
(* two of two amounts, typed anyhow, with failures of the shop and the       *)
(* nights.                                                                   *)
EXTENDS WooShop

Crossed == INSTANCE WooCatalogue WITH
    Tasks <- {1, 2}, MaxRuns <- 2, Varied <- {}, MaxEdits <- 0, MaxId <- 3

VARIABLE mode

Nights == INSTANCE VatRates WITH
    Amounts <- {5, 10}, Tasks <- VatTasks, MaxTime <- 2, MaxRates <- 2, MaxEdits <- 2,
    Faults <- TRUE, task <- vatTask

\* The catalogue stands still.
Start == Init /\ alone /\ active = [p \in Products |-> TRUE] /\ varOn = [p \in Varied |-> TRUE]

MCInit ==
    \/ mode = "alone" /\ Init /\ alone /\ Vat!Init /\ ~sloppy
    \/ mode = "crossed" /\ Crossed!Init /\ ~alone /\ Vat!Init /\ ~sloppy
    \/ mode = "rates" /\ Start /\ Vat!Init /\ ~sloppy
    \/ mode = "nights" /\ Start /\ Nights!Init /\ sloppy

MCNext ==
    /\ UNCHANGED mode
    /\ \/ mode = "alone" /\ Next /\ UNCHANGED vatVars
       \/ mode = "crossed" /\ Crossed!Next /\ UNCHANGED vatVars
       \/ mode = "rates" /\ Vat!Next /\ UNCHANGED vars
       \/ mode = "nights" /\ Nights!Next /\ UNCHANGED vars

Cron == mode = "nights" /\ (Nights!Nightly \/ Nights!Step("night"))
                        /\ UNCHANGED <<vars, mode, sloppy>>

MCSpec == MCInit /\ [][MCNext]_<<vars, vatVars, mode>> /\ WF_<<vars, vatVars, mode>>(Cron)

\* The nights reconcile the rates.
NightsReconcile == mode = "nights" => Nights!NightsReconcile
=============================================================================
