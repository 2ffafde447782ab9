------------------------- MODULE MCHenrriDocuments -------------------------
(* HenrriDocuments in two environments, told apart by calm: refusals only,   *)
(* one worker at a time (the constants of the cfg), and every failure with   *)
(* two workers on different invoices.                                        *)
EXTENDS HenrriDocuments, TLC

CONSTANTS i1, i2, c1, p1, p2, w1, w2

Failing == INSTANCE HenrriDocuments WITH
    Invoices <- {i1}, Customers <- {c1}, Products <- {p1, p2}, Workers <- {w1, w2},
    MaxLogs <- 2, MaxRemote <- 2

MCInit == (UploadsInit /\ calm) \/ (Failing!UploadsInit /\ ~calm /\ apart)

MCNext == IF calm THEN UploadsNext ELSE Failing!UploadsNext

MCSpec == MCInit /\ [][MCNext]_uploadVars
=============================================================================
