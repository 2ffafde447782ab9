------------------------ MODULE MCInventoryWorkflow ------------------------
(* The instance of InventoryWorkflow that TLC checks. Its books and tabs    *)
(* are interchangeable, but a run that checks liveness uses no symmetry.    *)
EXTENDS InventoryWorkflow
=============================================================================
