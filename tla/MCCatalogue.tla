---------------------------- MODULE MCCatalogue ----------------------------
(* Catalogue with imports and screens one after the other (the constants of  *)
(* the cfg), with tabs that act while an import runs, two rates, overlapping *)
(* periods and notices without a price, with two books and two imports, and  *)
(* with the suppliers alone, whose lines come in records of any length.      *)
EXTENDS Catalogue

CONSTANTS e1, e2, g1, g2, r1, r2, t1

VARIABLE mode

Crossed == INSTANCE Catalogue WITH
    Products <- {e1}, Rates <- {r1, r2}, Prices <- {1}, MaxDay <- 1, MaxRows <- 3, MaxImports <- 1,
    MaxLines <- 1, MaxSaves <- 2

Batch == INSTANCE Catalogue WITH
    Products <- {e1, e2}, Prices <- {1}, MaxDay <- 0, MaxImports <- 2

Distributors == INSTANCE Catalogue WITH
    Products <- {}, Clerks <- {}, Glns <- {g1, g2}, Rates <- {r1}, MaxDay <- 0, MaxLines <- 3,
    MaxSaves <- 1, MaxImports <- 2

MCInit ==
    /\ mode \in {"calm", "crossed", "batch", "distributors"}
    /\ calm = (mode # "crossed")
    /\ \/ mode = "calm" /\ CatalogueInit
       \/ mode = "crossed" /\ Crossed!CatalogueInit
       \/ mode = "batch" /\ Batch!CatalogueInit
       \/ mode = "distributors" /\ Distributors!CatalogueInit

MCNext ==
    /\ UNCHANGED mode
    /\ \/ mode = "calm" /\ CatalogueNext
       \/ mode = "crossed" /\ Crossed!CatalogueNext
       \/ mode = "batch" /\ Batch!CatalogueNext
       \/ mode = "distributors" /\ Distributors!CatalogueNext

MCSpec == MCInit /\ [][MCNext]_<<catalogueVars, mode>>
=============================================================================
