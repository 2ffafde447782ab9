------------------------------ MODULE WooShop ------------------------------
(* The two things the application keeps in the shop, each with tasks of its  *)
(* own that interleave with those of the other: the catalogue (WooCatalogue) *)
(* and the taxes of the rates of VAT (VatRates). No row and no endpoint of   *)
(* the shop belongs to both (services/woo_commerce/products).                *)
EXTENDS WooCatalogue

CONSTANTS Codes, Amounts, Labels,
          VatTasks,    \* requests that reconcile the rates
          Night,       \* the task of the cron
          MaxTime, MaxRates, MaxRequests, \* bounds of VatRates
          VatFaults    \* the shop refuses rates, or its answer is lost

ASSUME WooShopAssumption == MaxTime \in Nat

VARIABLES now, rates, taxes, classes, given, vatTask, edits, sloppy
vatVars == <<now, rates, taxes, classes, given, vatTask, edits, sloppy>>

Vat == INSTANCE VatRates WITH
    Tasks <- VatTasks, MaxEdits <- MaxRequests, Faults <- VatFaults, task <- vatTask

ShopInit == Init /\ Vat!Init

ShopNext == \/ Next /\ UNCHANGED vatVars
            \/ Vat!Next /\ UNCHANGED vars

ShopSpec == ShopInit /\ [][ShopNext]_<<vars, vatVars>>
-----------------------------------------------------------------------------
\* As long as the dates of a code are typed in order, no instant has two rates
\* of the same code (close_superseded_vat_rates).
OneRateInForce == Vat!OneRateInForce
=============================================================================
