-------------------------- MODULE InventoryWorkflow --------------------------
(***************************************************************************)
(* Inventories of the shop (app_back/v1/inventory.py, behind the page of   *)
(* app_front/static/js/inventory), against the movements that the orders,  *)
(* returns and reservations write, one copy at a time, and against the     *)
(* correction of zero prices, which clones an inventory.                   *)
(*                                                                         *)
(*   - a tab scans the shelves, asks for the theoretical stock, then       *)
(*     validates the gaps; a thread of app_back commits one inventory      *)
(*     movement per book and reports through one status file, which the    *)
(*     tab polls;                                                          *)
(*   - the stock of a book is its last inventory and the movements since,  *)
(*     so an inventory makes the earlier movements forgotten.              *)
(*                                                                         *)
(* The ledger of a book is kept as these sums. Prices, categories and      *)
(* unknown EANs are left out. The shelves are external.                    *)
(***************************************************************************)
EXTENDS Integers

CONSTANTS
    Objects,        \* general_objects
    Tabs,           \* browser tabs, each with one thread of app_back
    InitialStock,   \* what the last inventory of every object counted
    MaxMoves,       \* bound: copies on order, received, sent back or lost at a time
    MaxCopies,      \* bound: no copy is ordered for a book that has as many
    Closed,         \* nothing is moved in the shop during an inventory
    Careful,        \* operators avoid the two operations that miscount
    Faults          \* commits fail, a status is read while it is written

ASSUME InventoryAssumption ==
    /\ InitialStock \in Nat /\ MaxMoves \in Nat /\ MaxCopies \in Nat
    /\ Closed \in BOOLEAN /\ Careful \in BOOLEAN /\ Faults \in BOOLEAN

VARIABLES
    ledger,     \* object -> its last inventory and the sums since, by type
    due,        \* object -> copies that pending order lines wait for
    aside,      \* object -> copies held by reservations
    shelf,      \* object -> copies on the shelves
    lost,       \* history: object -> copies lost since its last inventory
    tabs,       \* tab -> the step of the page
    threads,    \* tab -> its commit thread
    status,     \* the status file
    alone       \* history: tab -> no other commit ran since it started its own

vars == <<ledger, due, aside, shelf, lost, tabs, threads, status, alone>>
shop == <<due, aside, shelf>>
stock == <<ledger, shop, lost>>

Sums == [inventory : Int, in : Int, out : Int, reserved : Int, pending : Int]

\* The lines of an inventory: the books they are of, their theoretical and
\* real stock.
Lines == [of : SUBSET Objects, th : [Objects -> Int], real : [Objects -> Int]]
Tab == [at : {"home", "polling", "success", "failed"}]
       \union [at : {"counted"}, complete : BOOLEAN, scanned : SUBSET Objects,
               count : [Objects -> Nat]]
       \union [at : {"prepared"}, lines : Lines]
Thread == [at : {"idle", "removing", "reporting"}, ok : BOOLEAN]
          \union [at : {"starting", "applying"}, ok : {FALSE}, lines : Lines]

TypeOK ==
    /\ ledger \in [Objects -> Sums]
    /\ due \in [Objects -> Nat] /\ aside \in [Objects -> Nat]
    /\ shelf \in [Objects -> Nat] /\ lost \in [Objects -> Nat]
    /\ tabs \in [Tabs -> Tab]
    /\ threads \in [Tabs -> Thread]
    /\ status \in {"none", "running", "error"}
    /\ alone \in [Tabs -> BOOLEAN]

Inventoried(qty) == [inventory |-> qty, in |-> 0, out |-> 0, reserved |-> 0, pending |-> 0]

Init ==
    /\ ledger = [o \in Objects |-> Inventoried(InitialStock)]
    /\ due = [o \in Objects |-> 0] /\ aside = [o \in Objects |-> 0]
    /\ shelf = [o \in Objects |-> InitialStock]
    /\ lost = [o \in Objects |-> 0]
    /\ tabs = [t \in Tabs |-> [at |-> "home"]]
    /\ threads = [t \in Tabs |-> [at |-> "idle", ok |-> FALSE]]
    /\ status = "none"
    /\ alone = [t \in Tabs |-> FALSE]

-----------------------------------------------------------------------------
(* The ledger.                                                             *)

\* A movement stamped with the present time.
Record(sums, type, qty) ==
    IF type = "inventory" THEN Inventoried(qty) ELSE [sums EXCEPT ![type] = @ + qty]

\* get_qty_by_id, with and without theorical.
Stock(o) == ledger[o].inventory + ledger[o].in - ledger[o].out - ledger[o].reserved
TheoreticalStock(o) == Stock(o) + ledger[o].pending

InventoryInProgress ==
    \E t \in Tabs : \/ tabs[t].at \in {"counted", "prepared", "polling"}
                    \/ threads[t].at # "idle"

-----------------------------------------------------------------------------
(* The shop, one copy at a time.                                           *)

Open == Closed => ~InventoryInProgress

\* A line of a supplier order.
OrderCopy(o) ==
    /\ Open
    /\ due[o] < MaxMoves /\ due[o] + shelf[o] + aside[o] < MaxCopies
    /\ due' = [due EXCEPT ![o] = @ + 1]
    /\ ledger' = [ledger EXCEPT ![o] = Record(@, "pending", 1)]
    /\ UNCHANGED <<aside, shelf, lost, tabs, threads, status, alone>>

\* receive_order_line: the pending movement is compensated.
ReceiveCopy(o) ==
    /\ Open
    /\ due[o] > 0 /\ ledger[o].in < MaxMoves
    /\ due' = [due EXCEPT ![o] = @ - 1]
    /\ shelf' = [shelf EXCEPT ![o] = @ + 1]
    /\ ledger' = [ledger EXCEPT ![o] = Record(Record(@, "pending", -1), "in", 1)]
    /\ UNCHANGED <<aside, lost, tabs, threads, status, alone>>

\* A line of a reservation: an available copy is taken off its shelf.
ReserveCopy(o) ==
    /\ Open
    /\ Stock(o) > 0 /\ shelf[o] > 0
    /\ aside' = [aside EXCEPT ![o] = @ + 1]
    /\ shelf' = [shelf EXCEPT ![o] = @ - 1]
    /\ ledger' = [ledger EXCEPT ![o] = Record(@, "reserved", 1)]
    /\ UNCHANGED <<due, lost, tabs, threads, status, alone>>

\* return_reservation.
ReleaseCopy(o) ==
    /\ Open
    /\ aside[o] > 0
    /\ aside' = [aside EXCEPT ![o] = @ - 1]
    /\ shelf' = [shelf EXCEPT ![o] = @ + 1]
    /\ ledger' = [ledger EXCEPT ![o] = Record(@, "reserved", -1)]
    /\ UNCHANGED <<due, lost, tabs, threads, status, alone>>

\* A line of a supplier return.
SendBackCopy(o) ==
    /\ Open
    /\ shelf[o] > 0 /\ ledger[o].out < MaxMoves
    /\ shelf' = [shelf EXCEPT ![o] = @ - 1]
    /\ ledger' = [ledger EXCEPT ![o] = Record(@, "out", 1)]
    /\ UNCHANGED <<due, aside, lost, tabs, threads, status, alone>>

\* A copy leaves without a movement: what inventories are made for.
LoseCopy(o) ==
    /\ Open
    /\ shelf[o] > 0 /\ lost[o] < MaxMoves
    /\ shelf' = [shelf EXCEPT ![o] = @ - 1]
    /\ lost' = [lost EXCEPT ![o] = @ + 1]
    /\ UNCHANGED <<ledger, due, aside, tabs, threads, status, alone>>

-----------------------------------------------------------------------------
(* The page of inventories.                                                *)

Goto(t, page) == tabs' = [tabs EXCEPT ![t] = page]

\* The copies of the books S are scanned; a complete inventory scans them all.
\* A book with no copy cannot be scanned.
Count(t, S, complete) ==
    /\ tabs[t].at = "home"
    /\ S \subseteq {o \in Objects : shelf[o] > 0}
    /\ IF complete THEN \A o \in Objects \ S : shelf[o] = 0 ELSE S # {}
    /\ Goto(t, [at |-> "counted", complete |-> complete,
                scanned |-> S, count |-> shelf])
    /\ UNCHANGED <<stock, threads, status, alone>>

\* The real stock of a book that was not scanned: none, unless the theoretical
\* stock is negative, which is then taken as it is.
Unscanned(o) == IF TheoreticalStock(o) < 0 THEN TheoreticalStock(o) ELSE 0

\* prepare_inventory.
Prepare(t) ==
    LET q == tabs[t] IN
    /\ q.at = "counted"
    /\ Careful /\ q.complete => \A o \in Objects \ q.scanned : TheoreticalStock(o) >= 0
    /\ Goto(t, [at |-> "prepared", lines |->
         [of   |-> IF q.complete THEN Objects ELSE q.scanned,
          th   |-> [o \in Objects |-> TheoreticalStock(o)],
          real |-> [o \in Objects |-> IF o \in q.scanned THEN q.count[o] ELSE Unscanned(o)]]])
    /\ UNCHANGED <<stock, threads, status, alone>>

\* Mutation of StartCommit: the thread starts without a first status.
MutStartCommit(t) ==
    /\ tabs[t].at = "prepared"
    /\ threads[t].at = "idle"
    /\ threads' = [threads EXCEPT ![t] = [at |-> "applying", ok |-> FALSE, lines |-> tabs[t].lines]]
    /\ alone' = [u \in Tabs |-> u = t /\ \A v \in Tabs : threads[v].at = "idle"]
    /\ Goto(t, [at |-> "polling"])
    /\ UNCHANGED <<stock, status>>

\* validate_inventory, then commit_inventory starts the thread.
StartCommit(t) ==
    /\ tabs[t].at = "prepared"
    /\ threads[t].at = "idle"
    /\ threads' = [threads EXCEPT ![t] = [at |-> "starting", ok |-> FALSE, lines |-> tabs[t].lines]]
    /\ alone' = [u \in Tabs |-> u = t /\ \A v \in Tabs : threads[v].at = "idle"]
    /\ Goto(t, [at |-> "polling"])
    /\ UNCHANGED <<stock, status>>

\* A thread is about to write the file, which it first empties.
Torn == Faults /\ \E t \in Tabs : threads[t].at \in {"applying", "reporting"}

\* inventory_status and _poll. The thread has written its first status when
\* the first poll comes, three seconds after the start.
Poll(t) ==
    /\ tabs[t].at = "polling"
    /\ threads[t].at # "starting"
    /\ \/ (status = "none" \/ Torn) /\ Goto(t, [at |-> "success"])
       \/ status = "error" /\ Goto(t, [at |-> "failed"])
    /\ UNCHANGED <<stock, threads, status, alone>>

Leave(t) ==
    /\ tabs[t].at \in {"counted", "prepared", "success", "failed"}
    /\ Goto(t, [at |-> "home"])
    /\ UNCHANGED <<stock, threads, status, alone>>

-----------------------------------------------------------------------------
(* _run_commit.                                                            *)

\* _write_status, before the first movement and after each.
WriteRunning(t) ==
    /\ threads[t].at \in {"starting", "applying"}
    /\ threads' = [threads EXCEPT ![t].at = "applying"]
    /\ status' = "running"
    /\ UNCHANGED <<stock, tabs, alone>>

\* The movement that explains the gap.
Explain(sums, th, real) ==
    CASE real > th -> Record(sums, "in", real - th)
      [] real < th -> Record(sums, "out", th - real)
      [] OTHER     -> sums

\* Mutation of Settle: the gap is recorded after the inventory.
MutSettle(sums, th, real) == Explain(Record(sums, "inventory", real), th, real)

\* The movements planned for a book, in the order of the plan.
Settle(sums, th, real) == Record(Explain(sums, th, real), "inventory", real)

\* The transaction commits: all the books of the inventory at once.
Apply(t) ==
    LET lines == threads[t].lines IN
    /\ threads[t].at = "applying"
    /\ ledger' = [o \in Objects |->
          IF o \in lines.of THEN Settle(ledger[o], lines.th[o], lines.real[o])
                                   ELSE ledger[o]]
    /\ lost' = [o \in Objects |-> IF o \in lines.of THEN 0 ELSE lost[o]]
    /\ threads' = [threads EXCEPT ![t] = [at |-> "removing", ok |-> TRUE]]
    /\ UNCHANGED <<shop, tabs, status, alone>>

\* The transaction fails and is rolled back.
Rollback(t) ==
    /\ Faults
    /\ threads[t].at = "applying"
    /\ threads' = [threads EXCEPT ![t] = [at |-> "removing", ok |-> FALSE]]
    /\ UNCHANGED <<stock, tabs, status, alone>>

\* finally: the file is removed, whoever wrote it; then the error is reported.
RemoveStatus(t) ==
    /\ threads[t].at = "removing"
    /\ status' = "none"
    /\ threads' = [threads EXCEPT ![t].at = IF threads[t].ok THEN "idle" ELSE "reporting"]
    /\ UNCHANGED <<stock, tabs, alone>>

\* The last except of _run_commit.
ReportError(t) ==
    /\ threads[t].at = "reporting"
    /\ status' = "error"
    /\ threads' = [threads EXCEPT ![t].at = "idle"]
    /\ UNCHANGED <<stock, tabs, alone>>

-----------------------------------------------------------------------------
(* The page of zero prices.                                                *)

\* Nothing that counts was recorded since the last inventory.
Unmoved(o) == Stock(o) = ledger[o].inventory

\* clone_movement_with_updated_price: the last inventory again, stamped now.
CorrectPrice(o) ==
    /\ Careful => Unmoved(o)
    /\ ledger' = [ledger EXCEPT ![o] = Record(@, "inventory", @.inventory)]
    /\ UNCHANGED <<shop, lost, tabs, threads, status, alone>>

-----------------------------------------------------------------------------
Trade(o) ==
    \/ OrderCopy(o) \/ ReceiveCopy(o) \/ ReserveCopy(o) \/ ReleaseCopy(o)
    \/ SendBackCopy(o) \/ LoseCopy(o) \/ CorrectPrice(o)

Page(t) ==
    \/ \E S \in SUBSET Objects, complete \in BOOLEAN : Count(t, S, complete)
    \/ Prepare(t) \/ StartCommit(t) \/ Poll(t) \/ Leave(t)

Finish(t) == Apply(t) \/ Rollback(t) \/ RemoveStatus(t) \/ ReportError(t)

Next ==
    \/ \E o \in Objects : Trade(o)
    \/ \E t \in Tabs : Page(t) \/ WriteRunning(t) \/ Finish(t)

Spec == Init /\ [][Next]_vars

\* A thread runs to its end, and a page polls every three seconds.
FairSpec ==
    /\ Spec
    /\ \A t \in Tabs :
         /\ WF_vars(Finish(t) \/ (threads[t].at = "starting" /\ WriteRunning(t)))
         /\ WF_vars(Poll(t))

-----------------------------------------------------------------------------
(* Properties.                                                             *)

\* The stock is what stands on the shelves and what was lost since the last
\* inventory: an inventory forgets the losses it saw and nothing else, however
\* orders, reservations, failed commits and several inventories follow.
StockIsShelf == \A o \in Objects : Stock(o) = shelf[o] + lost[o]

\* The commit of t is over, and nothing of it was recorded.
RolledBack(t) == threads[t].at = "idle" /\ ~threads[t].ok

\* A page whose commit meets no other does not wait for ever, whether the
\* commit succeeds or fails; and it is told of a failure only when its own
\* transaction is over and was rolled back, not because of the error that an
\* earlier commit left in the file: the operator who starts again does not
\* record the same gaps twice. (No such thing holds of a success, which the
\* page reads in the absence of the file: it is removed before the error is
\* written, and a file being written is read as absent.)
CommitsAreReported ==
    /\ \A t \in Tabs : tabs[t].at = "polling" ~> tabs[t].at # "polling" \/ ~alone[t]
    /\ [][\A t \in Tabs : tabs[t].at = "polling" /\ tabs'[t].at = "failed" /\ alone[t]
                         => RolledBack(t)]_vars
=============================================================================
