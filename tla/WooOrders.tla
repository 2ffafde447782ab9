----------------------------- MODULE WooOrders -----------------------------
(***************************************************************************)
(* The customer orders of the ERP and their copies in the WooCommerce shop *)
(* (db_models/repositories/orders/woo.py,                                  *)
(* db_models/services/woo_commerce/orders.py).                             *)
(*                                                                         *)
(* The periodic task imports orders created through the REST API that      *)
(* it does not know, handles the recent orders of the shop's customers and *)
(* pushes the local orders; its session commits at each creation and at    *)
(* the end. A tab pushes one order and commits. A call is tried three      *)
(* times: when its answer is lost the shop may have obeyed.                *)
(*                                                                         *)
(* The shop is external: it obeys a PUT that names only lines of the       *)
(* order, keeps the lines a PUT does not name and answers the whole order. *)
(* Every order is recent, every line is of one product that the shop       *)
(* knows. Payments, which the ERP only logs, and refunds are left out.     *)
(* Tabs work between two tasks; customers at any time. When calm holds, it *)
(* does so for good.                                                       *)
(***************************************************************************)
EXTENDS Integers, Sequences, FiniteSets, FiniteSetsExt

CONSTANTS
    Orders,     \* bound: the rows of the table orders
    TypedIn,    \* bound: those the users create; the others are imports
    Absent,     \* not an order
    MaxRemote,  \* bound: the orders of the shop
    MaxLines,   \* bound: the lines of an order
    MaxLineId,  \* bound: the line identifiers the shop gives
    Fees,       \* whether a new order may have a shipping fee
    Replaces    \* a line of an order with a fee may be replaced between two pushes

ASSUME WooOrdersAssumption ==
    /\ TypedIn \subseteq Orders
    /\ Fees \subseteq BOOLEAN

VARIABLES
    orders,     \* the table orders, each row with its lines
    alerts,     \* orders with an open credit_note_required alert
    store,       \* the shop's orders, by identifier
    nextLine,   \* the next line identifier of the shop
    wanted,     \* history: the shop orders their customers cancelled
    edited,     \* history: the orders changed since their last successful push
    job,        \* the task
    calm        \* for good: no answer is lost, no task dies, customers cancel
                \* between two tasks an order that the ERP knows

orderVars == <<orders, alerts, store, nextLine, wanted, edited, job, calm>>

\* id and remote are 0 before the shop has given them. fee: the local fee line
\* has no identifier, or that of a shipping line, or that of a fee line.
LineRow == [active : BOOLEAN, id : 0 .. MaxLineId]
FeeLink == {"none", "new", "shipping", "linked"}
NoOrder == [status |-> "none", remote |-> 0, lines |-> <<>>, fee |-> "none", billed |-> FALSE]
Draft(r, ls, f) == [status |-> "draft", remote |-> r, lines |-> ls, fee |-> f, billed |-> FALSE]
\* rows, alerts: what the session of the task has not committed yet.
NoJob == [step |-> "idle", todo |-> {}, rows |-> <<>>, alerts |-> {}]

OrdersInit ==
    /\ orders = [o \in Orders |-> NoOrder]
    /\ alerts = {}
    /\ store = <<>>
    /\ nextLine = 1
    /\ wanted = {}
    /\ edited = {}
    /\ job = NoJob
    /\ calm \in BOOLEAN

Known(r) == {o \in Orders : orders[o].remote = r}
MaxLocal == Max({orders[o].remote : o \in Orders} \union {0})
Exists(o) == orders[o].status # "none"

-----------------------------------------------------------------------------
(* What a push sends and what it makes of the answer.                      *)

Ids(ls) == {ls[i].id : i \in {j \in DOMAIN ls : ls[j].active}} \ {0}
Removed(ls) == {ls[i].id : i \in {j \in DOMAIN ls : ~ls[j].active}} \ {0}
Unlinked(ls, n) == {j \in 1 .. n : ls[j].active /\ ls[j].id = 0}
WcStatus(row) == CASE row.status = "draft" -> "pending"
                   [] row.status = "billed" -> "completed"
                   [] row.status = "cancelled" -> "cancelled"

\* The numbers of S in ascending order.
Ascending(S) ==
    [i \in 1 .. Cardinality(S) |-> CHOOSE x \in S : Cardinality({y \in S : y < x}) = i - 1]

\* Mutant: a line of the shop may be given twice.
MutSyncLineIds(ls, remote, clear) ==
    LET spare == Ascending(remote)
        rank(i) == Cardinality(Unlinked(ls, i))
    IN [i \in DOMAIN ls |->
          CASE ls[i].active /\ ls[i].id = 0 /\ rank(i) <= Len(spare) ->
                    [ls[i] EXCEPT !.id = spare[rank(i)]]
            [] ~ls[i].active /\ clear -> [ls[i] EXCEPT !.id = 0]
            [] OTHER -> ls[i]]

\* The lines of the shop that no active line has, in their order, go to the
\* active lines without identifier; cancelled lines lose theirs at the end of
\* a successful push.
SyncLineIds(ls, remote, clear) ==
    LET spare == Ascending(remote \ Ids(ls))
        rank(i) == Cardinality(Unlinked(ls, i))
    IN [i \in DOMAIN ls |->
          CASE ls[i].active /\ ls[i].id = 0 /\ rank(i) <= Len(spare) ->
                    [ls[i] EXCEPT !.id = spare[rank(i)]]
            [] ~ls[i].active /\ clear -> [ls[i] EXCEPT !.id = 0]
            [] OTHER -> ls[i]]

\* An order with a fee line is first read again from the shop.
PreSync(row) == IF row.remote # 0 /\ row.fee # "none"
                THEN SyncLineIds(row.lines, store[row.remote].lines, FALSE)
                ELSE row.lines

\* A fee that is not linked is sent without identifier; the shipping line it
\* replaces is set to zero. The fee of a cancelled order is not sent.
NewFees(row) == IF row.status # "cancelled" /\ row.fee \in {"new", "shipping"} THEN 1 ELSE 0

Obeyed(row, ls, s, fresh, fees) ==
    [s EXCEPT !.status = WcStatus(row),
              !.lines = (@ \ Removed(ls)) \union fresh,
              !.shipping = @ /\ row.fee # "shipping",
              !.fees = @ + fees]

RestOrder(o) == [via |-> "rest-api", status |-> "pending", lines |-> {},
                 shipping |-> FALSE, fees |-> 0, of |-> o]

\* Mutant: a creation does not link the order.
MutAfterPush(row, ls, r, remote) ==
    [row EXCEPT !.lines = SyncLineIds(ls, remote, TRUE),
                !.fee = CASE @ = "none" -> "none"
                          [] @ # "none" /\ row.status = "cancelled" -> "new"
                          [] OTHER -> "linked"]

\* The row after an answer: a creation links the order, the answer is the
\* whole order; the fee takes the identifier of an unlinked fee line.
AfterPush(row, ls, r, remote) ==
    [row EXCEPT !.remote = r, !.lines = SyncLineIds(ls, remote, TRUE),
                !.fee = CASE @ = "none" -> "none"
                          [] @ # "none" /\ row.status = "cancelled" -> "new"
                          [] OTHER -> "linked"]

\* One push of row that the shop obeys n times: 0 when the call never reached
\* it, 2 when an answer was lost and the call was repeated; heard when the last
\* attempt was answered. A repeated creation makes another order, a repeated
\* removal names lines that are gone. A failure restores the row.
Push(o, row, n, heard) ==
    LET ls == PreSync(row)
        create == row.remote = 0
        known == create \/ Ids(ls) \union Removed(ls) \subseteq store[row.remote].lines
        done == IF ~known THEN 0 ELSE IF Removed(ls) # {} /\ n > 1 THEN 1 ELSE n
        new == Cardinality(Unlinked(ls, Len(ls)))
        fresh(k) == nextLine + (k - 1) * new .. nextLine + k * new - 1
        after == IF done = 0 THEN store
                 ELSE IF create
                 THEN store \o [k \in 1 .. done |-> Obeyed(row, ls, RestOrder(o), fresh(k), NewFees(row))]
                 ELSE [store EXCEPT ![row.remote] =
                         Obeyed(row, ls, @, UNION {fresh(k) : k \in 1 .. done}, done * NewFees(row))]
        r == IF create THEN Len(after) ELSE row.remote
        success == heard /\ done = n
    IN [store |-> after, nextLine |-> nextLine + done * new, success |-> success,
        row |-> IF success THEN AfterPush(row, ls, r, after[r].lines) ELSE row]

Calls == IF calm THEN {<<1, TRUE>>} ELSE (0 .. 2) \X {FALSE} \union (1 .. 2) \X {TRUE}
Fits(p) == Len(p.store) <= MaxRemote /\ p.nextLine <= MaxLineId + 1

\* The effects of the push p of order o other than on its row.
Pushed(o, p) ==
    /\ Fits(p)
    /\ store' = p.store
    /\ nextLine' = p.nextLine
    /\ edited' = IF p.success THEN edited \ {o} ELSE edited

-----------------------------------------------------------------------------
(* The customers.                                                          *)

NewStoreOrder(shipping) ==
    /\ Len(store) < MaxRemote /\ nextLine <= MaxLineId
    /\ store' = Append(store, [via |-> "store-api", status |-> "pending", lines |-> {nextLine},
                             shipping |-> shipping, fees |-> 0, of |-> Absent])
    /\ nextLine' = nextLine + 1
    /\ UNCHANGED <<orders, alerts, wanted, edited, job>>

\* Only the orders of the shop itself are read again, see HandleStore.
CancelByCustomer(r) ==
    /\ store[r].via = "store-api" /\ store[r].status # "cancelled"
    /\ calm => job = NoJob /\ Known(r) # {}
    /\ store' = [store EXCEPT ![r].status = "cancelled"]
    /\ wanted' = wanted \union {r}
    /\ UNCHANGED <<orders, alerts, nextLine, edited, job>>

-----------------------------------------------------------------------------
(* The tabs, between two tasks.                                            *)

Edit(o, row) ==
    /\ job = NoJob
    /\ orders' = [orders EXCEPT ![o] = row]
    /\ edited' = edited \union {o}
    /\ UNCHANGED <<store, nextLine, wanted, job>>

CreateOrder(o, fee) ==
    /\ ~Exists(o)
    /\ Edit(o, Draft(0, <<[active |-> TRUE, id |-> 0]>>, IF fee THEN "new" ELSE "none"))
    /\ UNCHANGED alerts

\* Unless Replaces, no new line next to a cancelled one that the shop still has:
\* the next synchronisation would give it the shop line of the cancelled one.
MayBe(row) == Replaces \/ row.fee = "none" \/ row.status = "cancelled"
              \/ Unlinked(row.lines, Len(row.lines)) = {} \/ Removed(row.lines) = {}

AddLine(o) ==
    /\ orders[o].status = "draft" /\ Len(orders[o].lines) < MaxLines
    /\ Edit(o, [orders[o] EXCEPT !.lines = Append(@, [active |-> TRUE, id |-> 0])])
    /\ MayBe(orders'[o])
    /\ UNCHANGED alerts

CancelLine(o, i) ==
    /\ orders[o].status = "draft" /\ orders[o].lines[i].active
    /\ Edit(o, [orders[o] EXCEPT !.lines[i].active = FALSE])
    /\ MayBe(orders'[o])
    /\ UNCHANGED alerts

Bill(o) ==
    /\ orders[o].status = "draft" /\ \E i \in DOMAIN orders[o].lines : orders[o].lines[i].active
    /\ Edit(o, [orders[o] EXCEPT !.status = "billed", !.billed = TRUE])
    /\ UNCHANGED alerts

Cancelled(row) ==
    [row EXCEPT !.status = "cancelled",
                !.lines = [i \in DOMAIN row.lines |-> [row.lines[i] EXCEPT !.active = row.billed /\ @]]]

\* A billed order keeps its lines and asks for a credit note.
CancelOrder(o) ==
    /\ orders[o].status \in {"draft", "billed"}
    /\ Edit(o, Cancelled(orders[o]))
    /\ alerts' = IF orders[o].billed THEN alerts \union {o} ELSE alerts

\* Its status would overwrite a cancellation that no task has read.
Unseen(o) == /\ orders[o].remote \in wanted
             /\ orders[o].status # "cancelled" /\ o \notin alerts

PushFromTab(o, c) ==
    /\ job = NoJob /\ Exists(o)
    /\ calm => ~Unseen(o)
    /\ LET p == Push(o, orders[o], c[1], c[2]) IN
       /\ Pushed(o, p)
       /\ orders' = [orders EXCEPT ![o] = p.row]
    /\ UNCHANGED <<alerts, wanted, job>>

-----------------------------------------------------------------------------
(* The task.                                                               *)

Held(o) == IF o \in DOMAIN job.rows THEN job.rows[o] ELSE orders[o]
Written(o, row) == [p \in DOMAIN job.rows \union {o} |-> IF p = o THEN row ELSE job.rows[p]]

\* A page that cannot be read counts as empty; the orders of a customer who
\* cannot be resolved are left out.
Fetched(S) == IF calm THEN {S} ELSE {{}, S}
Resolved(S) == IF calm THEN {S} ELSE SUBSET S

Start ==
    /\ job = NoJob
    /\ \E page \in Fetched({r \in DOMAIN store : store[r].via = "rest-api" /\ r > MaxLocal}) : \E todo \in Resolved(page) :
         job' = [NoJob EXCEPT !.step = "direct", !.todo = {[id |-> r, status |-> store[r].status] : r \in todo}]
    /\ UNCHANGED <<orders, alerts, store, nextLine, wanted, edited>>

\* The newest order comes first.
Latest == CHOOSE x \in job.todo : \A y \in job.todo : y.id <= x.id
Readable(x) == x.status # "completed"   \* its completion date is refused

\* The order x of the shop as a new row, which a commit writes with all that
\* the session holds.
Imported(x) == LET ids == Ascending(store[x.id].lines)
               IN  Draft(x.id, [i \in DOMAIN ids |-> [active |-> TRUE, id |-> ids[i]]],
                         IF store[x.id].shipping THEN "shipping" ELSE "none")
Committed == [o \in Orders |-> Held(o)]

ImportDirect ==
    /\ job.step = "direct" /\ job.todo # {}
    /\ IF Readable(Latest)
       THEN \E o \in Orders \ TypedIn :
              /\ ~Exists(o)
              /\ orders' = [Committed EXCEPT ![o] = Imported(Latest)]
       ELSE UNCHANGED orders
    /\ job' = [job EXCEPT !.todo = @ \ {Latest}]
    /\ UNCHANGED <<alerts, store, nextLine, wanted, edited>>

FetchStore ==
    /\ job.step = "direct" /\ job.todo = {}
    /\ \E page \in Fetched({r \in DOMAIN store : store[r].via = "store-api"}) : \E todo \in Resolved(page) :
         job' = [job EXCEPT !.step = "store", !.todo = {[id |-> r, status |-> store[r].status] : r \in todo}]
    /\ UNCHANGED <<orders, alerts, store, nextLine, wanted, edited>>

\* An order the ERP does not know becomes a draft, whatever its status, and is
\* pushed at once, which also turns its shipping line into a fee.
CreateFromStore(c) ==
    /\ job.step = "store" /\ job.todo # {}
    /\ \A o \in Orders : Held(o).remote # Latest.id
    /\ IF Readable(Latest)
       THEN \E o \in Orders \ TypedIn :
              LET row == Imported(Latest)
                  p == Push(o, row, c[1], c[2])
              IN /\ ~Exists(o)
                 /\ orders' = [Committed EXCEPT ![o] = row]
                 /\ alerts' = alerts \union job.alerts
                 /\ Pushed(o, p)
                 /\ job' = [job EXCEPT !.todo = @ \ {Latest}, !.alerts = {},
                                       !.rows = [q \in {o} |-> p.row]]
       ELSE /\ job' = [job EXCEPT !.todo = @ \ {Latest}]
            /\ UNCHANGED <<orders, alerts, store, nextLine, edited>>
    /\ UNCHANGED wanted

\* Mutant: no alert for an order that is no longer a draft.
MutHandleStore ==
    /\ job.step = "store" /\ job.todo # {}
    /\ \E o \in Orders :
         /\ Held(o).remote = Latest.id
         /\ job' = [job EXCEPT
              !.todo = @ \ {Latest},
              !.rows = IF Latest.status = "cancelled" /\ Held(o).status = "draft"
                       THEN Written(o, Cancelled(Held(o))) ELSE @,
              !.alerts = @]
         /\ edited' = IF job'.rows # job.rows THEN edited \union {o} ELSE edited
    /\ UNCHANGED <<orders, alerts, store, nextLine, wanted>>

\* Of a known order only the cancellation is taken over: a draft is cancelled,
\* anything else gets an alert.
HandleStore ==
    /\ job.step = "store" /\ job.todo # {}
    /\ \E o \in Orders :
         /\ Held(o).remote = Latest.id
         /\ job' = [job EXCEPT
              !.todo = @ \ {Latest},
              !.rows = IF Latest.status = "cancelled" /\ Held(o).status = "draft"
                       THEN Written(o, Cancelled(Held(o))) ELSE @,
              !.alerts = IF Latest.status = "cancelled" /\ Held(o).status # "draft"
                         THEN @ \union {o} ELSE @]
         /\ edited' = IF job'.rows # job.rows THEN edited \union {o} ELSE edited
    /\ UNCHANGED <<orders, alerts, store, nextLine, wanted>>

\* Every write of a row dates it after the synchronisation it notes: all
\* recent orders are pushed again.
StartPush ==
    /\ job.step = "store" /\ job.todo = {}
    /\ job' = [job EXCEPT !.step = "push", !.todo = {o \in Orders : Exists(o)}]
    /\ UNCHANGED <<orders, alerts, store, nextLine, wanted, edited>>

PushRecent(o, c) ==
    /\ job.step = "push" /\ o \in job.todo
    /\ LET p == Push(o, Held(o), c[1], c[2]) IN
       /\ Pushed(o, p)
       /\ job' = [job EXCEPT !.todo = @ \ {o}, !.rows = Written(o, p.row)]
    /\ UNCHANGED <<orders, alerts, wanted>>

FinishSync ==
    /\ job.step = "push" /\ job.todo = {}
    /\ orders' = Committed
    /\ alerts' = alerts \union job.alerts
    /\ job' = NoJob
    /\ UNCHANGED <<store, nextLine, wanted, edited>>

\* What is not committed is lost.
Die ==
    /\ ~calm /\ job # NoJob
    /\ job' = NoJob
    /\ edited' = edited \union DOMAIN job.rows
    /\ UNCHANGED <<orders, alerts, store, nextLine, wanted>>

OrdersNext ==
    /\ UNCHANGED calm
    /\ \/ \E f \in Fees : NewStoreOrder(f) \/ \E o \in TypedIn : CreateOrder(o, f)
       \/ \E r \in DOMAIN store : CancelByCustomer(r)
       \/ \E o \in Orders : AddLine(o) \/ Bill(o) \/ CancelOrder(o)
       \/ \E o \in Orders : \E i \in DOMAIN orders[o].lines : CancelLine(o, i)
       \/ \E o \in Orders, c \in Calls : PushFromTab(o, c) \/ PushRecent(o, c)
       \/ \E c \in Calls : CreateFromStore(c)
       \/ Start \/ ImportDirect \/ FetchStore \/ HandleStore \/ StartPush \/ FinishSync \/ Die

OrdersSpec == OrdersInit /\ [][OrdersNext]_orderVars

-----------------------------------------------------------------------------
\* No two orders of the ERP are linked to the same order of the shop, whatever
\* is lost: the unique constraint of the table never refuses a commit, which
\* would take the rest of the task with it. And when the behaviour is calm, an
\* order the ERP created in the shop is linked to the order it was created
\* from and to no other: no import takes it for a new one
\* (import_new_direct_orders).
OneToOne ==
    /\ \A o, p \in DOMAIN orders :
         (orders[o].remote # 0 /\ orders[o].remote = orders[p].remote) => o = p
    /\ (calm /\ job = NoJob) => \A r \in DOMAIN store :
         store[r].via = "rest-api" =>
           {o \in DOMAIN orders : orders[o].remote = r} = {store[r].of}

\* When the behaviour is calm, a cancellation by the customer is still shown by
\* the shop, or has cancelled the order, or has raised an alert: no push wipes
\* it out unseen (run_full_sync handles the shop's orders before it pushes).
CancellationIsSeen ==
    (calm /\ job = NoJob) => \A r \in wanted :
      \/ store[r].status = "cancelled"
      \/ \E o \in DOMAIN orders :
           orders[o].remote = r /\ (orders[o].status = "cancelled" \/ o \in alerts)

\* When the behaviour is calm and no line of an order with a fee is replaced
\* between two pushes: after a successful push and until the next edit the
\* lines of the shop order are the active ones of the ERP, and the customer is
\* charged the shipping fee once, as a fee or as a shipping line (push_order,
\* _post_push_sync).
PushedMatches ==
    (calm /\ ~Replaces /\ job = NoJob) => \A o \in DOMAIN orders \ edited :
      LET row == orders[o] IN
      row.remote # 0 =>
        LET s == store[row.remote] IN
        /\ s.lines = Ids(row.lines) /\ Unlinked(row.lines, Len(row.lines)) = {}
        /\ row.status # "cancelled" =>
             s.fees + (IF s.shipping THEN 1 ELSE 0) = (IF row.fee = "none" THEN 0 ELSE 1)
=============================================================================
