--------------------------- MODULE CustomerOrders ---------------------------
(***************************************************************************)
(* The customer order: its lines and their stock reservations, its         *)
(* invoices, shipments, cancellation and return                            *)
(* (app_front/blueprints/order, db_models/repositories/orders).            *)
(*                                                                         *)
(* A tab posts one request at a time. Its worker reads the order (one      *)
(* SQLAlchemy session, READ COMMITTED), checks it and writes in one or     *)
(* several commits; the end of the request commits whatever is still       *)
(* pending, even when the answer is an error message                       *)
(* (app_front/main.py, cleanup_session). A worker may die between two      *)
(* commits. Between CommitInvoice and Mark it calls Henrri, for minutes    *)
(* when Henrri is slow: HenrriDocuments models those calls.                *)
(*                                                                         *)
(* A behaviour is serial when users are careful, one tab works at a time   *)
(* and no worker dies. Careful users neither remove a line that is no      *)
(* longer a draft (in a second tab) nor ship a line in part.               *)
(*                                                                         *)
(* One article. Amounts and the split of the shipping fee between VAT      *)
(* rates are left out: one fee line stands for them.                       *)
(***************************************************************************)
EXTENDS Integers, Sequences, FiniteSets, SequencesExt, FiniteSetsExt

CONSTANTS
    Orders,     \* bound: the rows of the table orders
    TypedIn,    \* bound: those the users create; the others are returns
    Absent,     \* not an order
    Addresses,  \* the active delivery addresses of the customer
    Prices,     \* valid prices of the article: one line is created for each
    MaxQty,     \* bound: the largest quantity of a form
    MaxLines,   \* bound: the rows of order_lines
    MaxReserved, \* bound: no line is edited when the reservation is above
    MaxShipped, \* bound: no line is shipped again when it was shipped that much
    MaxInvoices, \* bound: the rows of invoices
    Discounts,  \* whether a line may have a discount
    Fees,       \* whether an invoice may have a shipping fee
    Tabs

ASSUME CustomerOrdersAssumption ==
    /\ Absent \notin Orders /\ TypedIn \subseteq Orders
    /\ Addresses # {}
    /\ {Prices, MaxQty, MaxLines, MaxReserved, MaxShipped, MaxInvoices} \subseteq Nat \ {0}
    /\ Discounts \subseteq BOOLEAN /\ Fees \subseteq BOOLEAN

VARIABLES
    orders,     \* order -> its row, of status "none" before it is created
    lines,      \* order_lines, in creation order
    reserved,   \* order -> sum of its "reserved" inventory movements
    invoices,   \* invoices with their invoice_lines, in creation order
    shipped,    \* order line -> quantity of its shipment_lines
    alerts,     \* orders with an open credit_note_required alert
    request,    \* tab -> the request its worker is busy with
    serial      \* careful users, one tab at a time, no worker dies

vars == <<orders, lines, reserved, invoices, shipped, alerts, request, serial>>

OrderStatus == {"draft", "invoiced", "shipped", "partial_invoiced",
                "partial_shipped", "cancelled"}
LineStatus == {"draft", "invoiced", "shipped", "cancelled"}

OrderRow == [status : OrderStatus \union {"none"}, returnOf : Orders \union {Absent},
             address : Addresses]
LineRow == [order : Orders, qty : Int, status : LineStatus, fee : BOOLEAN,
            discount : BOOLEAN]
\* items: order line -> quantity of its invoice line.
InvoiceItems == UNION {[S -> -MaxQty .. MaxQty] : S \in SUBSET (1 .. MaxLines)}
InvoiceRow == [order : Orders, number : Nat \ {0}, items : InvoiceItems]

LineIds == 1 .. Len(lines)
LinesOf(o) == {l \in LineIds : lines[l].order = o}
Billed(o) == {l \in LinesOf(o) : lines[l].status \in {"invoiced", "shipped"}}
Room(n) == Len(lines) + n <= MaxLines
Exists(o) == orders[o].status # "none"
QtySum(S, rows) == SumFunctionOnSet([l \in DOMAIN rows |-> rows[l].qty], S)
AbsVal(n) == IF n < 0 THEN -n ELSE n

Idle == [op |-> "idle"]
Free(t) == request[t].op = "idle"
Quiet == \A t \in Tabs : Free(t)
Starts(t) == Free(t) /\ (serial => Quiet)
Bounded(o) == AbsVal(reserved[o]) <= MaxReserved
Posts(t, r) == request' = [request EXCEPT ![t] = r]
Ends(t) == Posts(t, Idle)

Init ==
    /\ \E a \in Addresses :
         orders = [o \in Orders |-> [status |-> "none", returnOf |-> Absent, address |-> a]]
    /\ lines = <<>>
    /\ reserved = [o \in Orders |-> 0]
    /\ invoices = <<>>
    /\ shipped = [l \in 1 .. MaxLines |-> 0]
    /\ alerts = {}
    /\ request = [t \in Tabs |-> Idle]
    /\ serial \in BOOLEAN

-----------------------------------------------------------------------------
(* The order and its lines.                                                *)

\* The invoice address is the customer's default one; the reference is built
\* from the identifier the flush returned, in the same commit.
CreateOrder(t, o, a) ==
    /\ Starts(t) /\ ~Exists(o)
    /\ orders' = [orders EXCEPT ![o] = [status |-> "draft", returnOf |-> Absent, address |-> a]]
    /\ UNCHANGED <<lines, reserved, invoices, shipped, alerts, request>>

BeginAddress(t, o, a) ==
    /\ Starts(t) /\ orders[o].status = "draft"
    /\ Posts(t, [op |-> "address", order |-> o, address |-> a])
    /\ UNCHANGED <<orders, lines, reserved, invoices, shipped, alerts>>

CommitAddress(t) ==
    LET r == request[t] IN
    /\ r.op = "address"
    /\ orders' = [orders EXCEPT ![r.order].address = r.address]
    /\ Ends(t)
    /\ UNCHANGED <<lines, reserved, invoices, shipped, alerts>>

\* One line for each valid price, each with the whole quantity. The status of
\* the order is not looked at. The lines are committed first, ...
AddLine(t, o, q, d) ==
    /\ Starts(t) /\ Exists(o) /\ Room(Prices) /\ Bounded(o)
    /\ lines' = lines \o [i \in 1 .. Prices |-> [order |-> o, qty |-> q, status |-> "draft",
                                                 fee |-> FALSE, discount |-> d]]
    /\ Posts(t, [op |-> "reserve", order |-> o, qty |-> Prices * q])
    /\ UNCHANGED <<orders, reserved, invoices, shipped, alerts>>

\* ... their reservations when the request ends.
Reserve(t) ==
    LET r == request[t] IN
    /\ r.op = "reserve"
    /\ reserved' = [reserved EXCEPT ![r.order] = @ + r.qty]
    /\ Ends(t)
    /\ UNCHANGED <<orders, lines, invoices, shipped, alerts>>

BeginRemove(t, l) ==
    /\ Starts(t) /\ l \in LineIds /\ Bounded(lines[l].order)
    /\ serial => lines[l].status = "draft"
    /\ Posts(t, [op |-> "remove", order |-> lines[l].order, line |-> l, row |-> lines[l]])
    /\ UNCHANGED <<orders, lines, reserved, invoices, shipped, alerts>>

\* The releasing movement is added to the session before remove_line refuses a
\* line that is no longer draft: the end of the request commits it anyway. The
\* movement of a fee line has no article and is rejected by the database.
CommitRemove(t) ==
    LET r == request[t] IN
    /\ r.op = "remove"
    /\ IF r.row.fee
       THEN UNCHANGED <<lines, reserved>>
       ELSE /\ reserved' = [reserved EXCEPT ![r.order] = @ - r.row.qty]
            /\ lines' = IF r.row.status = "draft"
                        THEN [lines EXCEPT ![r.line].status = "cancelled"] ELSE lines
    /\ Ends(t)
    /\ UNCHANGED <<orders, invoices, shipped, alerts>>

BeginUpdate(t, l, q, d) ==
    /\ Starts(t) /\ l \in LineIds /\ Bounded(lines[l].order)
    /\ lines[l].status = "draft" /\ ~lines[l].fee /\ q * lines[l].qty > 0
    /\ orders[lines[l].order].status = "draft"
    /\ Posts(t, [op |-> "update", order |-> lines[l].order, line |-> l, row |-> lines[l],
                 qty |-> q, discount |-> d])
    /\ UNCHANGED <<orders, lines, reserved, invoices, shipped, alerts>>

CommitUpdate(t) ==
    LET r == request[t] IN
    /\ r.op = "update"
    /\ lines' = [lines EXCEPT ![r.line].qty = r.qty, ![r.line].discount = r.discount]
    /\ reserved' = [reserved EXCEPT ![r.order] = @ + (r.qty - r.row.qty)]
    /\ Ends(t)
    /\ UNCHANGED <<orders, invoices, shipped, alerts>>

-----------------------------------------------------------------------------
(* Invoicing.                                                              *)

ValidQuantity(available, requested) ==
    IF available > 0 THEN requested \in 1 .. available ELSE requested \in available .. -1

\* The checks, the Henrri credit check included: the order is read before it.
BeginInvoice(t, o, items, fee) ==
    /\ Starts(t) /\ Exists(o) /\ orders[o].status # "invoiced"
    /\ \A l \in DOMAIN items : /\ lines[l].status = "draft" /\ ~lines[l].fee
                               /\ ValidQuantity(lines[l].qty, items[l])
    /\ Len(invoices) < MaxInvoices /\ Room(IF fee THEN 1 ELSE 0)
    /\ Posts(t, [op |-> "number", order |-> o, items |-> items, fee |-> fee])
    /\ UNCHANGED <<orders, lines, reserved, invoices, shipped, alerts>>

Numbers == {invoices[i].number : i \in DOMAIN invoices}
\* The unique constraint of invoices.reference.
MutNumberTaken(n) == FALSE      \* mutation: no constraint
NumberTaken(n) == n \in Numbers
LastNumber == IF Numbers = {} THEN 0 ELSE CHOOSE n \in Numbers : \A m \in Numbers : m <= n

\* The highest reference of the month, plus one.
GenerateReference(t) ==
    LET r == request[t] IN
    /\ r.op = "number"
    /\ Posts(t, [op |-> "invoice", order |-> r.order, items |-> r.items, fee |-> r.fee,
                 number |-> LastNumber + 1])
    /\ UNCHANGED <<orders, lines, reserved, invoices, shipped, alerts>>

FeeLine(o, items) == [order |-> o, qty |-> IF \A l \in DOMAIN items : items[l] < 0 THEN -1 ELSE 1,
                      status |-> "draft", fee |-> TRUE, discount |-> FALSE]

\* The invoice, its lines and the fee line in one commit. The reference is
\* unique: the second worker to use a number rolls everything back.
CommitInvoice(t) ==
    LET r == request[t]
        f == Len(lines) + 1
        feeRow == FeeLine(r.order, r.items)
        items == IF r.fee THEN [l \in DOMAIN r.items \union {f} |->
                                 IF l = f THEN feeRow.qty ELSE r.items[l]]
                 ELSE r.items
    IN
    /\ r.op = "invoice"
    /\ IF NumberTaken(r.number)
       THEN Ends(t) /\ UNCHANGED <<lines, invoices>>
       ELSE /\ Len(invoices) < MaxInvoices /\ Room(IF r.fee THEN 1 ELSE 0)
            /\ lines' = IF r.fee THEN Append(lines, feeRow) ELSE lines
            /\ invoices' = Append(invoices, [order |-> r.order, number |-> r.number,
                                             items |-> items])
            /\ Posts(t, [op |-> "mark", order |-> r.order, items |-> items,
                         todo |-> DOMAIN items, pending |-> {}])
    /\ UNCHANGED <<orders, reserved, shipped, alerts>>

WithStatus(S, status) ==
    [l \in LineIds |-> IF l \in S THEN [lines[l] EXCEPT !.status = status] ELSE lines[l]]

\* Mutation of RestOf: the rest is the whole quantity.
MutRestOf(l, q) == [lines[l] EXCEPT !.status = "draft", !.discount = FALSE]

\* What cut_line_for_invoice creates: neither the discount nor the variation.
RestOf(l, q) == [lines[l] EXCEPT !.qty = lines[l].qty - q, !.status = "draft", !.discount = FALSE]

\* _mark_invoice_lines, one line at a time: a partly invoiced line is cut, which
\* commits everything marked so far; the line itself is marked after the commit.
MarkLine(t, l) ==
    LET r == request[t]
        row == lines[l]
        marked == r.pending \union {l}
    IN
    /\ r.op = "mark" /\ l \in r.todo
    /\ \/ /\ row.fee \/ row.qty = r.items[l]
          /\ Posts(t, [r EXCEPT !.todo = @ \ {l}, !.pending = marked])
          /\ UNCHANGED lines
       \/ /\ ~row.fee /\ row.qty # r.items[l] /\ ValidQuantity(row.qty, r.items[l]) /\ Room(1)
          /\ lines' = Append([WithStatus(r.pending, "invoiced") EXCEPT ![l].qty = r.items[l]],
                             RestOf(l, r.items[l]))
          /\ Posts(t, [r EXCEPT !.todo = @ \ {l}, !.pending = {l}])
       \/ /\ ~row.fee /\ row.qty # r.items[l] /\ ~ValidQuantity(row.qty, r.items[l])
          /\ lines' = WithStatus(r.pending, "invoiced")
          /\ Ends(t)
    /\ UNCHANGED <<orders, reserved, invoices, shipped, alerts>>

\* Mutation of CommitMarks: the order is recalculated, the marks are not written.
MutCommitMarks(t) ==
    LET r == request[t] IN
    /\ r.op = "mark" /\ r.todo = {}
    /\ Posts(t, [op |-> "recalculate", order |-> r.order])
    /\ UNCHANGED <<orders, lines, reserved, invoices, shipped, alerts>>

CommitMarks(t) ==
    LET r == request[t] IN
    /\ r.op = "mark" /\ r.todo = {}
    /\ lines' = WithStatus(r.pending, "invoiced")
    /\ Posts(t, [op |-> "recalculate", order |-> r.order])
    /\ UNCHANGED <<orders, reserved, invoices, shipped, alerts>>

\* The statuses of the article lines that are not cancelled decide; drafts only,
\* or no line at all, keep the status.
StatusFromLines(o) ==
    LET statuses == {lines[l].status : l \in {m \in LinesOf(o) : ~lines[m].fee}} \ {"cancelled"}
    IN  CASE statuses = {"shipped"} -> "shipped"
          [] "shipped" \in statuses /\ statuses # {"shipped"} -> "partial_shipped"
          [] statuses = {"invoiced"} -> "invoiced"
          [] "invoiced" \in statuses /\ "shipped" \notin statuses /\ statuses # {"invoiced"}
               -> "partial_invoiced"
          [] OTHER -> orders[o].status

RecalculateStatus(t) ==
    LET o == request[t].order IN
    /\ request[t].op = "recalculate"
    /\ orders' = [orders EXCEPT ![o].status = StatusFromLines(o)]
    /\ Ends(t)
    /\ UNCHANGED <<lines, reserved, invoices, shipped, alerts>>

-----------------------------------------------------------------------------
(* Shipping.                                                               *)

\* Mutation of BeginShip: the status of the lines is not checked.
MutBeginShip(t, o, items) ==
    /\ Starts(t) /\ Exists(o)
    /\ \A l \in DOMAIN items : ~lines[l].fee /\ ValidQuantity(lines[l].qty, items[l])
    /\ \A l \in DOMAIN items : AbsVal(shipped[l]) < MaxShipped
    /\ Posts(t, [op |-> "ship", order |-> o, items |-> items])
    /\ UNCHANGED <<orders, lines, reserved, invoices, shipped, alerts>>

BeginShip(t, o, items) ==
    /\ Starts(t) /\ Exists(o)
    /\ \A l \in DOMAIN items : /\ lines[l].status = "invoiced" /\ ~lines[l].fee
                               /\ ValidQuantity(lines[l].qty, items[l])
                               /\ serial => items[l] = lines[l].qty
                               /\ AbsVal(shipped[l]) < MaxShipped  \* bound
    /\ Posts(t, [op |-> "ship", order |-> o, items |-> items])
    /\ UNCHANGED <<orders, lines, reserved, invoices, shipped, alerts>>

CommitShipment(t) ==
    LET r == request[t] IN
    /\ r.op = "ship"
    /\ shipped' = [l \in DOMAIN shipped |->
                     shipped[l] + (IF l \in DOMAIN r.items THEN r.items[l] ELSE 0)]
    /\ Posts(t, [r EXCEPT !.op = "markshipped"])
    /\ UNCHANGED <<orders, lines, reserved, invoices, alerts>>

\* A line shipped in part stays "invoiced", with its whole quantity.
MarkShipped(t) ==
    LET r == request[t]
        whole == {l \in DOMAIN r.items : r.items[l] = lines[l].qty}
    IN
    /\ r.op = "markshipped"
    /\ lines' = WithStatus(whole, "shipped")
    /\ Posts(t, [op |-> "recalculate", order |-> r.order])
    /\ UNCHANGED <<orders, reserved, invoices, shipped, alerts>>

-----------------------------------------------------------------------------
(* Cancellation and return.                                                *)

ReturnOf(o) == {r \in Orders : orders[r].returnOf = o}

\* The rows of create_return_order for the lines of rows at ids, in any order.
ReturnLines(r, rows, ids) ==
    [i \in 1 .. Cardinality(ids) |->
        [rows[SetToSeq(ids)[i]] EXCEPT !.order = r, !.qty = -AbsVal(@), !.status = "draft"]]

BeginCancel(t, o) ==
    /\ Starts(t) /\ Exists(o) /\ orders[o].status # "cancelled"
    /\ Posts(t, [op |-> "cancel", order |-> o, rows |-> lines])
    /\ UNCHANGED <<orders, lines, reserved, invoices, shipped, alerts>>

\* Draft lines are cancelled and released; for the billed ones the order gets a
\* draft return order, once. A fee line makes the commit fail: its return line
\* and its movement would have no article.
CommitCancel(t) ==
    LET r == request[t]
        o == r.order
        mine == {l \in DOMAIN r.rows : r.rows[l].order = o}
        draft == {l \in mine : r.rows[l].status = "draft"}
        billed == {l \in mine : r.rows[l].status \in {"invoiced", "shipped"}}
        returns == billed # {} /\ ReturnOf(o) = {}
    IN
    /\ r.op = "cancel"
    /\ IF \E l \in draft \union (IF returns THEN billed ELSE {}) : r.rows[l].fee
       THEN UNCHANGED <<orders, lines, reserved>>
       ELSE /\ reserved' = [reserved EXCEPT ![o] = @ - QtySum(draft, r.rows)]
            /\ \/ /\ ~returns
                  /\ orders' = [orders EXCEPT ![o].status = "cancelled"]
                  /\ lines' = WithStatus(draft, "cancelled")
               \/ /\ returns /\ Room(Cardinality(billed))
                  /\ \E n \in Orders :
                       /\ ~Exists(n) /\ n \notin TypedIn
                       /\ orders' = [orders EXCEPT ![o].status = "cancelled",
                                       ![n] = [status |-> "draft", returnOf |-> o,
                                               address |-> orders[o].address]]
                       /\ lines' = WithStatus(draft, "cancelled")
                                     \o ReturnLines(n, r.rows, billed)
    /\ Ends(t)
    /\ UNCHANGED <<invoices, shipped, alerts>>

\* WooCommerce reports a cancellation of an order that has billed lines: an
\* alert is opened, the order is left to the shop.
RaiseAlert(o) ==
    /\ Exists(o) /\ Billed(o) # {} /\ o \notin alerts /\ ReturnOf(o) = {}
    /\ alerts' = alerts \union {o}
    /\ UNCHANGED <<orders, lines, reserved, invoices, shipped, request>>

CreateReturn(t, o) ==
    /\ Starts(t) /\ o \in alerts
    /\ \/ ReturnOf(o) # {} /\ UNCHANGED <<orders, lines>>
       \/ /\ ReturnOf(o) = {} /\ Room(Cardinality(Billed(o)))
          /\ Billed(o) # {} /\ \A l \in Billed(o) : ~lines[l].fee
          /\ \E n \in Orders :
               /\ ~Exists(n) /\ n \notin TypedIn
               /\ orders' = [orders EXCEPT ![n] = [status |-> "draft", returnOf |-> o,
                                                   address |-> orders[o].address]]
               /\ lines' = lines \o ReturnLines(n, lines, Billed(o))
    /\ alerts' = alerts \ {o}
    /\ UNCHANGED <<reserved, invoices, shipped, request>>

\* Before its first commit a worker that dies has done nothing.
Crash(t) ==
    /\ ~serial
    /\ request[t].op \in {"reserve", "mark", "markshipped", "recalculate"}
    /\ Ends(t)
    /\ UNCHANGED <<orders, lines, reserved, invoices, shipped, alerts>>

-----------------------------------------------------------------------------
Quantities == (-MaxQty .. MaxQty) \ {0}
\* A selection in the forms of an order: some of its lines with quantities.
Selections(o) == UNION {[S -> Quantities] : S \in (SUBSET LinesOf(o)) \ {{}}}

Next ==
    /\ UNCHANGED serial
    /\ \/ \E t \in Tabs :
            \/ \E o \in TypedIn, a \in Addresses : CreateOrder(t, o, a)
            \/ \E o \in TypedIn, a \in Addresses : BeginAddress(t, o, a)
            \/ \E o \in Orders, q \in 1 .. MaxQty, d \in Discounts : AddLine(t, o, q, d)
            \/ \E l \in LineIds : BeginRemove(t, l)
            \/ \E l \in LineIds, q \in Quantities, d \in Discounts : BeginUpdate(t, l, q, d)
            \/ \E o \in Orders : \E items \in Selections(o) :
                 \/ \E fee \in Fees : BeginInvoice(t, o, items, fee)
                 \/ BeginShip(t, o, items)
            \/ \E o \in Orders : BeginCancel(t, o) \/ CreateReturn(t, o)
            \/ CommitAddress(t) \/ Reserve(t) \/ CommitRemove(t) \/ CommitUpdate(t)
            \/ GenerateReference(t) \/ CommitInvoice(t)
            \/ \E l \in LineIds : MarkLine(t, l)
            \/ CommitMarks(t) \/ RecalculateStatus(t)
            \/ CommitShipment(t) \/ MarkShipped(t) \/ CommitCancel(t) \/ Crash(t)
       \/ \E o \in Orders : RaiseAlert(o)

Spec == Init /\ [][Next]_vars

-----------------------------------------------------------------------------
(* Properties.                                                             *)

\* ids: the rows of order_lines.
RequestsOn(ids) ==
    {Idle}
    \union [op : {"address"}, order : Orders, address : Addresses]
    \union [op : {"reserve"}, order : Orders, qty : Int]
    \union [op : {"remove"}, order : Orders, line : ids, row : LineRow]
    \union [op : {"update"}, order : Orders, line : ids, row : LineRow, qty : Int,
            discount : BOOLEAN]
    \union [op : {"number"}, order : Orders, items : InvoiceItems, fee : BOOLEAN]
    \union [op : {"invoice"}, order : Orders, items : InvoiceItems, fee : BOOLEAN,
            number : Nat \ {0}]
    \union [op : {"mark"}, order : Orders, items : InvoiceItems,
            todo : SUBSET (1 .. MaxLines), pending : SUBSET (1 .. MaxLines)]
    \union [op : {"recalculate"}, order : Orders]
    \union [op : {"ship", "markshipped"}, order : Orders, items : InvoiceItems]
    \union [op : {"cancel"}, order : Orders, rows : Seq(LineRow)]

\* The tables and the requests have their declared shapes (reserved sums
\* integers, and is left to its own property).
TypeOK ==
    /\ orders \in [Orders -> OrderRow]
    /\ lines \in Seq(LineRow)
    /\ invoices \in Seq(InvoiceRow)
    /\ shipped \in [1 .. MaxLines -> Int]
    /\ alerts \subseteq Orders
    /\ request \in [Tabs -> RequestsOn(LineIds)]
    /\ serial \in BOOLEAN

ArticleLines(o) == {l \in LinesOf(o) : ~lines[l].fee}
InvoicesWith(l) == {i \in DOMAIN invoices : l \in DOMAIN invoices[i].items}

\* A billed line is on exactly one invoice, for its own quantity, a draft line on
\* none; of a line its whole quantity was shipped or, unless marked so, nothing.
Documented(l) ==
    /\ IF lines[l].status \in {"invoiced", "shipped"}
       THEN \E i \in InvoicesWith(l) : /\ InvoicesWith(l) = {i}
                                       /\ invoices[i].items[l] = lines[l].qty
       ELSE InvoicesWith(l) = {}
    /\ shipped[l] = IF lines[l].status = "shipped" THEN lines[l].qty ELSE 0

\* A cancelled order that still has billed lines has one return order, with lines.
CancelledIsReturned(o) ==
    orders[o].status = "cancelled" /\ Billed(o) # {} =>
        \E r \in Orders : ReturnOf(o) = {r} /\ LinesOf(r) # {}

\* Serial: between requests each line, its invoices and its shipments agree,
\* however it was cut, and a cancelled order is returned.
LinesMatchDocuments ==
    serial /\ Quiet => /\ \A l \in LineIds : Documented(l)
                       /\ \A o \in Orders : CancelledIsReturned(o)

\* Serial: the reservation of an order is the sum of its lines that are not
\* cancelled, through additions, changes, cuts and cancellations.
\* (Carelessness and the death of a worker break it: see the README.)
ReservationsMatchLines ==
    serial /\ Quiet =>
        \A o \in Orders : orders[o].returnOf = Absent =>
            reserved[o] = QtySum({l \in ArticleLines(o) : lines[l].status # "cancelled"}, lines)

\* Any tabs, any crash: nothing is shipped, or marked as invoiced, that no
\* committed invoice lists.
NothingWithoutInvoice ==
    \A l \in LineIds :
        lines[l].status \in {"invoiced", "shipped"} \/ shipped[l] # 0 => InvoicesWith(l) # {}

\* Any tabs, any crash: the invoice numbers of a month are 1, 2, 3 ... without
\* gap and without repetition, although two workers may read the same last one.
NumbersAreGapless == \A i \in DOMAIN invoices : invoices[i].number = i
=============================================================================
