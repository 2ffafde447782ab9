------------------------ MODULE CustomerOrdersProofs ------------------------
(***************************************************************************)
(* What holds of the customer orders for any tabs, any interleaving and    *)
(* any death of a worker: the invoice numbers have no gap, and nothing is  *)
(* billed or shipped that no invoice lists. And what holds of a serial     *)
(* behaviour between requests: lines, invoices, shipments and return       *)
(* orders agree, and a reservation is the sum of the lines of its order.   *)
(*                                                                         *)
(* None is inductive. A worker that has read the last number carries a     *)
(* number that is at most one above the last, taken or free; the unique    *)
(* constraint refuses it when taken. A worker that marks or ships carries  *)
(* lines that a committed invoice lists (Inv, for any behaviour).          *)
(*                                                                         *)
(* Serial, there is at most one request q (Sole), and the tables agree but *)
(* for what q has still to write (Body): the lines it is about to mark are *)
(* drafts on the last invoice or invoiced lines whose quantity was shipped *)
(* (Docs), what it read is still so (Fresh), the reservation of its order  *)
(* waits for what it brings (Kept), and the status of its order for its    *)
(* marks (Returned). Each commit takes Body of q to Body of the next       *)
(* request, down to Body(Idle), which says what the properties say.        *)
(***************************************************************************)
EXTENDS CustomerOrders, Sums, TLAPS, FiniteSetTheorems, SequenceTheorems

\* Line l is on one of the invoices invs.
Covered(l, invs) == \E i \in DOMAIN invs : l \in DOMAIN invs[i].items

SoundRequest(r, invs) ==
    /\ r.op \in {"mark", "ship", "markshipped"} =>
         \A l \in DOMAIN r.items : Covered(l, invs)
    /\ r.op = "mark" => r.todo \union r.pending \subseteq DOMAIN r.items
    /\ r.op = "invoice" => r.number \in 1 .. Len(invs) + 1

OrdersOK(os, as) == os \in [Orders -> OrderRow] /\ as \subseteq Orders

LinesOK(ls, invs) ==
    /\ ls \in Seq(LineRow)
    /\ Len(ls) <= MaxLines
    /\ \A l \in 1 .. Len(ls) :
         ls[l].status \in {"invoiced", "shipped"} => Covered(l, invs)

InvoicesOK(invs) ==
    /\ invs \in Seq(InvoiceRow)
    /\ \A i \in 1 .. Len(invs) : invs[i].number = i

ShippedOK(sh, invs) ==
    /\ sh \in [1 .. MaxLines -> Int]
    /\ \A l \in 1 .. MaxLines : sh[l] # 0 => Covered(l, invs)

RequestsOK(q, n, invs) ==
    /\ q \in [Tabs -> RequestsOn(1 .. n)]
    /\ \A t \in Tabs : SoundRequest(q[t], invs)

Inv ==
    /\ OrdersOK(orders, alerts)
    /\ LinesOK(lines, invoices)
    /\ InvoicesOK(invoices)
    /\ ShippedOK(shipped, invoices)
    /\ RequestsOK(request, Len(lines), invoices)

-----------------------------------------------------------------------------
(* The shapes of the requests.                                             *)

\* The items of a request or of an invoice: quantities of some lines.
LEMMA ItemsType ==
    ASSUME NEW f
    PROVE  f \in InvoiceItems <=> /\ DOMAIN f \subseteq 1 .. MaxLines
                                  /\ f \in [DOMAIN f -> -MaxQty .. MaxQty]
BY DEF InvoiceItems

\* A request keeps its shape when lines are added.
LEMMA RequestsGrow ==
    ASSUME NEW n \in Nat, NEW m \in Nat, n <= m, NEW r \in RequestsOn(1 .. n)
    PROVE  r \in RequestsOn(1 .. m)
<1>1. 1 .. n \subseteq 1 .. m
  OBVIOUS
<1> DEFINE A == 1 .. n  B == 1 .. m
<1>2. A \subseteq B
  BY <1>1
<1>3. r \in RequestsOn(A) => r \in RequestsOn(B)
  <2> HIDE DEF A, B
  <2> QED
    BY <1>2 DEF RequestsOn, Idle
<1> QED
  BY <1>3

\* A request that has ended holds nothing.
LEMMA RequestIdle ==
    ASSUME NEW ids
    PROVE  Idle \in RequestsOn(ids) /\ \A invs : SoundRequest(Idle, invs)
BY DEF RequestsOn, Idle, SoundRequest

\* The requests stay sound while lines and invoices are added.
LEMMA RequestsKept ==
    ASSUME NEW q, NEW n \in Nat, NEW m \in Nat, n <= m,
           NEW a, NEW b, Len(a) \in Nat, Len(b) \in Nat, Len(a) <= Len(b),
           \A l : Covered(l, a) => Covered(l, b),
           RequestsOK(q, n, a)
    PROVE  RequestsOK(q, m, b)
<1>1. q \in [Tabs -> RequestsOn(1 .. m)]
  BY RequestsGrow DEF RequestsOK
<1>2. ASSUME NEW s \in Tabs
      PROVE  SoundRequest(q[s], b)
  <2>1. SoundRequest(q[s], a)
    BY DEF RequestsOK
  <2> QED
    BY <2>1 DEF SoundRequest
<1> QED
  BY <1>1, <1>2 DEF RequestsOK

\* One tab gets a new request, the others keep theirs.
LEMMA PostKeeps ==
    ASSUME NEW q, NEW n, NEW invs, RequestsOK(q, n, invs),
           NEW t \in Tabs, NEW r \in RequestsOn(1 .. n), SoundRequest(r, invs)
    PROVE  RequestsOK([q EXCEPT ![t] = r], n, invs)
BY DEF RequestsOK

\* What the name of a request says of its fields.
LEMMA RequestFields ==
    ASSUME NEW ids, NEW r \in RequestsOn(ids)
    PROVE  /\ r.op # "idle" => r.order \in Orders
           /\ r.op = "address" => r.address \in Addresses
           /\ r.op = "remove" => r.line \in ids /\ r.row \in LineRow
           /\ r.op = "update" => r.line \in ids /\ r.row \in LineRow /\ r.qty \in Int
                                  /\ r.discount \in BOOLEAN
           /\ r.op \in {"number", "invoice"} => r.fee \in BOOLEAN
           /\ r.op \in {"number", "invoice", "mark", "ship", "markshipped"} =>
                r.items \in InvoiceItems
           /\ r.op = "invoice" => r.number \in Nat \ {0}
           /\ r.op = "cancel" => r.rows \in Seq(LineRow)
BY DEF RequestsOn, Idle

\* The requests that the actions post.
LEMMA NewRequests ==
    ASSUME NEW ids, NEW o \in Orders
    PROVE  /\ \A a \in Addresses :
                [op |-> "address", order |-> o, address |-> a] \in RequestsOn(ids)
           /\ \A q \in Int : [op |-> "reserve", order |-> o, qty |-> q] \in RequestsOn(ids)
           /\ \A l \in ids, row \in LineRow :
                [op |-> "remove", order |-> o, line |-> l, row |-> row] \in RequestsOn(ids)
           /\ \A l \in ids, row \in LineRow, q \in Int, d \in BOOLEAN :
                [op |-> "update", order |-> o, line |-> l, row |-> row,
                 qty |-> q, discount |-> d] \in RequestsOn(ids)
           /\ \A items \in InvoiceItems, fee \in BOOLEAN :
                [op |-> "number", order |-> o, items |-> items, fee |-> fee] \in RequestsOn(ids)
           /\ \A items \in InvoiceItems, fee \in BOOLEAN, k \in Nat \ {0} :
                [op |-> "invoice", order |-> o, items |-> items, fee |-> fee,
                 number |-> k] \in RequestsOn(ids)
           /\ \A items \in InvoiceItems, todo, pending \in SUBSET (1 .. MaxLines) :
                [op |-> "mark", order |-> o, items |-> items, todo |-> todo,
                 pending |-> pending] \in RequestsOn(ids)
           /\ [op |-> "recalculate", order |-> o] \in RequestsOn(ids)
           /\ \A items \in InvoiceItems :
                [op |-> "ship", order |-> o, items |-> items] \in RequestsOn(ids)
           /\ \A rows \in Seq(LineRow) :
                [op |-> "cancel", order |-> o, rows |-> rows] \in RequestsOn(ids)
BY DEF RequestsOn

\* The selections of a form name lines of the table.
LEMMA SelectionsType ==
    ASSUME NEW o, Len(lines) \in Nat, Len(lines) <= MaxLines, NEW items \in Selections(o)
    PROVE  items \in InvoiceItems /\ DOMAIN items \subseteq LineIds
<1>1. PICK S \in SUBSET LinesOf(o) : items \in [S -> Quantities]
  BY DEF Selections
<1>2. S \subseteq LineIds /\ S \subseteq 1 .. MaxLines
  BY CustomerOrdersAssumption DEF LinesOf, LineIds
<1>3. items \in [S -> -MaxQty .. MaxQty]
  BY <1>1 DEF Quantities
<1> QED
  BY <1>2, <1>3, ItemsType

-----------------------------------------------------------------------------
(* The actions that add neither line nor invoice: only the request, or     *)
(* the row of the order, changes.                                          *)

\* What is shared by them: the rest of the invariant is untouched.
LEMMA PostOnly ==
    ASSUME Inv, UNCHANGED <<lines, invoices, shipped>>, OrdersOK(orders', alerts'),
           NEW t \in Tabs, NEW r \in RequestsOn(LineIds), SoundRequest(r, invoices),
           request' = [request EXCEPT ![t] = r]
    PROVE  Inv'
<1>1. Len(lines) \in Nat /\ Len(invoices) \in Nat
  BY DEF Inv, LinesOK, InvoicesOK
<1>2. RequestsOK(request', Len(lines), invoices)
  <2>1. r \in RequestsOn(1 .. Len(lines)) /\ RequestsOK(request, Len(lines), invoices)
    BY DEF Inv, LineIds
  <2>2. RequestsOK([request EXCEPT ![t] = r], Len(lines), invoices)
    BY <2>1, PostKeeps
  <2> QED
    BY <2>2
<1>3. /\ LinesOK(lines', invoices') /\ InvoicesOK(invoices')
      /\ ShippedOK(shipped', invoices') /\ RequestsOK(request', Len(lines'), invoices')
  BY <1>2 DEF Inv
<1> QED
  BY <1>3 DEF Inv

\* Steps that only change the orders and their alerts.
LEMMA RowsOnly ==
    ASSUME Inv, UNCHANGED <<lines, invoices, shipped, request>>, OrdersOK(orders', alerts')
    PROVE  Inv'
<1>1. /\ LinesOK(lines', invoices') /\ InvoicesOK(invoices')
      /\ ShippedOK(shipped', invoices') /\ RequestsOK(request', Len(lines'), invoices')
  BY DEF Inv
<1> QED
  BY <1>1 DEF Inv

\* What the invariant says of the tables and of the request of a tab.
LEMMA Known ==
    ASSUME Inv
    PROVE  /\ orders \in [Orders -> OrderRow] /\ alerts \subseteq Orders
           /\ lines \in Seq(LineRow) /\ Len(lines) \in Nat /\ Len(lines) <= MaxLines
           /\ \A l \in LineIds : lines[l] \in LineRow
           /\ invoices \in Seq(InvoiceRow) /\ Len(invoices) \in Nat
           /\ \A t \in Tabs : /\ request[t] \in RequestsOn(LineIds)
                             /\ SoundRequest(request[t], invoices)
BY DEF Inv, OrdersOK, LinesOK, InvoicesOK, RequestsOK, LineIds

\* Creating an order keeps the invariant.
LEMMA CreateOrderKeeps ==
    ASSUME Inv, NEW t \in Tabs, NEW o \in Orders, NEW a \in Addresses, CreateOrder(t, o, a)
    PROVE  Inv'
<1>1. OrdersOK(orders', alerts')
  BY Known DEF CreateOrder, OrdersOK, OrderRow, OrderStatus
<1> QED
  BY <1>1, RowsOnly DEF CreateOrder

\* So does an alert.
LEMMA RaiseAlertKeeps ==
    ASSUME Inv, NEW o \in Orders, RaiseAlert(o)
    PROVE  Inv'
<1>1. OrdersOK(orders', alerts')
  BY Known DEF RaiseAlert, OrdersOK
<1> QED
  BY <1>1, RowsOnly DEF RaiseAlert

\* The steps that end a request without a line or an invoice.
LEMMA EndingKeeps ==
    ASSUME Inv, NEW t \in Tabs,
           CommitAddress(t) \/ Reserve(t) \/ RecalculateStatus(t) \/ Crash(t)
    PROVE  Inv'
<1>1. request' = [request EXCEPT ![t] = Idle] /\ UNCHANGED <<lines, invoices, shipped>>
  BY DEF CommitAddress, Reserve, RecalculateStatus, Crash, Ends, Posts
<1>2. OrdersOK(orders', alerts')
  <2>1. CASE CommitAddress(t)
    <3>1. request[t].op = "address" /\ request[t].order \in Orders
          /\ request[t].address \in Addresses
      BY <2>1, Known, RequestFields DEF CommitAddress
    <3> QED
      BY <2>1, <3>1, Known DEF CommitAddress, OrdersOK, OrderRow
  <2>2. CASE RecalculateStatus(t)
    <3>1. request[t].order \in Orders
      BY <2>2, Known, RequestFields DEF RecalculateStatus
    <3>2. StatusFromLines(request[t].order) \in OrderStatus \union {"none"}
      BY <3>1, Known DEF StatusFromLines, OrderStatus, OrderRow
    <3> QED
      BY <2>2, <3>1, <3>2, Known DEF RecalculateStatus, OrdersOK, OrderRow
  <2>3. CASE Reserve(t) \/ Crash(t)
    BY <2>3, Known DEF Reserve, Crash, OrdersOK
  <2> QED
    BY <2>1, <2>2, <2>3
<1> QED
  BY <1>1, <1>2, RequestIdle, PostOnly

\* The steps that begin a request, or read the last number.
LEMMA BeginAddressKeeps ==
    ASSUME Inv, NEW t \in Tabs, NEW o \in Orders, NEW a \in Addresses, BeginAddress(t, o, a)
    PROVE  Inv'
<1> DEFINE r == [op |-> "address", order |-> o, address |-> a]
<1>1. r \in RequestsOn(LineIds) /\ SoundRequest(r, invoices)
  BY NewRequests DEF SoundRequest
<1>2. OrdersOK(orders', alerts')
  BY Known DEF BeginAddress, OrdersOK
<1> QED
  BY <1>1, <1>2, PostOnly DEF BeginAddress, Posts

\* A request that has read the line to remove.
LEMMA BeginRemoveKeeps ==
    ASSUME Inv, NEW t \in Tabs, NEW l \in LineIds, BeginRemove(t, l)
    PROVE  Inv'
<1> DEFINE r == [op |-> "remove", order |-> lines[l].order, line |-> l, row |-> lines[l]]
<1>1. lines[l] \in LineRow /\ lines[l].order \in Orders
  BY Known DEF LineRow
<1>2. r \in RequestsOn(LineIds) /\ SoundRequest(r, invoices)
  BY <1>1, NewRequests DEF SoundRequest
<1>3. OrdersOK(orders', alerts')
  BY Known DEF BeginRemove, OrdersOK
<1> QED
  BY <1>2, <1>3, PostOnly DEF BeginRemove, Posts

\* A request that has read the line to change.
LEMMA BeginUpdateKeeps ==
    ASSUME Inv, NEW t \in Tabs, NEW l \in LineIds, NEW q \in Quantities, NEW d \in Discounts,
           BeginUpdate(t, l, q, d)
    PROVE  Inv'
<1> DEFINE r == [op |-> "update", order |-> lines[l].order, line |-> l, row |-> lines[l],
                 qty |-> q, discount |-> d]
<1>1. /\ lines[l] \in LineRow /\ lines[l].order \in Orders
      /\ q \in Int /\ d \in BOOLEAN
  BY Known, CustomerOrdersAssumption DEF LineRow, Quantities
<1>2. r \in RequestsOn(LineIds) /\ SoundRequest(r, invoices)
  BY <1>1, NewRequests DEF SoundRequest
<1>3. OrdersOK(orders', alerts')
  BY Known DEF BeginUpdate, OrdersOK
<1> QED
  BY <1>2, <1>3, PostOnly DEF BeginUpdate, Posts

\* A request that has read the lines to invoice.
LEMMA BeginInvoiceKeeps ==
    ASSUME Inv, NEW t \in Tabs, NEW o \in Orders, NEW items \in Selections(o),
           NEW fee \in Fees, BeginInvoice(t, o, items, fee)
    PROVE  Inv'
<1> DEFINE r == [op |-> "number", order |-> o, items |-> items, fee |-> fee]
<1>1. items \in InvoiceItems /\ fee \in BOOLEAN
  BY Known, SelectionsType, CustomerOrdersAssumption
<1>2. r \in RequestsOn(LineIds) /\ SoundRequest(r, invoices)
  BY <1>1, NewRequests DEF SoundRequest
<1>3. OrdersOK(orders', alerts')
  BY Known DEF BeginInvoice, OrdersOK
<1> QED
  BY <1>2, <1>3, PostOnly DEF BeginInvoice, Posts

\* Without a gap, the last number counts the invoices.
LEMMA LastNumberCounts ==
    ASSUME Inv
    PROVE  LastNumber = Len(invoices) /\ Numbers = 1 .. Len(invoices)
<1>1. Len(invoices) \in Nat /\ \A i \in 1 .. Len(invoices) : invoices[i].number = i
  BY Known DEF Inv, InvoicesOK
<1>2. DOMAIN invoices = 1 .. Len(invoices)
  BY Known
<1>3. Numbers = 1 .. Len(invoices)
  BY <1>1, <1>2 DEF Numbers
<1>4. CASE Len(invoices) = 0
  BY <1>3, <1>4 DEF LastNumber
<1>5. CASE Len(invoices) # 0
  <2>1. Len(invoices) \in Numbers /\ \A m \in Numbers : m <= Len(invoices)
    BY <1>1, <1>3, <1>5
  <2>2. \A n \in Numbers : (\A m \in Numbers : m <= n) => n = Len(invoices)
    BY <1>1, <1>3, <2>1
  <2> DEFINE last == CHOOSE n \in Numbers : \A m \in Numbers : m <= n
  <2>3. LastNumber = last
    BY <2>1 DEF LastNumber
  <2>4. last \in Numbers /\ \A m \in Numbers : m <= last
    BY <2>1
  <2> QED
    BY <1>3, <2>2, <2>3, <2>4
<1> QED
  BY <1>3, <1>4, <1>5

\* A request that has read the last number of invoice.
LEMMA GenerateReferenceKeeps ==
    ASSUME Inv, NEW t \in Tabs, GenerateReference(t)
    PROVE  Inv'
<1> DEFINE q == request[t]
           r == [op |-> "invoice", order |-> q.order, items |-> q.items, fee |-> q.fee,
                 number |-> LastNumber + 1]
<1>1. q.order \in Orders /\ q.items \in InvoiceItems /\ q.fee \in BOOLEAN
  BY Known, RequestFields DEF GenerateReference
<1>2. LastNumber + 1 \in 1 .. Len(invoices) + 1
  BY Known, LastNumberCounts
<1>3. LastNumber + 1 \in Nat \ {0}
  BY <1>2, Known
<1>4. r \in RequestsOn(LineIds)
  BY <1>1, <1>3, NewRequests
<1>5. SoundRequest(r, invoices)
  BY <1>2 DEF SoundRequest
<1>6. OrdersOK(orders', alerts')
  BY Known DEF GenerateReference, OrdersOK
<1> QED
  BY <1>4, <1>5, <1>6, PostOnly DEF GenerateReference, Posts

\* Only a billed line is shipped: an invoice lists it.
LEMMA BeginShipKeeps ==
    ASSUME Inv, NEW t \in Tabs, NEW o \in Orders, NEW items \in Selections(o),
           BeginShip(t, o, items)
    PROVE  Inv'
<1> DEFINE r == [op |-> "ship", order |-> o, items |-> items]
<1>1. items \in InvoiceItems /\ DOMAIN items \subseteq LineIds
  BY Known, SelectionsType
<1>2. \A l \in DOMAIN items : Covered(l, invoices)
  BY <1>1 DEF Inv, LinesOK, LineIds, BeginShip
<1>3. r \in RequestsOn(LineIds)
  BY <1>1, NewRequests
<1>4. SoundRequest(r, invoices)
  BY <1>2 DEF SoundRequest
<1>5. OrdersOK(orders', alerts')
  BY Known DEF BeginShip, OrdersOK
<1> QED
  BY <1>3, <1>4, <1>5, PostOnly DEF BeginShip, Posts

\* A request that has read the lines to cancel.
LEMMA BeginCancelKeeps ==
    ASSUME Inv, NEW t \in Tabs, NEW o \in Orders, BeginCancel(t, o)
    PROVE  Inv'
<1> DEFINE r == [op |-> "cancel", order |-> o, rows |-> lines]
<1>1. r \in RequestsOn(LineIds) /\ SoundRequest(r, invoices)
  BY Known, NewRequests DEF SoundRequest
<1>2. OrdersOK(orders', alerts')
  BY Known DEF BeginCancel, OrdersOK
<1> QED
  BY <1>1, <1>2, PostOnly DEF BeginCancel, Posts

-----------------------------------------------------------------------------
(* The lines.                                                              *)

\* Lines are changed or added, the invoices stay.
LEMMA LinesChange ==
    ASSUME Inv, UNCHANGED <<invoices, shipped>>, OrdersOK(orders', alerts'),
           LinesOK(lines', invoices), Len(lines) <= Len(lines'),
           NEW t \in Tabs, NEW r \in RequestsOn(1 .. Len(lines')), SoundRequest(r, invoices),
           request' = [request EXCEPT ![t] = r]
    PROVE  Inv'
<1>1. RequestsOK(request', Len(lines'), invoices)
  <2>1. Len(lines) \in Nat /\ Len(lines') \in Nat /\ Len(invoices) \in Nat
    BY Known DEF LinesOK
  <2>2. RequestsOK(request, Len(lines'), invoices)
    BY <2>1, RequestsKept DEF Inv
  <2>3. RequestsOK([request EXCEPT ![t] = r], Len(lines'), invoices)
    BY <2>2, PostKeeps
  <2> QED
    BY <2>3
<1>2. LinesOK(lines', invoices') /\ InvoicesOK(invoices') /\ ShippedOK(shipped', invoices')
      /\ RequestsOK(request', Len(lines'), invoices')
  BY <1>1 DEF Inv
<1> QED
  BY <1>2 DEF Inv

\* Some lines get a status; it is billed only when an invoice lists them.
LEMMA StatusGiven ==
    ASSUME Inv, NEW S, NEW status \in LineStatus,
           status \in {"invoiced", "shipped"} => \A l \in S \cap LineIds : Covered(l, invoices)
    PROVE  LinesOK(WithStatus(S, status), invoices) /\ Len(WithStatus(S, status)) = Len(lines)
<1> DEFINE ls == WithStatus(S, status)
<1>1. ls \in [1 .. Len(lines) -> LineRow]
  BY Known DEF WithStatus, LineIds, LineRow
<1>2. ls \in Seq(LineRow) /\ Len(ls) = Len(lines)
  BY <1>1, Known
<1>3. ASSUME NEW l \in 1 .. Len(lines), ls[l].status \in {"invoiced", "shipped"}
      PROVE  Covered(l, invoices)
  <2>1. lines[l] \in LineRow
    BY Known DEF LineIds
  <2>2. CASE l \in S
    BY <1>3, <2>1, <2>2 DEF WithStatus, LineIds, LineRow
  <2>3. CASE l \notin S
    BY <1>3, <2>3 DEF WithStatus, LineIds, Inv, LinesOK
  <2> QED
    BY <2>2, <2>3
<1> QED
  BY <1>2, <1>3, Known DEF LinesOK

\* Draft lines are added.
LEMMA DraftsAdded ==
    ASSUME NEW ls, NEW invs, LinesOK(ls, invs), NEW new \in Seq(LineRow),
           \A i \in 1 .. Len(new) : new[i].status = "draft",
           Len(ls) + Len(new) <= MaxLines
    PROVE  LinesOK(ls \o new, invs) /\ Len(ls \o new) = Len(ls) + Len(new)
<1>1. ls \in Seq(LineRow) /\ Len(ls) \in Nat /\ Len(new) \in Nat
  BY DEF LinesOK
<1>2. ls \o new \in Seq(LineRow) /\ Len(ls \o new) = Len(ls) + Len(new)
  BY <1>1
<1>3. ASSUME NEW l \in 1 .. Len(ls \o new), (ls \o new)[l].status \in {"invoiced", "shipped"}
      PROVE  Covered(l, invs)
  <2>1. CASE l <= Len(ls)
    BY <1>1, <1>2, <1>3, <2>1 DEF LinesOK
  <2>2. CASE l > Len(ls)
    BY <1>1, <1>2, <1>3, <2>2
  <2> QED
    BY <1>1, <1>2, <2>1, <2>2
<1> QED
  BY <1>2, <1>3 DEF LinesOK

\* One line is replaced by another of the same or of a harmless status.
LEMMA LineReplaced ==
    ASSUME NEW ls, NEW invs, LinesOK(ls, invs), NEW k \in 1 .. Len(ls), NEW row \in LineRow,
           row.status \in {"invoiced", "shipped"} => Covered(k, invs)
    PROVE  LinesOK([ls EXCEPT ![k] = row], invs) /\ Len([ls EXCEPT ![k] = row]) = Len(ls)
<1>1. ls \in Seq(LineRow) /\ Len(ls) \in Nat
  BY DEF LinesOK
<1>2. [ls EXCEPT ![k] = row] \in Seq(LineRow) /\ Len([ls EXCEPT ![k] = row]) = Len(ls)
  BY <1>1
<1>3. ASSUME NEW l \in 1 .. Len(ls),
             [ls EXCEPT ![k] = row][l].status \in {"invoiced", "shipped"}
      PROVE  Covered(l, invs)
  BY <1>1, <1>3 DEF LinesOK
<1> QED
  BY <1>2, <1>3 DEF LinesOK

\* New lines, one per price, come after the others.
LEMMA AddLineKeeps ==
    ASSUME Inv, NEW t \in Tabs, NEW o \in Orders, NEW q \in 1 .. MaxQty, NEW d \in Discounts,
           AddLine(t, o, q, d)
    PROVE  Inv'
<1> DEFINE row == [order |-> o, qty |-> q, status |-> "draft", fee |-> FALSE, discount |-> d]
           new == [i \in 1 .. Prices |-> row]
           r == [op |-> "reserve", order |-> o, qty |-> Prices * q]
<1>1. Prices \in Nat /\ MaxQty \in Nat /\ d \in BOOLEAN
  BY CustomerOrdersAssumption
<1>2. row \in LineRow
  BY <1>1 DEF LineRow, LineStatus
<1>3. /\ new \in Seq(LineRow) /\ Len(new) = Prices
      /\ \A i \in 1 .. Len(new) : new[i].status = "draft"
  BY <1>1, <1>2
<1>4. Len(lines) + Len(new) <= MaxLines
  BY <1>3 DEF AddLine, Room
<1>5. LinesOK(lines', invoices) /\ Len(lines') = Len(lines) + Prices
  <2>1. lines' = lines \o new
    BY DEF AddLine
  <2>2. LinesOK(lines, invoices)
    BY DEF Inv
  <2> HIDE DEF new
  <2> QED
    BY <1>3, <1>4, <2>1, <2>2, DraftsAdded
<1>6. Prices * q \in Int
  BY <1>1
<1>7. r \in RequestsOn(1 .. Len(lines')) /\ SoundRequest(r, invoices)
  BY <1>6, NewRequests DEF SoundRequest
<1>8. OrdersOK(orders', alerts')
  BY Known DEF AddLine, OrdersOK
<1>9. request' = [request EXCEPT ![t] = r] /\ UNCHANGED <<invoices, shipped>>
  BY DEF AddLine, Posts
<1>10. Len(lines) <= Len(lines')
  BY <1>1, <1>5, Known
<1> QED
  BY <1>5, <1>7, <1>8, <1>9, <1>10, LinesChange

\* A line cancelled keeps its order and its quantity.
LEMMA CommitRemoveKeeps ==
    ASSUME Inv, NEW t \in Tabs, CommitRemove(t)
    PROVE  Inv'
<1> DEFINE k == request[t].line
           row == [lines[k] EXCEPT !.status = "cancelled"]
<1>1. k \in LineIds
  BY Known, RequestFields DEF CommitRemove
<1>2. row \in LineRow /\ row.status = "cancelled"
  BY <1>1, Known DEF LineRow, LineStatus
<1>3. lines' = lines \/ lines' = [lines EXCEPT ![k] = row]
  BY DEF CommitRemove
<1>4. LinesOK(lines', invoices) /\ Len(lines) <= Len(lines')
  <2>1. Len(lines) \in Nat /\ LinesOK(lines, invoices) /\ k \in 1 .. Len(lines)
    BY <1>1, Known DEF Inv, LineIds
  <2> HIDE DEF row, k
  <2> QED
    BY <1>2, <1>3, <2>1, LineReplaced
<1>5. Idle \in RequestsOn(1 .. Len(lines')) /\ SoundRequest(Idle, invoices)
  BY RequestIdle
<1>6. OrdersOK(orders', alerts')
  BY Known DEF CommitRemove, OrdersOK
<1>7. request' = [request EXCEPT ![t] = Idle] /\ UNCHANGED <<invoices, shipped>>
  BY DEF CommitRemove, Ends, Posts
<1> QED
  BY <1>4, <1>5, <1>6, <1>7, LinesChange

\* A line changed keeps its order.
LEMMA CommitUpdateKeeps ==
    ASSUME Inv, NEW t \in Tabs, CommitUpdate(t)
    PROVE  Inv'
<1> DEFINE r == request[t]
           k == r.line
           row == [lines[k] EXCEPT !.qty = r.qty, !.discount = r.discount]
<1>1. k \in LineIds /\ r.qty \in Int /\ r.discount \in BOOLEAN
  BY Known, RequestFields DEF CommitUpdate
<1>2. row \in LineRow /\ row.status = lines[k].status
  BY <1>1, Known DEF LineRow, LineStatus
<1>3. lines' = [lines EXCEPT ![k] = row]
  BY DEF CommitUpdate
<1>4. row.status \in {"invoiced", "shipped"} => Covered(k, invoices)
  BY <1>1, <1>2 DEF Inv, LinesOK, LineIds
<1>5. LinesOK(lines', invoices) /\ Len(lines) <= Len(lines')
  <2>1. Len(lines) \in Nat /\ LinesOK(lines, invoices) /\ k \in 1 .. Len(lines)
    BY <1>1, Known DEF Inv, LineIds
  <2>2. row \in LineRow /\ (row.status \in {"invoiced", "shipped"} => Covered(k, invoices))
    BY <1>2, <1>4
  <2> HIDE DEF row, k, r
  <2>3. LinesOK([lines EXCEPT ![k] = row], invoices) /\ Len([lines EXCEPT ![k] = row]) = Len(lines)
    BY <2>1, <2>2, LineReplaced
  <2> QED
    BY <1>3, <2>1, <2>3
<1>6. Idle \in RequestsOn(1 .. Len(lines')) /\ SoundRequest(Idle, invoices)
  BY RequestIdle
<1>7. OrdersOK(orders', alerts')
  BY Known DEF CommitUpdate, OrdersOK
<1>8. request' = [request EXCEPT ![t] = Idle] /\ UNCHANGED <<invoices, shipped>>
  BY DEF CommitUpdate, Ends, Posts
<1> QED
  BY <1>5, <1>6, <1>7, <1>8, LinesChange

\* What a request that marks invoiced lines holds.
LEMMA MarkFields ==
    ASSUME NEW ids, NEW r \in RequestsOn(ids), r.op = "mark"
    PROVE  r \in [op : {"mark"}, order : Orders, items : InvoiceItems,
                  todo : SUBSET (1 .. MaxLines), pending : SUBSET (1 .. MaxLines)]
BY DEF RequestsOn, Idle

\* What a tab that marks the lines of an invoice knows of them.
LEMMA MarkKnows ==
    ASSUME Inv, NEW t \in Tabs, request[t].op = "mark"
    PROVE  /\ request[t] \in [op : {"mark"}, order : Orders, items : InvoiceItems,
                              todo : SUBSET (1 .. MaxLines), pending : SUBSET (1 .. MaxLines)]
           /\ request[t].todo \union request[t].pending \subseteq DOMAIN request[t].items
           /\ \A l \in DOMAIN request[t].items : Covered(l, invoices)
BY Known, MarkFields DEF SoundRequest

\* A draft line is added.
LEMMA DraftAppended ==
    ASSUME NEW ls, NEW invs, LinesOK(ls, invs), NEW row \in LineRow, row.status = "draft",
           Len(ls) + 1 <= MaxLines
    PROVE  LinesOK(Append(ls, row), invs) /\ Len(Append(ls, row)) = Len(ls) + 1
<1>1. ls \in Seq(LineRow) /\ Len(ls) \in Nat
  BY DEF LinesOK
<1>2. Append(ls, row) \in Seq(LineRow) /\ Len(Append(ls, row)) = Len(ls) + 1
  BY <1>1
<1>3. ASSUME NEW l \in 1 .. Len(ls) + 1,
             Append(ls, row)[l].status \in {"invoiced", "shipped"}
      PROVE  Covered(l, invs)
  BY <1>1, <1>3 DEF LinesOK
<1> QED
  BY <1>2, <1>3 DEF LinesOK

\* The marks of invoiced lines are written together.
LEMMA CommitMarksKeeps ==
    ASSUME Inv, NEW t \in Tabs, CommitMarks(t)
    PROVE  Inv'
<1> DEFINE r == [op |-> "recalculate", order |-> request[t].order]
<1>1. LinesOK(lines', invoices) /\ Len(lines') = Len(lines)
  <2>1. "invoiced" \in LineStatus
    BY DEF LineStatus
  <2>2. \A l \in request[t].pending : Covered(l, invoices)
    BY MarkKnows DEF CommitMarks
  <2> QED
    BY <2>1, <2>2, StatusGiven DEF CommitMarks
<1>2. request[t].order \in Orders
  BY Known, RequestFields DEF CommitMarks
<1>3. r \in RequestsOn(1 .. Len(lines')) /\ SoundRequest(r, invoices)
  BY <1>2, NewRequests DEF SoundRequest
<1>4. OrdersOK(orders', alerts') /\ Len(lines) <= Len(lines')
  BY <1>1, Known DEF CommitMarks, OrdersOK
<1>5. request' = [request EXCEPT ![t] = r] /\ UNCHANGED <<invoices, shipped>>
  BY DEF CommitMarks, Posts
<1> QED
  BY <1>1, <1>3, <1>4, <1>5, LinesChange

\* The rest of a cut line is a draft line.
LEMMA RestType ==
    ASSUME NEW l, lines[l] \in LineRow, NEW q \in Int
    PROVE  RestOf(l, q) \in LineRow /\ RestOf(l, q).status = "draft"
<1> DEFINE row == lines[l]
           n == row.qty - q
           rest == [row EXCEPT !.qty = n, !.status = "draft", !.discount = FALSE]
<1>1. row \in LineRow /\ n \in Int
  BY DEF LineRow
<1>2. rest \in LineRow /\ rest.status = "draft"
  <2> HIDE DEF row, n
  <2> QED
    BY <1>1 DEF LineRow, LineStatus
<1> QED
  BY <1>2 DEF RestOf

\* The request of a tab that has marked one more line.
LEMMA MarkUpdated ==
    ASSUME NEW all,
           NEW q \in [op : {"mark"}, order : Orders, items : InvoiceItems,
                      todo : SUBSET all, pending : SUBSET all],
           NEW todo \in SUBSET all, NEW pending \in SUBSET all
    PROVE  [q EXCEPT !.todo = todo, !.pending = pending]
             \in [op : {"mark"}, order : Orders, items : InvoiceItems,
                  todo : SUBSET all, pending : SUBSET all]
           /\ [q EXCEPT !.todo = todo, !.pending = pending].items = q.items
           /\ [q EXCEPT !.todo = todo, !.pending = pending].todo = todo
           /\ [q EXCEPT !.todo = todo, !.pending = pending].pending = pending
           /\ [q EXCEPT !.todo = todo, !.pending = pending].op = "mark"
OBVIOUS

\* A line marked is one the request still had to mark.
LEMMA MarkLineKeeps ==
    ASSUME Inv, NEW t \in Tabs, NEW l \in LineIds, MarkLine(t, l)
    PROVE  Inv'
<1> DEFINE r == request[t]
           marked == r.pending \union {l}
<1>1. r.op = "mark" /\ l \in r.todo
  BY DEF MarkLine
<1>2. /\ r \in [op : {"mark"}, order : Orders, items : InvoiceItems,
                todo : SUBSET (1 .. MaxLines), pending : SUBSET (1 .. MaxLines)]
      /\ r.todo \union r.pending \subseteq DOMAIN r.items
      /\ \A k \in DOMAIN r.items : Covered(k, invoices)
  BY <1>1, MarkKnows
<1>3. OrdersOK(orders', alerts') /\ UNCHANGED <<invoices, shipped>>
  BY Known DEF MarkLine, OrdersOK
<1>4. "invoiced" \in LineStatus
  BY DEF LineStatus
<1> DEFINE ls == WithStatus(r.pending, "invoiced")
<1>5. LinesOK(ls, invoices) /\ Len(ls) = Len(lines)
  BY <1>2, <1>4, StatusGiven
<1>6. \A n \in Nat, todo, pending \in SUBSET (1 .. MaxLines) :
        LET new == [r EXCEPT !.todo = todo, !.pending = pending]
        IN  todo \union pending \subseteq DOMAIN r.items =>
              new \in RequestsOn(1 .. n) /\ SoundRequest(new, invoices)
  <2> SUFFICES ASSUME NEW n \in Nat, NEW todo \in SUBSET (1 .. MaxLines),
                      NEW pending \in SUBSET (1 .. MaxLines),
                      todo \union pending \subseteq DOMAIN r.items
               PROVE  LET new == [r EXCEPT !.todo = todo, !.pending = pending]
                      IN  new \in RequestsOn(1 .. n) /\ SoundRequest(new, invoices)
    OBVIOUS
  <2> DEFINE new == [r EXCEPT !.todo = todo, !.pending = pending]
  <2>1. /\ new \in [op : {"mark"}, order : Orders, items : InvoiceItems,
                    todo : SUBSET (1 .. MaxLines), pending : SUBSET (1 .. MaxLines)]
        /\ new.items = r.items /\ new.todo = todo /\ new.pending = pending /\ new.op = "mark"
    <3> HIDE DEF r
    <3> QED
      BY <1>2, MarkUpdated
  <2> HIDE DEF new
  <2>2. new \in RequestsOn(1 .. n)
    BY <2>1 DEF RequestsOn
  <2>3. SoundRequest(new, invoices)
    BY <1>2, <2>1 DEF SoundRequest
  <2> QED
    BY <2>2, <2>3 DEF new
<1>7. CASE /\ UNCHANGED lines
           /\ Posts(t, [r EXCEPT !.todo = @ \ {l}, !.pending = marked])
  <2> DEFINE new == [r EXCEPT !.todo = r.todo \ {l}, !.pending = marked]
  <2>1. new \in RequestsOn(1 .. Len(lines)) /\ SoundRequest(new, invoices)
    BY <1>1, <1>2, <1>6, Known DEF LineIds
  <2>2. request' = [request EXCEPT ![t] = new]
    BY <1>7 DEF Posts
  <2> QED
    BY <1>3, <1>7, <2>1, <2>2, PostOnly DEF LineIds
<1>8. CASE /\ Room(1)
           /\ lines' = Append([ls EXCEPT ![l].qty = r.items[l]], RestOf(l, r.items[l]))
           /\ Posts(t, [r EXCEPT !.todo = @ \ {l}, !.pending = {l}])
  <2> DEFINE row == [ls[l] EXCEPT !.qty = r.items[l]]
             rest == RestOf(l, r.items[l])
             new == [r EXCEPT !.todo = r.todo \ {l}, !.pending = {l}]
  <2>1. r.items[l] \in Int
    BY <1>1, <1>2, ItemsType, CustomerOrdersAssumption
  <2>2. l \in 1 .. Len(ls) /\ ls[l] \in LineRow
    BY <1>5, Known DEF LineIds, LinesOK
  <2>3. row \in LineRow /\ Covered(l, invoices)
    BY <1>1, <1>2, <2>1, <2>2 DEF LineRow
  <2>4. rest \in LineRow /\ rest.status = "draft"
    BY <2>1, Known, RestType
  <2>5. LinesOK([ls EXCEPT ![l] = row], invoices) /\ Len([ls EXCEPT ![l] = row]) = Len(lines)
    <3> HIDE DEF row, ls
    <3> QED
      BY <1>5, <2>2, <2>3, LineReplaced
  <2>6. lines' = Append([ls EXCEPT ![l] = row], rest)
    BY <1>8
  <2>7. LinesOK(lines', invoices) /\ Len(lines') = Len(lines) + 1
    <3>1. Len(lines) + 1 <= MaxLines
      BY <1>8 DEF Room
    <3> HIDE DEF row, ls, rest
    <3> QED
      BY <2>4, <2>5, <2>6, <3>1, DraftAppended
  <2>8. Len(lines) <= Len(lines') /\ Len(lines') \in Nat /\ LineIds \subseteq 1 .. Len(lines')
    BY <2>7, Known DEF LineIds
  <2>9. new \in RequestsOn(1 .. Len(lines')) /\ SoundRequest(new, invoices)
    BY <1>1, <1>2, <1>6, <2>8
  <2>10. request' = [request EXCEPT ![t] = new]
    BY <1>8 DEF Posts
  <2> QED
    BY <1>3, <2>7, <2>8, <2>9, <2>10, LinesChange
<1>9. CASE lines' = ls /\ Ends(t)
  <2>1. Idle \in RequestsOn(1 .. Len(lines')) /\ SoundRequest(Idle, invoices)
    BY RequestIdle
  <2>2. LinesOK(lines', invoices) /\ Len(lines) <= Len(lines')
    BY <1>5, <1>9, Known
  <2>3. request' = [request EXCEPT ![t] = Idle]
    BY <1>9 DEF Ends, Posts
  <2> QED
    BY <1>3, <2>1, <2>2, <2>3, LinesChange
<1> QED
  BY <1>7, <1>8, <1>9 DEF MarkLine

-----------------------------------------------------------------------------
(* Shipping.                                                               *)

\* What a tab that ships knows of the lines it ships.
LEMMA ShipKnows ==
    ASSUME Inv, NEW t \in Tabs, request[t].op \in {"ship", "markshipped"}
    PROVE  /\ request[t] \in [op : {"ship", "markshipped"}, order : Orders, items : InvoiceItems]
           /\ \A l \in DOMAIN request[t].items : Covered(l, invoices)
<1> DEFINE r == request[t]
<1>1. r \in RequestsOn(LineIds) /\ SoundRequest(r, invoices)
  BY Known
<1>2. r.op \in {"ship", "markshipped"}
  OBVIOUS
<1> HIDE DEF r
<1>3. r \in [op : {"ship", "markshipped"}, order : Orders, items : InvoiceItems]
  BY <1>1, <1>2 DEF RequestsOn, Idle
<1>4. \A l \in DOMAIN r.items : Covered(l, invoices)
  BY <1>1, <1>2 DEF SoundRequest
<1> QED
  BY <1>3, <1>4 DEF r

\* The shipment is written; its lines are on an invoice.
LEMMA CommitShipmentKeeps ==
    ASSUME Inv, NEW t \in Tabs, CommitShipment(t)
    PROVE  Inv'
<1> DEFINE r == request[t]
           new == [r EXCEPT !.op = "markshipped"]
<1>1. /\ r \in [op : {"ship", "markshipped"}, order : Orders, items : InvoiceItems]
      /\ \A l \in DOMAIN r.items : Covered(l, invoices)
  BY ShipKnows DEF CommitShipment
<1>2. /\ new \in [op : {"ship", "markshipped"}, order : Orders, items : InvoiceItems]
      /\ new.items = r.items /\ new.op = "markshipped"
  <2> HIDE DEF r
  <2> QED
    BY <1>1
<1>3. new \in RequestsOn(LineIds) /\ SoundRequest(new, invoices)
  <2> HIDE DEF new, r
  <2> QED
    BY <1>1, <1>2 DEF RequestsOn, SoundRequest
<1>4. \A l \in DOMAIN r.items : r.items[l] \in Int
  BY <1>1, ItemsType, CustomerOrdersAssumption
<1>5. ShippedOK(shipped', invoices)
  <2>1. ShippedOK(shipped, invoices)
    BY DEF Inv
  <2>2. shipped' = [l \in 1 .. MaxLines |->
                      shipped[l] + (IF l \in DOMAIN r.items THEN r.items[l] ELSE 0)]
    BY <2>1 DEF CommitShipment, ShippedOK
  <2> HIDE DEF r
  <2>3. shipped' \in [1 .. MaxLines -> Int]
    BY <1>4, <2>1, <2>2 DEF ShippedOK
  <2>4. ASSUME NEW l \in 1 .. MaxLines, shipped'[l] # 0
        PROVE  Covered(l, invoices)
    <3>1. CASE l \in DOMAIN r.items
      BY <1>1, <3>1
    <3>2. CASE l \notin DOMAIN r.items
      BY <2>1, <2>2, <2>4, <3>2 DEF ShippedOK
    <3> QED
      BY <3>1, <3>2
  <2> QED
    BY <2>3, <2>4 DEF ShippedOK
<1>6. OrdersOK(orders', alerts')
  BY Known DEF CommitShipment, OrdersOK
<1>7. RequestsOK(request', Len(lines), invoices)
  <2>1. request' = [request EXCEPT ![t] = new]
    BY DEF CommitShipment, Posts
  <2>2. RequestsOK(request, Len(lines), invoices) /\ new \in RequestsOn(1 .. Len(lines))
    BY <1>3 DEF Inv, LineIds
  <2> HIDE DEF new
  <2> QED
    BY <1>3, <2>1, <2>2, PostKeeps
<1>8. UNCHANGED <<lines, invoices>>
  BY DEF CommitShipment
<1>9. /\ LinesOK(lines', invoices') /\ InvoicesOK(invoices')
      /\ ShippedOK(shipped', invoices') /\ RequestsOK(request', Len(lines'), invoices')
  BY <1>5, <1>7, <1>8 DEF Inv
<1> QED
  BY <1>6, <1>9 DEF Inv

\* Lines shipped whole are marked so.
LEMMA MarkShippedKeeps ==
    ASSUME Inv, NEW t \in Tabs, MarkShipped(t)
    PROVE  Inv'
<1> DEFINE r == request[t]
           whole == {l \in DOMAIN r.items : r.items[l] = lines[l].qty}
           new == [op |-> "recalculate", order |-> r.order]
<1>1. r.order \in Orders /\ \A l \in whole : Covered(l, invoices)
  BY ShipKnows DEF MarkShipped
<1>2. LinesOK(lines', invoices) /\ Len(lines') = Len(lines)
  <2>1. "shipped" \in LineStatus
    BY DEF LineStatus
  <2>2. lines' = WithStatus(whole, "shipped")
    BY DEF MarkShipped
  <2> HIDE DEF whole
  <2> QED
    BY <1>1, <2>1, <2>2, StatusGiven
<1>3. new \in RequestsOn(1 .. Len(lines')) /\ SoundRequest(new, invoices)
  BY <1>1, NewRequests DEF SoundRequest
<1>4. OrdersOK(orders', alerts')
  BY Known DEF MarkShipped, OrdersOK
<1>5. request' = [request EXCEPT ![t] = new] /\ UNCHANGED <<invoices, shipped>>
  BY DEF MarkShipped, Posts
<1>6. Len(lines) <= Len(lines')
  BY <1>2, Known
<1> QED
  BY <1>2, <1>3, <1>4, <1>5, <1>6, LinesChange

-----------------------------------------------------------------------------
(* Cancellation and return.                                                *)

\* A finite set has an enumeration, which SetToSeq picks.
LEMMA SetToSeqType ==
    ASSUME NEW S, IsFiniteSet(S)
    PROVE  /\ Cardinality(S) \in Nat
           /\ SetToSeq(S) \in [1 .. Cardinality(S) -> S]
<1>1. Cardinality(S) \in Nat /\ ExistsBijection(1 .. Cardinality(S), S)
  BY FS_CardinalityType
<1>2. PICK f : f \in Bijection(1 .. Cardinality(S), S)
  BY <1>1 DEF ExistsBijection
<1>3. f \in [1 .. Cardinality(S) -> S] /\ IsInjective(f)
  BY <1>2 DEF Bijection, Injection
<1> QED
  BY <1>1, <1>3 DEF SetToSeq

\* The lines ls are drafts of order o.
DraftsFor(o, ls) == \A i \in 1 .. Len(ls) : ls[i].status = "draft" /\ ls[i].order = o

\* The lines of a return order are draft lines.
LEMMA ReturnLinesType ==
    ASSUME NEW o \in Orders, NEW rows \in Seq(LineRow), NEW ids, ids \subseteq 1 .. Len(rows)
    PROVE  /\ ReturnLines(o, rows, ids) \in Seq(LineRow)
           /\ Cardinality(ids) \in Nat
           /\ Len(ReturnLines(o, rows, ids)) = Cardinality(ids)
           /\ DraftsFor(o, ReturnLines(o, rows, ids))
<1> DEFINE n == Cardinality(ids)
           all == SetToSeq(ids)
           line(i) == [rows[all[i]] EXCEPT !.order = o, !.qty = -AbsVal(@), !.status = "draft"]
           new == ReturnLines(o, rows, ids)
<1>1. IsFiniteSet(ids)
  <2>1. Len(rows) \in Nat
    OBVIOUS
  <2>2. IsFiniteSet(1 .. Len(rows))
    BY <2>1, FS_Interval
  <2> QED
    BY <2>2, FS_Subset
<1>2. n \in Nat /\ all \in [1 .. n -> ids]
  BY <1>1, SetToSeqType
<1>3. new = [i \in 1 .. n |-> line(i)]
  BY DEF ReturnLines
<1>4. ASSUME NEW i \in 1 .. n
      PROVE  line(i) \in LineRow /\ line(i).status = "draft" /\ line(i).order = o
  <2> DEFINE row == rows[all[i]]
             q == -AbsVal(row.qty)
             copy == [row EXCEPT !.order = o, !.qty = q, !.status = "draft"]
  <2>1. all[i] \in 1 .. Len(rows)
    BY <1>2
  <2>2. row \in LineRow
    BY <2>1
  <2>3. q \in Int
    BY <2>2 DEF AbsVal, LineRow
  <2>4. copy \in LineRow /\ copy.status = "draft" /\ copy.order = o
    <3> HIDE DEF row, q
    <3> QED
      BY <2>2, <2>3 DEF LineRow, LineStatus
  <2>5. line(i) = copy
    OBVIOUS
  <2> QED
    BY <2>4, <2>5
<1>5. new \in Seq(LineRow) /\ Len(new) = n
  <2> HIDE DEF line
  <2>1. new \in [1 .. n -> LineRow]
    BY <1>3, <1>4
  <2> HIDE DEF new
  <2> QED
    BY <1>2, <2>1
<1>6. DraftsFor(o, new)
  <2> HIDE DEF line
  <2> QED
    BY <1>3, <1>4, <1>5 DEF DraftsFor
<1> QED
  BY <1>2, <1>5, <1>6

\* The lines of a cancelled order are cancelled as they were read.
LEMMA CommitCancelKeeps ==
    ASSUME Inv, NEW t \in Tabs, CommitCancel(t)
    PROVE  Inv'
<1> DEFINE r == request[t]
           o == r.order
           mine == {l \in DOMAIN r.rows : r.rows[l].order = o}
           draft == {l \in mine : r.rows[l].status = "draft"}
           billed == {l \in mine : r.rows[l].status \in {"invoiced", "shipped"}}
           kept == WithStatus(draft, "cancelled")
<1>1. o \in Orders /\ r.rows \in Seq(LineRow)
  BY Known, RequestFields DEF CommitCancel
<1>2. LinesOK(kept, invoices) /\ Len(kept) = Len(lines)
  <2>1. "cancelled" \in LineStatus
    BY DEF LineStatus
  <2> HIDE DEF draft
  <2> QED
    BY <2>1, StatusGiven
<1>3. request' = [request EXCEPT ![t] = Idle] /\ UNCHANGED <<invoices, shipped, alerts>>
  BY DEF CommitCancel, Ends, Posts
<1>4. CASE UNCHANGED <<orders, lines>>
  <2>1. OrdersOK(orders', alerts')
    BY <1>3, <1>4, Known DEF OrdersOK
  <2>2. Idle \in RequestsOn(LineIds) /\ SoundRequest(Idle, invoices)
    BY RequestIdle
  <2>3. UNCHANGED <<lines, invoices, shipped>>
    BY <1>3, <1>4
  <2> QED
    BY <1>3, <2>1, <2>2, <2>3, PostOnly
<1>5. CASE /\ orders' = [orders EXCEPT ![o].status = "cancelled"]
           /\ lines' = kept
  <2>1. OrdersOK(orders', alerts')
    <3> HIDE DEF o
    <3> QED
      BY <1>1, <1>3, <1>5, Known DEF OrdersOK, OrderRow, OrderStatus
  <2>2. Idle \in RequestsOn(1 .. Len(lines')) /\ SoundRequest(Idle, invoices)
    BY RequestIdle
  <2>3. LinesOK(lines', invoices)
    BY <1>2, <1>5
  <2>4. Len(lines) <= Len(lines')
    BY <1>2, <1>5, Known
  <2>5. UNCHANGED <<invoices, shipped>>
    BY <1>3
  <2> QED
    BY <1>3, <2>1, <2>2, <2>3, <2>4, <2>5, LinesChange
<1>6. ASSUME NEW n \in Orders, Room(Cardinality(billed)),
             orders' = [orders EXCEPT ![o].status = "cancelled",
                          ![n] = [status |-> "draft", returnOf |-> o,
                                  address |-> orders[o].address]],
             lines' = kept \o ReturnLines(n, r.rows, billed)
      PROVE  Inv'
  <2> DEFINE new == ReturnLines(n, r.rows, billed)
  <2>1. billed \subseteq 1 .. Len(r.rows)
    BY <1>1
  <2>2. /\ new \in Seq(LineRow) /\ Cardinality(billed) \in Nat
        /\ Len(new) = Cardinality(billed)
        /\ DraftsFor(n, new)
    <3> HIDE DEF billed
    <3> QED
      BY <1>1, <2>1, ReturnLinesType
  <2>3. Len(lines) + Len(new) <= MaxLines
    BY <1>6, <2>2 DEF Room
  <2>4. LinesOK(lines', invoices) /\ Len(lines') = Len(lines) + Len(new)
    <3>1. lines' = kept \o new
      BY <1>6
    <3> HIDE DEF kept, new
    <3> QED
      BY <1>2, <2>2, <2>3, <3>1, DraftsAdded DEF DraftsFor
  <2>5. Len(lines) <= Len(lines')
    <3> HIDE DEF new
    <3> QED
      BY <2>2, <2>4, Known
  <2>6. OrdersOK(orders', alerts')
    <3>1. orders[o].address \in Addresses
      BY <1>1, Known DEF OrderRow
    <3> HIDE DEF o
    <3> QED
      BY <1>1, <1>3, <1>6, <3>1, Known DEF OrdersOK, OrderRow, OrderStatus
  <2>7. Idle \in RequestsOn(1 .. Len(lines')) /\ SoundRequest(Idle, invoices)
    BY RequestIdle
  <2>8. UNCHANGED <<invoices, shipped>>
    BY <1>3
  <2> QED
    BY <1>3, <2>4, <2>5, <2>6, <2>7, <2>8, LinesChange
<1> QED
  BY <1>4, <1>5, <1>6 DEF CommitCancel

\* A return changes lines of its own order only.
LEMMA CreateReturnKeeps ==
    ASSUME Inv, NEW t \in Tabs, NEW o \in Orders, CreateReturn(t, o)
    PROVE  Inv'
<1>1. UNCHANGED <<invoices, shipped, request>> /\ alerts' \subseteq Orders
  BY Known DEF CreateReturn
<1>2. CASE UNCHANGED <<orders, lines>>
  <2>1. OrdersOK(orders', alerts')
    BY <1>1, <1>2, Known DEF OrdersOK
  <2> QED
    BY <1>1, <1>2, <2>1, RowsOnly
<1>3. ASSUME NEW n \in Orders, Room(Cardinality(Billed(o))),
             orders' = [orders EXCEPT ![n] = [status |-> "draft", returnOf |-> o,
                                              address |-> orders[o].address]],
             lines' = lines \o ReturnLines(n, lines, Billed(o))
      PROVE  Inv'
  <2> DEFINE new == ReturnLines(n, lines, Billed(o))
  <2>1. Billed(o) \subseteq 1 .. Len(lines) /\ lines \in Seq(LineRow) /\ Len(lines) \in Nat
    BY Known DEF Billed, LinesOf, LineIds
  <2>2. /\ new \in Seq(LineRow) /\ Cardinality(Billed(o)) \in Nat
        /\ Len(new) = Cardinality(Billed(o))
        /\ DraftsFor(n, new)
    BY <2>1, ReturnLinesType
  <2>3. Len(lines) + Len(new) <= MaxLines
    BY <1>3, <2>2 DEF Room
  <2>4. LinesOK(lines', invoices) /\ Len(lines') = Len(lines) + Len(new)
    <3>1. lines' = lines \o new /\ LinesOK(lines, invoices)
      BY <1>3 DEF Inv
    <3> HIDE DEF new
    <3> QED
      BY <2>2, <2>3, <3>1, DraftsAdded DEF DraftsFor
  <2>5. Len(lines) <= Len(lines') /\ Len(lines') \in Nat
    <3> HIDE DEF new
    <3> QED
      BY <2>1, <2>2, <2>4
  <2>6. OrdersOK(orders', alerts')
    <3>1. orders[o].address \in Addresses
      BY Known DEF OrderRow
    <3> QED
      BY <1>1, <1>3, <3>1, Known DEF OrdersOK, OrderRow, OrderStatus
  <2>7. RequestsOK(request', Len(lines'), invoices)
    <3>1. RequestsOK(request, Len(lines), invoices) /\ Len(invoices) \in Nat
      BY Known DEF Inv
    <3> HIDE DEF new
    <3> QED
      BY <1>1, <2>1, <2>5, <3>1, RequestsKept
  <2>8. /\ LinesOK(lines', invoices') /\ InvoicesOK(invoices')
        /\ ShippedOK(shipped', invoices') /\ RequestsOK(request', Len(lines'), invoices')
    BY <1>1, <2>4, <2>7 DEF Inv
  <2> QED
    BY <2>6, <2>8 DEF Inv
<1> QED
  BY <1>2, <1>3 DEF CreateReturn

-----------------------------------------------------------------------------
(* The commit of an invoice.                                               *)

\* The items of an invoice with its fee line.
LEMMA FeeItems ==
    ASSUME NEW items \in InvoiceItems, NEW f \in 1 .. MaxLines, NEW q \in {-1, 1}
    PROVE  [l \in DOMAIN items \union {f} |-> IF l = f THEN q ELSE items[l]] \in InvoiceItems
<1> DEFINE all == [l \in DOMAIN items \union {f} |-> IF l = f THEN q ELSE items[l]]
<1>1. DOMAIN items \subseteq 1 .. MaxLines /\ items \in [DOMAIN items -> -MaxQty .. MaxQty]
  BY ItemsType
<1>2. q \in -MaxQty .. MaxQty
  BY CustomerOrdersAssumption
<1>3. DOMAIN all \subseteq 1 .. MaxLines /\ all \in [DOMAIN all -> -MaxQty .. MaxQty]
  BY <1>1, <1>2
<1>4. all \in InvoiceItems
  <2> HIDE DEF all
  <2> QED
    BY <1>3, ItemsType
<1> QED
  BY <1>4

\* The invoice gets the only number that is free.
LEMMA NumberedNext ==
    ASSUME Inv, NEW row \in InvoiceRow, row.number \in 1 .. Len(invoices) + 1,
           row.number \notin Numbers
    PROVE  /\ InvoicesOK(Append(invoices, row))
           /\ Len(Append(invoices, row)) = Len(invoices) + 1
           /\ \A l : Covered(l, invoices) => Covered(l, Append(invoices, row))
           /\ \A l \in DOMAIN row.items : Covered(l, Append(invoices, row))
<1> DEFINE all == Append(invoices, row)
           n == Len(invoices)
<1>1. invoices \in Seq(InvoiceRow) /\ n \in Nat /\ \A i \in 1 .. n : invoices[i].number = i
  BY Known DEF Inv, InvoicesOK
<1>2. row.number = n + 1
  BY <1>1, LastNumberCounts
<1>3. /\ all \in Seq(InvoiceRow) /\ Len(all) = n + 1 /\ all[n + 1] = row
      /\ \A i \in 1 .. n : all[i] = invoices[i]
      /\ DOMAIN all = 1 .. n + 1 /\ DOMAIN invoices = 1 .. n
  BY <1>1
<1> HIDE DEF all, n
<1>4. InvoicesOK(all)
  BY <1>1, <1>2, <1>3 DEF InvoicesOK
<1>5. ASSUME NEW l, Covered(l, invoices)
      PROVE  Covered(l, all)
  BY <1>1, <1>3, <1>5 DEF Covered
<1>6. \A l \in DOMAIN row.items : Covered(l, all)
  BY <1>1, <1>3 DEF Covered
<1> QED
  BY <1>3, <1>4, <1>5, <1>6 DEF all, n

\* A new invoice takes the number its request has read, if nobody has it.
LEMMA CommitInvoiceKeeps ==
    ASSUME Inv, NEW t \in Tabs, CommitInvoice(t)
    PROVE  Inv'
<1> DEFINE r == request[t]
           f == Len(lines) + 1
           feeRow == FeeLine(r.order, r.items)
           items == IF r.fee THEN [l \in DOMAIN r.items \union {f} |->
                                    IF l = f THEN feeRow.qty ELSE r.items[l]]
                    ELSE r.items
           row == [order |-> r.order, number |-> r.number, items |-> items]
           new == [op |-> "mark", order |-> r.order, items |-> items,
                   todo |-> DOMAIN items, pending |-> {}]
<1>1. /\ r.order \in Orders /\ r.items \in InvoiceItems /\ r.fee \in BOOLEAN
      /\ r.number \in Nat \ {0} /\ r.number \in 1 .. Len(invoices) + 1
  BY Known, RequestFields DEF CommitInvoice, SoundRequest
<1>2. OrdersOK(orders', alerts') /\ UNCHANGED shipped
  BY Known DEF CommitInvoice, OrdersOK
<1>3. CASE NumberTaken(r.number)
  <2>1. request' = [request EXCEPT ![t] = Idle] /\ UNCHANGED <<lines, invoices, shipped>>
    BY <1>2, <1>3 DEF CommitInvoice, Ends, Posts
  <2>2. Idle \in RequestsOn(LineIds) /\ SoundRequest(Idle, invoices)
    BY RequestIdle
  <2> QED
    BY <1>2, <2>1, <2>2, PostOnly
<1>4. CASE ~NumberTaken(r.number)
  <2>1. /\ Room(IF r.fee THEN 1 ELSE 0)
        /\ lines' = IF r.fee THEN Append(lines, feeRow) ELSE lines
        /\ invoices' = Append(invoices, row)
        /\ request' = [request EXCEPT ![t] = new]
    BY <1>4 DEF CommitInvoice, Posts
  <2>2. feeRow \in LineRow /\ feeRow.status = "draft" /\ feeRow.qty \in {-1, 1}
    BY <1>1 DEF FeeLine, LineRow, LineStatus
  <2>3. Len(lines) \in Nat /\ MaxLines \in Nat /\ LinesOK(lines, invoices)
    BY Known, CustomerOrdersAssumption DEF Inv
  <2>4. items \in InvoiceItems
    <3>1. CASE r.fee
      <4>1. f \in 1 .. MaxLines
        BY <2>1, <2>3, <3>1 DEF Room
      <4> HIDE DEF f, feeRow, r
      <4> QED
        BY <1>1, <2>2, <3>1, <4>1, FeeItems
    <3>2. CASE ~r.fee
      BY <1>1, <3>2
    <3> QED
      BY <3>1, <3>2
  <2>5. LinesOK(lines', invoices) /\ Len(lines') \in Nat /\ Len(lines) <= Len(lines')
        /\ (r.fee => Len(lines') = f)
    <3>1. CASE r.fee
      <4>1. Len(lines) + 1 <= MaxLines /\ lines' = Append(lines, feeRow)
        BY <2>1, <3>1 DEF Room
      <4> HIDE DEF feeRow
      <4> QED
        BY <2>2, <2>3, <4>1, DraftAppended
    <3>2. CASE ~r.fee
      BY <2>1, <2>3, <3>2
    <3> QED
      BY <1>1, <3>1, <3>2
  <2>6. /\ row \in InvoiceRow /\ row.number = r.number /\ row.items = items
    <3> HIDE DEF items
    <3> QED
      BY <1>1, <2>4 DEF InvoiceRow
  <2>7. /\ InvoicesOK(invoices') /\ Len(invoices') = Len(invoices) + 1
        /\ \A l : Covered(l, invoices) => Covered(l, invoices')
        /\ \A l \in DOMAIN items : Covered(l, invoices')
    <3> HIDE DEF row, items, r
    <3> QED
      BY <1>1, <1>4, <2>1, <2>6, NumberedNext DEF NumberTaken
  <2>8. LinesOK(lines', invoices')
    BY <2>5, <2>7 DEF LinesOK
  <2>9. ShippedOK(shipped', invoices')
    BY <1>2, <2>7 DEF ShippedOK, Inv
  <2>10. DOMAIN items \subseteq 1 .. MaxLines
    <3> HIDE DEF items
    <3> QED
      BY <2>4, ItemsType
  <2>11. new \in RequestsOn(1 .. Len(lines')) /\ SoundRequest(new, invoices')
    <3>1. new \in RequestsOn(1 .. Len(lines'))
      <4> HIDE DEF items
      <4> QED
        BY <1>1, <2>4, <2>10, NewRequests
    <3>2. SoundRequest(new, invoices')
      <4> HIDE DEF items
      <4> QED
        BY <2>7 DEF SoundRequest
    <3> QED
      BY <3>1, <3>2
  <2>12. RequestsOK(request', Len(lines'), invoices')
    <3>1. RequestsOK(request, Len(lines), invoices) /\ Len(invoices) \in Nat
      BY Known DEF Inv
    <3>2. Len(invoices') \in Nat /\ Len(invoices) <= Len(invoices')
      BY <2>7, <3>1
    <3>3. RequestsOK(request, Len(lines'), invoices')
      BY <2>3, <2>5, <2>7, <3>1, <3>2, RequestsKept
    <3> HIDE DEF new
    <3> QED
      BY <2>1, <2>11, <3>3, PostKeeps
  <2> QED
    BY <1>2, <2>7, <2>8, <2>9, <2>12 DEF Inv
<1> QED
  BY <1>3, <1>4

-----------------------------------------------------------------------------
(* The theorems.                                                           *)

\* The invariant at the start.
LEMMA InitHolds == Init => Inv
<1> SUFFICES ASSUME Init
             PROVE  Inv
  OBVIOUS
<1>1. OrdersOK(orders, alerts)
  BY DEF Init, OrdersOK, OrderRow
<1>2. LinesOK(lines, invoices) /\ InvoicesOK(invoices) /\ Len(lines) = 0
  BY CustomerOrdersAssumption DEF Init, LinesOK, InvoicesOK
<1>3. ShippedOK(shipped, invoices)
  BY DEF Init, ShippedOK
<1>4. RequestsOK(request, Len(lines), invoices)
  BY RequestIdle DEF Init, RequestsOK
<1> QED
  BY <1>1, <1>2, <1>3, <1>4 DEF Inv

\* Every step keeps the invariant.
LEMMA StepKeeps == Inv /\ [Next]_vars => Inv'
<1> SUFFICES ASSUME Inv, [Next]_vars
             PROVE  Inv'
  OBVIOUS
<1>1. CASE UNCHANGED vars
  BY <1>1 DEF vars, Inv, OrdersOK, LinesOK, InvoicesOK, ShippedOK, RequestsOK
<1>2. ASSUME NEW o \in Orders, RaiseAlert(o)
      PROVE  Inv'
  BY <1>2, RaiseAlertKeeps
<1>3. ASSUME NEW t \in Tabs, NEW o \in Orders, NEW a \in Addresses,
             CreateOrder(t, o, a) \/ BeginAddress(t, o, a)
      PROVE  Inv'
  BY <1>3, CreateOrderKeeps, BeginAddressKeeps
<1>4. ASSUME NEW t \in Tabs, NEW o \in Orders, NEW q \in 1 .. MaxQty, NEW d \in Discounts,
             AddLine(t, o, q, d)
      PROVE  Inv'
  BY <1>4, AddLineKeeps
<1>5. ASSUME NEW t \in Tabs, NEW l \in LineIds, BeginRemove(t, l) \/ MarkLine(t, l)
      PROVE  Inv'
  BY <1>5, BeginRemoveKeeps, MarkLineKeeps
<1>6. ASSUME NEW t \in Tabs, NEW l \in LineIds, NEW q \in Quantities, NEW d \in Discounts,
             BeginUpdate(t, l, q, d)
      PROVE  Inv'
  BY <1>6, BeginUpdateKeeps
<1>7. ASSUME NEW t \in Tabs, NEW o \in Orders, NEW items \in Selections(o),
             (\E fee \in Fees : BeginInvoice(t, o, items, fee)) \/ BeginShip(t, o, items)
      PROVE  Inv'
  BY <1>7, BeginInvoiceKeeps, BeginShipKeeps
<1>8. ASSUME NEW t \in Tabs, NEW o \in Orders, BeginCancel(t, o) \/ CreateReturn(t, o)
      PROVE  Inv'
  BY <1>8, BeginCancelKeeps, CreateReturnKeeps
<1>9. ASSUME NEW t \in Tabs,
             CommitAddress(t) \/ Reserve(t) \/ RecalculateStatus(t) \/ Crash(t)
      PROVE  Inv'
  BY <1>9, EndingKeeps
<1>10. ASSUME NEW t \in Tabs, CommitRemove(t) \/ CommitUpdate(t) \/ CommitCancel(t)
       PROVE  Inv'
  BY <1>10, CommitRemoveKeeps, CommitUpdateKeeps, CommitCancelKeeps
<1>11. ASSUME NEW t \in Tabs, GenerateReference(t) \/ CommitInvoice(t) \/ CommitMarks(t)
       PROVE  Inv'
  BY <1>11, GenerateReferenceKeeps, CommitInvoiceKeeps, CommitMarksKeeps
<1>12. ASSUME NEW t \in Tabs, CommitShipment(t) \/ MarkShipped(t)
       PROVE  Inv'
  BY <1>12, CommitShipmentKeeps, MarkShippedKeeps
<1> QED
  BY <1>1, <1>2, <1>3, <1>4, <1>5, <1>6, <1>7, <1>8, <1>9, <1>10, <1>11, <1>12,
     CustomerOrdersAssumption DEF Next

\* The invariant of the module: rows of their shapes, invoices numbered without
\* gap, and everything billed, shipped or being marked listed by an invoice.
THEOREM Inductive == Spec => []Inv
BY InitHolds, StepKeeps, PTL DEF Spec

Told == serial \in BOOLEAN

\* A behaviour is serial, or not, from its first state to its last.
LEMMA SerialChosen == Spec => []Told
<1>1. Init => Told
  BY DEF Init, Told
<1>2. Told /\ [Next]_vars => Told'
  BY Zenon DEF Next, vars, Told
<1> QED
  BY <1>1, <1>2, PTL DEF Spec

\* The tables and the requests keep their shapes.
THEOREM TypeCorrect == Spec => []TypeOK
<1>1. Inv /\ Told => TypeOK
  BY DEF Told, Inv, TypeOK, OrdersOK, LinesOK, InvoicesOK, ShippedOK, RequestsOK, LineIds
<1> QED
  BY <1>1, Inductive, SerialChosen, PTL

\* Whatever the tabs interleave and whoever dies, the invoices of a month are
\* numbered 1, 2, 3 ...: generate_invoice_reference reads the last number, and
\* the unique constraint decides between those who read the same.
THEOREM NumbersSafe == Spec => []NumbersAreGapless
<1>1. Inv => NumbersAreGapless
  <2> SUFFICES ASSUME Inv
               PROVE  NumbersAreGapless
    OBVIOUS
  <2>1. DOMAIN invoices = 1 .. Len(invoices)
    BY Known
  <2> QED
    BY <2>1 DEF NumbersAreGapless, Inv, InvoicesOK
<1> QED
  BY <1>1, Inductive, PTL

\* No line is invoiced or shipped, and nothing of it is in a shipment, unless a
\* committed invoice lists it.
THEOREM InvoiceSafe == Spec => []NothingWithoutInvoice
<1>1. Inv => NothingWithoutInvoice
  <2> SUFFICES ASSUME Inv
               PROVE  NothingWithoutInvoice
    OBVIOUS
  <2>1. \A l : Covered(l, invoices) => InvoicesWith(l) # {}
    BY DEF Covered, InvoicesWith
  <2>2. LineIds \subseteq 1 .. MaxLines
    BY Known, CustomerOrdersAssumption DEF LineIds
  <2> QED
    BY <2>1, <2>2 DEF NothingWithoutInvoice, Inv, LinesOK, ShippedOK, LineIds
<1> QED
  BY <1>1, Inductive, PTL

-----------------------------------------------------------------------------
(* Serial behaviours: the request and the tables.                          *)

\* The invoices of invs that list line l.
With(l, invs) == {i \in DOMAIN invs : l \in DOMAIN invs[i].items}
IsBilled(row) == row.status \in {"invoiced", "shipped"}

\* The row of line l agrees with its invoice and its shipments.
Papers(row, l, invs, sh) ==
    /\ IF IsBilled(row)
       THEN \E i \in With(l, invs) : With(l, invs) = {i} /\ invs[i].items[l] = row.qty
       ELSE With(l, invs) = {}
    /\ sh[l] = IF row.status = "shipped" THEN row.qty ELSE 0

\* The lines that request q is about to mark, and what holds of them meanwhile.
Marking(q) == IF q.op = "mark" THEN q.todo \union q.pending ELSE {}
Shipping(q) == IF q.op = "markshipped" THEN DOMAIN q.items ELSE {}

MarkedPapers(row, l, invs, sh) ==
    row.status = "draft" /\ With(l, invs) = {Len(invs)} /\ sh[l] = 0

ShippedPapers(row, l, invs, sh) ==
    /\ row.status = "invoiced" /\ sh[l] = row.qty
    /\ \E i \in With(l, invs) : With(l, invs) = {i} /\ invs[i].items[l] = row.qty

\* M: the lines about to be marked as invoiced, S: as shipped.
Docs(M, S, ls, invs, sh) ==
    \A l \in 1 .. Len(ls) :
        /\ l \in M => MarkedPapers(ls[l], l, invs, sh)
        /\ l \in S => ShippedPapers(ls[l], l, invs, sh)
        /\ l \notin M \union S => Papers(ls[l], l, invs, sh)

Listed(ls, invs) == \A i \in 1 .. Len(invs) : DOMAIN invs[i].items \subseteq 1 .. Len(ls)

FreshRow(q, ls) == q.row = ls[q.line] /\ q.row.status = "draft" /\ q.order = q.row.order

Selected(row, o, q) == /\ row.order = o /\ row.status = "draft" /\ ~row.fee
                       /\ ValidQuantity(row.qty, q)
FreshItems(q, ls) ==
    /\ DOMAIN q.items # {}
    /\ \A l \in DOMAIN q.items : l \in 1 .. Len(ls) /\ Selected(ls[l], q.order, q.items[l])

ToMark(row, o, q) == /\ row.order = o
                     /\ IF row.fee THEN row.qty = q ELSE ValidQuantity(row.qty, q)
HasArticle(q, ls) ==
    \E l \in DOMAIN q.items : /\ l \in 1 .. Len(ls)
                              /\ ls[l].order = q.order /\ ~ls[l].fee
                              /\ l \in q.todo \union q.pending \/ ls[l].status = "invoiced"
FreshMarks(q, ls, invs) ==
    /\ Len(invs) > 0 /\ q.items = invs[Len(invs)].items
    /\ q.todo \cap q.pending = {}
    /\ \A l \in q.todo : ToMark(ls[l], q.order, q.items[l])
    /\ \A l \in q.pending : ls[l].order = q.order /\ ls[l].qty = q.items[l]
    /\ HasArticle(q, ls)

FreshShip(q, ls) ==
    \A l \in DOMAIN q.items :
        l \in 1 .. Len(ls) /\ ls[l].status = "invoiced" /\ q.items[l] = ls[l].qty

\* What request q read is still in the tables.
Fresh(q, ls, invs) ==
    /\ q.op \in {"remove", "update"} => FreshRow(q, ls)
    /\ q.op = "update" => ~q.row.fee
    /\ q.op \in {"number", "invoice"} => FreshItems(q, ls)
    /\ q.op = "mark" => FreshMarks(q, ls, invs)
    /\ q.op \in {"ship", "markshipped"} => FreshShip(q, ls)
    /\ q.op = "cancel" => q.rows = ls

WeightOf(o, row) == IF row.order = o /\ ~row.fee /\ row.status # "cancelled" THEN row.qty ELSE 0
Weight(o, ls) == [l \in 1 .. Len(ls) |-> WeightOf(o, ls[l])]
Weighed(o, ls) == Sum(Weight(o, ls), 1 .. Len(ls))
Coming(q, o) == IF q.op = "reserve" /\ q.order = o THEN q.qty ELSE 0
Kept(q, os, ls, rs) ==
    /\ rs \in [Orders -> Int]
    /\ \A o \in Orders : os[o].returnOf = Absent => rs[o] + Coming(q, o) = Weighed(o, ls)

HasBilled(o, ls) == \E l \in 1 .. Len(ls) : ls[l].order = o /\ IsBilled(ls[l])
HasBilledArticle(o, ls) == \E l \in 1 .. Len(ls) : ls[l].order = o /\ IsBilled(ls[l]) /\ ~ls[l].fee
On(q, ops, o) == q.op \in ops /\ q.order = o
Returned(q, os, ls) ==
    /\ \A r \in Orders : os[r].status = "none" => os[r].returnOf = Absent
    /\ \A r, s \in Orders : os[r].returnOf = os[s].returnOf /\ os[r].returnOf # Absent => r = s
    /\ \A r \in Orders : os[r].returnOf # Absent => \E l \in 1 .. Len(ls) : ls[l].order = r
    /\ \A o \in Orders :
         /\ os[o].status = "cancelled" /\ HasBilled(o, ls) /\ ~On(q, {"mark", "recalculate"}, o) =>
              \E r \in Orders : os[r].returnOf = o
         /\ HasBilled(o, ls) /\ ~On(q, {"mark"}, o) => HasBilledArticle(o, ls)

Body(q, os, ls, rs, invs, sh) ==
    /\ Listed(ls, invs)
    /\ Docs(Marking(q), Shipping(q), ls, invs, sh)
    /\ Fresh(q, ls, invs)
    /\ Kept(q, os, ls, rs)
    /\ Returned(q, os, ls)

Sole(q, rq) ==
    /\ \A t \in Tabs : rq[t] \in {q, Idle}
    /\ \A t, u \in Tabs : rq[t] # Idle /\ rq[u] # Idle => t = u
    /\ q # Idle => \E t \in Tabs : rq[t] = q
OneRequest(rq, os, ls, rs, invs, sh) == \E q : Sole(q, rq) /\ Body(q, os, ls, rs, invs, sh)
SerialInv == serial => OneRequest(request, orders, lines, reserved, invoices, shipped)

-----------------------------------------------------------------------------
(* The sums of the reservations.                                           *)

\* The weight of a line is an integer.
LEMMA WeightType ==
    ASSUME NEW o, NEW row \in LineRow
    PROVE  WeightOf(o, row) \in Int
BY DEF WeightOf, LineRow

\* The weights of the lines of an order add up to an integer.
LEMMA WeighedType ==
    ASSUME NEW o, NEW ls \in Seq(LineRow)
    PROVE  Weighed(o, ls) \in Int
<1> DEFINE S == 1 .. Len(ls)
           f == Weight(o, ls)
<1>1. IsFiniteSet(S)
  BY LenProperties, IntervalFinite
<1>2. \A l \in S : f[l] \in Int
  BY ElementOfSeq, WeightType DEF Weight
<1> HIDE DEF S, f
<1>3. Sum(f, S) \in Int
  BY <1>1, <1>2, SumType
<1> QED
  BY <1>3 DEF Weighed, S, f

\* Lines of equal weights reserve the same.
LEMMA WeighedSame ==
    ASSUME NEW o, NEW ls \in Seq(LineRow), NEW ms \in Seq(LineRow), Len(ms) = Len(ls),
           \A l \in 1 .. Len(ls) : WeightOf(o, ms[l]) = WeightOf(o, ls[l])
    PROVE  Weighed(o, ms) = Weighed(o, ls)
<1>1. Weight(o, ms) = Weight(o, ls)
  BY DEF Weight
<1> QED
  BY <1>1 DEF Weighed

\* One line changes.
LEMMA WeighedChange ==
    ASSUME NEW o, NEW ls, NEW ms, NEW k,
           ls \in Seq(LineRow), ms \in Seq(LineRow), Len(ms) = Len(ls),
           k \in 1 .. Len(ls), \A l \in 1 .. Len(ls) : l # k => ms[l] = ls[l]
    PROVE  Weighed(o, ms) = Weighed(o, ls) - WeightOf(o, ls[k]) + WeightOf(o, ms[k])
<1> DEFINE S == 1 .. Len(ls)
           f == Weight(o, ls)
           g == Weight(o, ms)
<1>1. IsFiniteSet(S)
  BY LenProperties, IntervalFinite
<1>2. \A l \in S : f[l] \in Int /\ g[l] \in Int
  BY WeightType, ElementOfSeq DEF Weight
<1>3. PICK e : e = k
  OBVIOUS
<1>4. e \in S /\ \A l \in S \ {e} : g[l] = f[l]
  BY <1>3 DEF Weight
<1>5. /\ Weighed(o, ls) = Sum(f, S) /\ Weighed(o, ms) = Sum(g, S)
      /\ f[e] = WeightOf(o, ls[k]) /\ g[e] = WeightOf(o, ms[k])
  BY <1>3 DEF Weighed, Weight
<1> HIDE DEF S, f, g
<1>6. Sum(g, S) = Sum(f, S) - f[e] + g[e]
  BY <1>1, <1>2, <1>4, SumChange
<1> QED
  BY <1>5, <1>6

\* Lines added at the end add their weights.
LEMMA WeighedJoined ==
    ASSUME NEW o, NEW ls \in Seq(LineRow), NEW ns \in Seq(LineRow)
    PROVE  Weighed(o, ls \o ns) = Weighed(o, ls) + Weighed(o, ns)
<1> DEFINE all == ls \o ns
           A == 1 .. Len(ls)
           B == 1 .. Len(ns)
           C == 1 .. Len(all)
           s == [i \in B |-> Len(ls) + i]
           f == Weight(o, ls)
           g == Weight(o, ns)
           h == Weight(o, all)
<1>1. /\ Len(ls) \in Nat /\ Len(ns) \in Nat /\ Len(all) = Len(ls) + Len(ns)
      /\ A \subseteq C /\ s \in [B -> C \ A]
      /\ IsFiniteSet(A) /\ IsFiniteSet(B) /\ IsFiniteSet(C)
  BY LenProperties, ConcatProperties, IntervalFinite
<1>2. /\ \A i \in A : all[i] = ls[i]
      /\ \A i \in B : all[s[i]] = ns[i]
  BY ConcatProperties
<1>3. \A i, j \in B : s[i] = s[j] => i = j
  BY <1>1
<1>4. \A z \in C \ A : \E i \in B : z = s[i]
  <2> SUFFICES ASSUME NEW z \in C \ A PROVE \E i \in B : z = s[i]
    OBVIOUS
  <2>1. z - Len(ls) \in B
    BY <1>1
  <2>2. s[z - Len(ls)] = z
    BY <1>1, <2>1
  <2> QED
    BY <2>1, <2>2
<1>5. \A i \in A : f[i] \in Int /\ h[i] = f[i]
  <2> SUFFICES ASSUME NEW i \in A PROVE f[i] \in Int /\ h[i] = f[i]
    OBVIOUS
  <2>1. i \in C /\ all[i] = ls[i] /\ ls[i] \in LineRow
    BY <1>1, <1>2, ElementOfSeq
  <2> HIDE DEF all
  <2> QED
    BY <2>1, WeightType DEF Weight
<1>6. \A i \in B : g[i] \in Int /\ h[s[i]] = g[i]
  <2> SUFFICES ASSUME NEW i \in B PROVE g[i] \in Int /\ h[s[i]] = g[i]
    OBVIOUS
  <2>1. s[i] \in C /\ all[s[i]] = ns[i] /\ ns[i] \in LineRow
    BY <1>1, <1>2, ElementOfSeq
  <2> HIDE DEF all, s
  <2> QED
    BY <2>1, WeightType DEF Weight
<1>7. /\ Weighed(o, ls) = Sum(f, A)
      /\ Weighed(o, ns) = Sum(g, B)
      /\ Weighed(o, all) = Sum(h, C)
  BY DEF Weighed
<1> HIDE DEF A, B, C, s, f, g, h, all
<1>8. Sum(h, C) = Sum(f, A) + Sum(g, B)
  BY <1>1, <1>3, <1>4, <1>5, <1>6, SumJoined
<1> QED
  BY <1>7, <1>8 DEF all

\* One line added at the end adds its weight.
LEMMA WeighedAppended ==
    ASSUME NEW o, NEW ls \in Seq(LineRow), NEW row \in LineRow
    PROVE  Weighed(o, Append(ls, row)) = Weighed(o, ls) + WeightOf(o, row)
<1> DEFINE S == 1 .. Len(ls)
           e == Len(ls) + 1
           ms == Append(ls, row)
           f == Weight(o, ls)
           g == Weight(o, ms)
<1>1. /\ ms \in Seq(LineRow) /\ Len(ms) = e /\ Len(ls) \in Nat /\ ms[e] = row
      /\ \A l \in S : ms[l] = ls[l]
  BY LenProperties
<1>2. IsFiniteSet(S) /\ e \notin S /\ 1 .. e = S \union {e}
  BY <1>1, IntervalFinite
<1>3. \A l \in S : f[l] \in Int
  BY ElementOfSeq, WeightType DEF Weight
<1>4. \A l \in S : g[l] = f[l]
  <2> HIDE DEF ms
  <2> QED
    BY <1>1, <1>2 DEF Weight
<1>5. g[e] = WeightOf(o, row) /\ g[e] \in Int
  <2> HIDE DEF ms
  <2> QED
    BY <1>1, <1>2, WeightType DEF Weight
<1>6. Weighed(o, ls) = Sum(f, S) /\ Weighed(o, ms) = Sum(g, S \union {e})
  <2> HIDE DEF ms
  <2> QED
    BY <1>1, <1>2 DEF Weighed
<1> HIDE DEF S, e, f, g
<1>7. Sum(g, S) = Sum(f, S)
  BY <1>2, <1>3, <1>4, SumSame
<1>8. \A l \in S \union {e} : g[l] \in Int
  BY <1>3, <1>4, <1>5
<1>9. Sum(g, S \union {e}) = Sum(g, S) + g[e]
  BY <1>2, <1>8, SumAdd
<1> HIDE DEF ms
<1> QED
  BY <1>5, <1>6, <1>7, <1>9 DEF ms

\* Lines without weight reserve nothing.
LEMMA WeighedNothing ==
    ASSUME NEW o, NEW ls \in Seq(LineRow), \A l \in 1 .. Len(ls) : WeightOf(o, ls[l]) = 0
    PROVE  Weighed(o, ls) = 0
<1> DEFINE S == 1 .. Len(ls)
           f == Weight(o, ls)
<1>1. IsFiniteSet(S)
  BY LenProperties, IntervalFinite
<1>2. \A l \in S : f[l] = 0
  BY DEF Weight
<1> HIDE DEF S, f
<1>3. Sum(f, S) = 0
  BY <1>1, <1>2, SumZero
<1> QED
  BY <1>3 DEF Weighed, S, f

\* The same line n times.
LEMMA WeighedRepeated ==
    ASSUME NEW o, NEW row \in LineRow, NEW n \in Nat
    PROVE  Weighed(o, [i \in 1 .. n |-> row]) = n * WeightOf(o, row)
<1> DEFINE ls == [i \in 1 .. n |-> row]
           S == 1 .. n
           f == Weight(o, ls)
           c == WeightOf(o, row)
<1>1. Len(ls) = n /\ \A i \in S : ls[i] = row
  OBVIOUS
<1>2. IsFiniteSet(S) /\ Cardinality(S) = n
  BY FS_Interval
<1>3. \A i \in S : f[i] = c
  <2> HIDE DEF ls, c
  <2> QED
    BY <1>1 DEF Weight, c
<1>4. c \in Int
  BY WeightType
<1>5. Weighed(o, ls) = Sum(f, S)
  <2> HIDE DEF ls
  <2> QED
    BY <1>1 DEF Weighed
<1> HIDE DEF S, f, c, ls
<1>6. Sum(f, S) = Cardinality(S) * c
  BY <1>2, <1>3, <1>4, SumConstant
<1> QED
  BY <1>2, <1>5, <1>6 DEF ls, c

\* Cancelling the draft lines of an order releases their quantities.
LEMMA WeighedCancelled ==
    ASSUME NEW o, NEW ls \in Seq(LineRow), NEW ms \in Seq(LineRow), Len(ms) = Len(ls),
           NEW T \in SUBSET DOMAIN ls,
           \A l \in T : ls[l].order = o /\ ls[l].status = "draft" /\ ~ls[l].fee,
           \A l \in DOMAIN ls : WeightOf(o, ms[l]) = IF l \in T THEN 0 ELSE WeightOf(o, ls[l])
    PROVE  /\ QtySum(T, ls) \in Int
           /\ Weighed(o, ms) = Weighed(o, ls) - QtySum(T, ls)
<1> DEFINE S == DOMAIN ls
           f == [l \in DOMAIN ls |-> ls[l].qty]
           g == [l \in DOMAIN ls |-> IF l \in T THEN ls[l].qty ELSE 0]
           h == Weight(o, ls)
           k == Weight(o, ms)
<1>1. S = 1 .. Len(ls) /\ Len(ls) \in Nat /\ \A l \in S : ls[l] \in LineRow
  BY LenProperties, ElementOfSeq
<1>2. IsFiniteSet(S)
  BY <1>1, IntervalFinite
<1>3. \A l \in S : f[l] \in Int /\ g[l] = IF l \in T THEN f[l] ELSE 0
  BY <1>1 DEF LineRow
<1>4. \A l \in S : h[l] = WeightOf(o, ls[l]) /\ k[l] = WeightOf(o, ms[l])
  BY <1>1 DEF Weight
<1>5. \A l \in S : WeightOf(o, ls[l]) \in Int
  BY <1>1, WeightType
<1>6. \A l \in T : WeightOf(o, ls[l]) = ls[l].qty
  BY DEF WeightOf
<1>7. \A l \in S : k[l] \in Int /\ g[l] \in Int /\ h[l] = k[l] + g[l]
  BY <1>1, <1>3, <1>4, <1>5, <1>6
<1>8. Weighed(o, ls) = Sum(h, S) /\ Weighed(o, ms) = Sum(k, S) /\ QtySum(T, ls) = Sum(f, T)
  BY <1>1 DEF Weighed, QtySum, Sum
<1>9. IsFiniteSet(T) /\ \A l \in T : f[l] \in Int
  BY <1>2, <1>3, FS_Subset
<1>10. T \in SUBSET S
  OBVIOUS
<1> HIDE DEF S, f, g, h, k
<1>11. Sum(h, S) = Sum(k, S) + Sum(g, S)
  BY <1>2, <1>7, SumOfSums
<1>12. Sum(f, T) = Sum(g, S)
  BY <1>2, <1>3, <1>10, RowsWhere
<1>13. Sum(f, T) \in Int
  BY <1>9, SumType
<1>14. \A l \in S : k[l] \in Int
  BY <1>7
<1>15. Sum(k, S) \in Int
  BY <1>2, <1>14, SumType
<1> QED
  BY <1>8, <1>11, <1>12, <1>13, <1>15

\* The sum of the lines of an order that are not cancelled, as its property says.
LEMMA WeighedOpen ==
    ASSUME NEW o, lines \in Seq(LineRow)
    PROVE  Weighed(o, lines) = QtySum({l \in ArticleLines(o) : lines[l].status # "cancelled"}, lines)
<1> DEFINE S == DOMAIN lines
           T == {l \in ArticleLines(o) : lines[l].status # "cancelled"}
           f == [l \in DOMAIN lines |-> lines[l].qty]
           g == Weight(o, lines)
<1>1. S = 1 .. Len(lines) /\ Len(lines) \in Nat /\ \A l \in S : lines[l] \in LineRow
  BY LenProperties, ElementOfSeq
<1>2. IsFiniteSet(S)
  BY <1>1, IntervalFinite
<1>3. T \in SUBSET S
  BY <1>1 DEF ArticleLines, LinesOf, LineIds
<1>4. \A l \in S : f[l] \in Int /\ g[l] = IF l \in T THEN f[l] ELSE 0
  BY <1>1 DEF LineRow, Weight, WeightOf, ArticleLines, LinesOf, LineIds
<1>5. Weighed(o, lines) = Sum(g, S) /\ QtySum(T, lines) = Sum(f, T)
  BY <1>1 DEF Weighed, QtySum, Sum
<1> HIDE DEF S, T, f, g
<1>6. Sum(f, T) = Sum(g, S)
  BY <1>2, <1>3, <1>4, RowsWhere
<1> QED
  BY <1>5, <1>6 DEF T

-----------------------------------------------------------------------------
(* One request at a time.                                                  *)

\* A request that is not idle is the only one, and its tab goes on alone.
LEMMA SoleGoesOn ==
    ASSUME NEW q, NEW rq \in [Tabs -> RequestsOn(LineIds)], NEW r, Sole(q, rq),
           NEW t \in Tabs, rq[t].op # "idle"
    PROVE  q = rq[t] /\ Sole(r, [rq EXCEPT ![t] = r])
<1>1. rq[t] # Idle
  BY DEF Idle
<1>2. q = rq[t]
  BY <1>1 DEF Sole
<1>3. \A u \in Tabs : u # t => rq[u] = Idle
  BY <1>1 DEF Sole
<1> QED
  BY <1>2, <1>3 DEF Sole

\* When every tab is free a tab that begins is alone.
LEMMA SoleBegins ==
    ASSUME NEW q, NEW ids, NEW rq \in [Tabs -> RequestsOn(ids)], NEW r, Sole(q, rq),
           NEW t \in Tabs, \A u \in Tabs : rq[u].op = "idle"
    PROVE  q = Idle /\ Sole(r, [rq EXCEPT ![t] = r])
<1>1. \A u \in Tabs : rq[u] = Idle
  <2> SUFFICES ASSUME NEW u \in Tabs PROVE rq[u] = Idle
    OBVIOUS
  <2> DEFINE x == rq[u]
  <2>1. x \in RequestsOn(ids) /\ x.op = "idle"
    OBVIOUS
  <2> HIDE DEF x
  <2>2. x = Idle
    BY <2>1 DEF RequestsOn, Idle
  <2> QED
    BY <2>2 DEF x
<1> QED
  BY <1>1 DEF Sole

-----------------------------------------------------------------------------
(* The requests that only read, and the rows of the orders.                *)

Special == {"reserve", "mark", "markshipped", "recalculate"}

\* Another request, of a kind that has written nothing yet.
LEMMA BodyReads ==
    ASSUME NEW q, NEW r, NEW os, NEW ls, NEW rs, NEW invs, NEW sh,
           Body(q, os, ls, rs, invs, sh),
           q.op \notin Special, r.op \notin Special, Fresh(r, ls, invs)
    PROVE  Body(r, os, ls, rs, invs, sh)
<1>1. Docs(Marking(r), Shipping(r), ls, invs, sh)
  BY DEF Body, Marking, Shipping, Special
<1>2. Kept(r, os, ls, rs)
  BY DEF Body, Kept, Coming, Special
<1>3. Returned(r, os, ls)
  BY DEF Body, Returned, On, Special
<1> QED
  BY <1>1, <1>2, <1>3 DEF Body

\* The rows of the orders change, not what they return, nor to "cancelled".
LEMMA BodyRows ==
    ASSUME NEW q, NEW os, NEW ps, NEW ls, NEW rs, NEW invs, NEW sh,
           Body(q, os, ls, rs, invs, sh),
           \A o \in Orders : /\ ps[o].returnOf = os[o].returnOf
                             /\ ps[o].status \in {os[o].status, "draft"}
    PROVE  Body(q, ps, ls, rs, invs, sh)
<1>1. Kept(q, ps, ls, rs)
  BY DEF Body, Kept
<1>2. Returned(q, ps, ls)
  <2> USE DEF Body, Returned
  <2>1. \A r \in Orders : ps[r].status = "none" => ps[r].returnOf = Absent
    OBVIOUS
  <2>2. \A r, s \in Orders : ps[r].returnOf = ps[s].returnOf /\ ps[r].returnOf # Absent => r = s
    OBVIOUS
  <2>3. \A r \in Orders : ps[r].returnOf # Absent => \E l \in 1 .. Len(ls) : ls[l].order = r
    OBVIOUS
  <2>4. \A o \in Orders :
         /\ ps[o].status = "cancelled" /\ HasBilled(o, ls) /\ ~On(q, {"mark", "recalculate"}, o) =>
              \E r \in Orders : ps[r].returnOf = o
         /\ HasBilled(o, ls) /\ ~On(q, {"mark"}, o) => HasBilledArticle(o, ls)
    OBVIOUS
  <2> QED
    BY <2>1, <2>2, <2>3, <2>4
<1> QED
  BY <1>1, <1>2 DEF Body

\* A tab begins a request.
LEMMA Begins ==
    ASSUME Inv, serial, OneRequest(request, orders, lines, reserved, invoices, shipped),
           NEW t \in Tabs, Starts(t), NEW r, request' = [request EXCEPT ![t] = r],
           Body(Idle, orders, lines, reserved, invoices, shipped) =>
             Body(r, orders', lines', reserved', invoices', shipped')
    PROVE  OneRequest(request', orders', lines', reserved', invoices', shipped')
<1>1. request \in [Tabs -> RequestsOn(LineIds)]
  BY DEF Inv, RequestsOK, LineIds
<1>2. \A u \in Tabs : request[u].op = "idle"
  BY DEF Starts, Quiet, Free
<1>3. PICK q : Sole(q, request) /\ Body(q, orders, lines, reserved, invoices, shipped)
  BY DEF OneRequest
<1>4. q = Idle /\ Sole(r, request')
  BY <1>1, <1>2, <1>3, SoleBegins
<1> QED
  BY <1>3, <1>4 DEF OneRequest

\* A tab does something in one step, without a request.
LEMMA BeginsAndEnds ==
    ASSUME Inv, serial, OneRequest(request, orders, lines, reserved, invoices, shipped),
           NEW t \in Tabs, Starts(t), request' = request,
           Body(Idle, orders, lines, reserved, invoices, shipped) =>
             Body(Idle, orders', lines', reserved', invoices', shipped')
    PROVE  OneRequest(request', orders', lines', reserved', invoices', shipped')
<1>1. request \in [Tabs -> RequestsOn(LineIds)]
  BY DEF Inv, RequestsOK, LineIds
<1>2. \A u \in Tabs : request[u].op = "idle"
  BY DEF Starts, Quiet, Free
<1>3. PICK q : Sole(q, request) /\ Body(q, orders, lines, reserved, invoices, shipped)
  BY DEF OneRequest
<1>4. q = Idle
  BY <1>1, <1>2, <1>3, SoleBegins
<1> QED
  BY <1>3, <1>4 DEF OneRequest

\* The tab that is busy goes on.
LEMMA GoesOn ==
    ASSUME Inv, OneRequest(request, orders, lines, reserved, invoices, shipped),
           NEW t \in Tabs, request[t].op # "idle", NEW r, request' = [request EXCEPT ![t] = r],
           Body(request[t], orders, lines, reserved, invoices, shipped) =>
             Body(r, orders', lines', reserved', invoices', shipped')
    PROVE  OneRequest(request', orders', lines', reserved', invoices', shipped')
<1>1. request \in [Tabs -> RequestsOn(LineIds)]
  BY DEF Inv, RequestsOK, LineIds
<1>2. PICK q : Sole(q, request) /\ Body(q, orders, lines, reserved, invoices, shipped)
  BY DEF OneRequest
<1>3. q = request[t] /\ Sole(r, request')
  BY <1>1, <1>2, SoleGoesOn
<1> QED
  BY <1>2, <1>3 DEF OneRequest

\* The requests that have only read.
LEMMA ReadsBody ==
    ASSUME Inv, serial, NEW t \in Tabs,
           NEW r, request' = [request EXCEPT ![t] = r],
           Body(Idle, orders, lines, reserved, invoices, shipped),
           \/ \E o \in TypedIn, a \in Addresses : BeginAddress(t, o, a)
           \/ \E l \in LineIds : BeginRemove(t, l)
           \/ \E l \in LineIds, q \in Quantities, d \in Discounts : BeginUpdate(t, l, q, d)
           \/ \E o \in Orders : \E items \in Selections(o) :
                (\E fee \in Fees : BeginInvoice(t, o, items, fee)) \/ BeginShip(t, o, items)
           \/ \E o \in Orders : BeginCancel(t, o)
    PROVE  Body(r, orders', lines', reserved', invoices', shipped')
<1>1. request \in [Tabs -> RequestsOn(LineIds)]
  BY DEF Inv, RequestsOK, LineIds
<1>2. request'[t] = r
  BY <1>1
<1>3. ASSUME NEW o \in TypedIn, NEW a \in Addresses, BeginAddress(t, o, a)
      PROVE  /\ UNCHANGED <<orders, lines, reserved, invoices, shipped>>
             /\ r.op \notin Special /\ Fresh(r, lines, invoices)
  <2>1. r = [op |-> "address", order |-> o, address |-> a]
    BY <1>1, <1>2, <1>3 DEF BeginAddress, Posts
  <2> QED
    BY <1>3, <2>1 DEF BeginAddress, Special, Fresh
<1>4. ASSUME NEW l \in LineIds, BeginRemove(t, l)
      PROVE  /\ UNCHANGED <<orders, lines, reserved, invoices, shipped>>
             /\ r.op \notin Special /\ Fresh(r, lines, invoices)
  <2>1. r = [op |-> "remove", order |-> lines[l].order, line |-> l, row |-> lines[l]]
    BY <1>1, <1>2, <1>4 DEF BeginRemove, Posts
  <2> QED
    BY <1>4, <2>1 DEF BeginRemove, Special, Fresh, FreshRow
<1>5. ASSUME NEW l \in LineIds, NEW q \in Quantities, NEW d \in Discounts,
             BeginUpdate(t, l, q, d)
      PROVE  /\ UNCHANGED <<orders, lines, reserved, invoices, shipped>>
             /\ r.op \notin Special /\ Fresh(r, lines, invoices)
  <2>1. r = [op |-> "update", order |-> lines[l].order, line |-> l, row |-> lines[l],
             qty |-> q, discount |-> d]
    BY <1>1, <1>2, <1>5 DEF BeginUpdate, Posts
  <2> QED
    BY <1>5, <2>1 DEF BeginUpdate, Special, Fresh, FreshRow
<1>6. ASSUME NEW o \in Orders, NEW items \in Selections(o), NEW fee \in Fees,
             BeginInvoice(t, o, items, fee)
      PROVE  /\ UNCHANGED <<orders, lines, reserved, invoices, shipped>>
             /\ r.op \notin Special /\ Fresh(r, lines, invoices)
  <2>1. r = [op |-> "number", order |-> o, items |-> items, fee |-> fee]
    BY <1>1, <1>2, <1>6 DEF BeginInvoice, Posts
  <2>2. PICK S \in (SUBSET LinesOf(o)) \ {{}} : items \in [S -> Quantities]
    BY DEF Selections
  <2>3. FreshItems(r, lines)
    BY <1>6, <2>1, <2>2 DEF BeginInvoice, FreshItems, Selected, LinesOf, LineIds
  <2> QED
    BY <1>6, <2>1, <2>3 DEF BeginInvoice, Special, Fresh
<1>7. ASSUME NEW o \in Orders, NEW items \in Selections(o), BeginShip(t, o, items)
      PROVE  /\ UNCHANGED <<orders, lines, reserved, invoices, shipped>>
             /\ r.op \notin Special /\ Fresh(r, lines, invoices)
  <2>1. r = [op |-> "ship", order |-> o, items |-> items]
    BY <1>1, <1>2, <1>7 DEF BeginShip, Posts
  <2>2. PICK S \in (SUBSET LinesOf(o)) \ {{}} : items \in [S -> Quantities]
    BY DEF Selections
  <2>3. FreshShip(r, lines)
    BY <1>7, <2>1, <2>2 DEF BeginShip, FreshShip, LinesOf, LineIds
  <2> QED
    BY <1>7, <2>1, <2>3 DEF BeginShip, Special, Fresh
<1>8. ASSUME NEW o \in Orders, BeginCancel(t, o)
      PROVE  /\ UNCHANGED <<orders, lines, reserved, invoices, shipped>>
             /\ r.op \notin Special /\ Fresh(r, lines, invoices)
  <2>1. r = [op |-> "cancel", order |-> o, rows |-> lines]
    BY <1>1, <1>2, <1>8 DEF BeginCancel, Posts
  <2> QED
    BY <1>8, <2>1 DEF BeginCancel, Special, Fresh
<1>9. /\ UNCHANGED <<orders, lines, reserved, invoices, shipped>>
      /\ r.op \notin Special /\ Fresh(r, lines, invoices)
  BY <1>3, <1>4, <1>5, <1>6, <1>7, <1>8
<1>10. Idle.op \notin Special
  BY DEF Idle, Special
<1>11. Body(r, orders, lines, reserved, invoices, shipped)
  BY <1>9, <1>10, BodyReads
<1> QED
  BY <1>9, <1>11

\* The number is read; the request carries the same lines.
LEMMA NumberBody ==
    ASSUME Inv, NEW t \in Tabs, GenerateReference(t),
           NEW r, request' = [request EXCEPT ![t] = r],
           Body(request[t], orders, lines, reserved, invoices, shipped)
    PROVE  Body(r, orders', lines', reserved', invoices', shipped')
<1>1. request \in [Tabs -> RequestsOn(LineIds)]
  BY DEF Inv, RequestsOK, LineIds
<1>2. r = [op |-> "invoice", order |-> request[t].order, items |-> request[t].items,
           fee |-> request[t].fee, number |-> LastNumber + 1]
  BY <1>1 DEF GenerateReference, Posts
<1>3. request[t].op = "number" /\ UNCHANGED <<orders, lines, reserved, invoices, shipped>>
  BY DEF GenerateReference
<1>4. FreshItems(request[t], lines)
  BY <1>3 DEF Body, Fresh
<1>5. FreshItems(r, lines)
  BY <1>2, <1>4 DEF FreshItems
<1>6. Fresh(r, lines, invoices) /\ r.op \notin Special /\ request[t].op \notin Special
  BY <1>2, <1>3, <1>5 DEF Fresh, Special
<1>7. Body(r, orders, lines, reserved, invoices, shipped)
  BY <1>6, BodyReads
<1> QED
  BY <1>3, <1>7

\* An order is created.
LEMMA CreateBody ==
    ASSUME Inv, NEW t \in Tabs, NEW o \in TypedIn, NEW a \in Addresses, CreateOrder(t, o, a),
           Body(Idle, orders, lines, reserved, invoices, shipped)
    PROVE  Body(Idle, orders', lines', reserved', invoices', shipped')
<1>1. o \in Orders /\ orders \in [Orders -> OrderRow]
  BY Known, CustomerOrdersAssumption
<1>2. orders[o].returnOf = Absent
  BY <1>1 DEF CreateOrder, Exists, Body, Returned
<1>3. \A p \in Orders : /\ orders'[p].returnOf = orders[p].returnOf
                        /\ orders'[p].status \in {orders[p].status, "draft"}
  BY <1>1, <1>2 DEF CreateOrder
<1>4. Body(Idle, orders', lines, reserved, invoices, shipped)
  BY <1>3, BodyRows
<1> QED
  BY <1>4 DEF CreateOrder

\* Its address changes.
LEMMA AddressBody ==
    ASSUME Inv, NEW t \in Tabs, CommitAddress(t),
           Body(request[t], orders, lines, reserved, invoices, shipped)
    PROVE  Body(Idle, orders', lines', reserved', invoices', shipped')
<1>1. orders \in [Orders -> OrderRow] /\ request[t].op = "address"
  BY Known DEF CommitAddress
<1>2. \A p \in Orders : /\ orders'[p].returnOf = orders[p].returnOf
                        /\ orders'[p].status \in {orders[p].status, "draft"}
  <2>1. \A p \in Orders : orders[p] \in OrderRow
    BY <1>1
  <2> QED
    BY <1>1, <2>1 DEF CommitAddress, OrderRow
<1>3. Idle.op \notin Special /\ request[t].op \notin Special /\ Fresh(Idle, lines, invoices)
  BY <1>1 DEF Special, Idle, Fresh
<1>4. Body(Idle, orders, lines, reserved, invoices, shipped)
  BY <1>3, BodyReads
<1>5. Body(Idle, orders', lines, reserved, invoices, shipped)
  BY <1>2, <1>4, BodyRows
<1> QED
  BY <1>5 DEF CommitAddress

-----------------------------------------------------------------------------
(* Lines are added.                                                        *)

\* A line that does not exist yet is on no invoice, and nothing of it is shipped.
LEMMA Unlisted ==
    ASSUME Inv, Listed(lines, invoices), NEW l \in 1 .. MaxLines, l > Len(lines)
    PROVE  With(l, invoices) = {} /\ shipped[l] = 0
<1>1. Len(lines) \in Nat /\ MaxLines \in Nat /\ DOMAIN invoices = 1 .. Len(invoices)
  BY Known, CustomerOrdersAssumption
<1>2. l \notin 1 .. Len(lines)
  BY <1>1
<1>3. ~Covered(l, invoices)
  BY <1>1, <1>2 DEF Covered, Listed
<1>4. With(l, invoices) = {}
  BY <1>3 DEF Covered, With
<1>5. shipped[l] = 0
  BY <1>3 DEF Inv, ShippedOK
<1> QED
  BY <1>4, <1>5

\* New draft lines have no papers.
LEMMA DocsAdded ==
    ASSUME NEW ls \in Seq(LineRow), NEW ns \in Seq(LineRow), NEW invs, NEW sh,
           Docs({}, {}, ls, invs, sh),
           \A i \in 1 .. Len(ns) : ns[i].status = "draft",
           \A l \in 1 .. MaxLines : l > Len(ls) => With(l, invs) = {} /\ sh[l] = 0,
           Len(ls) + Len(ns) <= MaxLines
    PROVE  Docs({}, {}, ls \o ns, invs, sh)
<1>1. Len(ls) \in Nat /\ Len(ns) \in Nat /\ Len(ls \o ns) = Len(ls) + Len(ns)
  BY ConcatProperties, LenProperties
<1> SUFFICES ASSUME NEW l \in 1 .. Len(ls \o ns)
             PROVE  Papers((ls \o ns)[l], l, invs, sh)
  BY DEF Docs
<1>2. CASE l <= Len(ls)
  <2>1. l \in 1 .. Len(ls) /\ (ls \o ns)[l] = ls[l]
    BY <1>1, <1>2, ConcatProperties
  <2> QED
    BY <2>1 DEF Docs
<1>3. CASE l > Len(ls)
  <2>1. l - Len(ls) \in 1 .. Len(ns) /\ (ls \o ns)[l] = ns[l - Len(ls)]
    BY <1>1, <1>3, ConcatProperties
  <2>2. (ls \o ns)[l].status = "draft"
    BY <2>1
  <2>3. l \in 1 .. MaxLines
    BY <1>1, CustomerOrdersAssumption
  <2> QED
    BY <1>3, <2>2, <2>3 DEF Papers, IsBilled
<1> QED
  BY <1>1, <1>2, <1>3

\* The invoices still list lines that exist.
LEMMA ListedMore ==
    ASSUME NEW ls, NEW ms, NEW invs, Listed(ls, invs), 1 .. Len(ls) \subseteq 1 .. Len(ms)
    PROVE  Listed(ms, invs)
BY DEF Listed

SameLine(row, old) == /\ row.order = old.order /\ row.fee = old.fee
                      /\ IsBilled(row) <=> IsBilled(old)
SameLines(ms, ls) ==
    /\ \A l \in 1 .. Len(ls) : l \in 1 .. Len(ms) /\ SameLine(ms[l], ls[l])
    /\ \A l \in 1 .. Len(ms) : l \in 1 .. Len(ls) \/ ~IsBilled(ms[l])

\* The returns stay what they were while no other line is billed.
LEMMA ReturnedSame ==
    ASSUME NEW q, NEW r, NEW os, NEW ls, NEW ms, Returned(q, os, ls), SameLines(ms, ls),
           \A o \in Orders : On(q, {"mark", "recalculate"}, o) => On(r, {"mark", "recalculate"}, o),
           \A o \in Orders : On(q, {"mark"}, o) => On(r, {"mark"}, o)
    PROVE  Returned(r, os, ms)
<1>1. \A o : HasBilled(o, ms) <=> HasBilled(o, ls)
  BY DEF SameLines, SameLine, HasBilled
<1>2. \A o : HasBilledArticle(o, ms) <=> HasBilledArticle(o, ls)
  BY DEF SameLines, SameLine, HasBilledArticle
<1>3. \A o : (\E l \in 1 .. Len(ls) : ls[l].order = o) => \E l \in 1 .. Len(ms) : ms[l].order = o
  BY DEF SameLines, SameLine
<1> QED
  BY <1>1, <1>2, <1>3 DEF Returned

\* The lines of an addition: their reservation comes when the request ends.
LEMMA AddBody ==
    ASSUME Inv, NEW t \in Tabs, NEW o \in Orders, NEW q \in 1 .. MaxQty, NEW d \in Discounts,
           AddLine(t, o, q, d), NEW r, request' = [request EXCEPT ![t] = r],
           Body(Idle, orders, lines, reserved, invoices, shipped)
    PROVE  Body(r, orders', lines', reserved', invoices', shipped')
<1> DEFINE row == [order |-> o, qty |-> q, status |-> "draft", fee |-> FALSE, discount |-> d]
           new == [i \in 1 .. Prices |-> row]
<1>1. Prices \in Nat /\ MaxQty \in Nat /\ d \in BOOLEAN /\ q \in Int
  BY CustomerOrdersAssumption
<1>2. row \in LineRow /\ row.order = o /\ row.qty = q /\ row.status = "draft" /\ ~row.fee
  BY <1>1 DEF LineRow, LineStatus
<1>3. /\ new \in Seq(LineRow) /\ Len(new) = Prices
      /\ \A i \in 1 .. Len(new) : new[i].status = "draft"
  BY <1>1, <1>2
<1>4. Len(lines) + Len(new) <= MaxLines
  BY <1>3 DEF AddLine, Room
<1>5. lines' = lines \o new /\ UNCHANGED <<orders, reserved, invoices, shipped>>
  BY DEF AddLine
<1>6. r = [op |-> "reserve", order |-> o, qty |-> Prices * q]
  <2>1. request \in [Tabs -> RequestsOn(LineIds)]
    BY DEF Inv, RequestsOK, LineIds
  <2> QED
    BY <2>1 DEF AddLine, Posts
<1>7. lines \in Seq(LineRow) /\ Listed(lines, invoices)
  BY Known DEF Body
<1>13. \A p : Weighed(p, new) = Prices * WeightOf(p, row)
  BY <1>1, <1>2, WeighedRepeated
<1> HIDE DEF row, new
<1>8. Listed(lines', invoices')
  <2>1. 1 .. Len(lines) \subseteq 1 .. Len(lines')
    BY <1>3, <1>5, <1>7, ConcatProperties, LenProperties
  <2> QED
    BY <1>5, <1>7, <2>1, ListedMore
<1>9. Docs(Marking(r), Shipping(r), lines', invoices', shipped')
  <2>1. Docs({}, {}, lines, invoices, shipped)
    BY DEF Body, Marking, Shipping, Idle
  <2>2. \A l \in 1 .. MaxLines : l > Len(lines) => With(l, invoices) = {} /\ shipped[l] = 0
    BY <1>7, Unlisted
  <2>3. Docs({}, {}, lines \o new, invoices, shipped)
    BY <1>3, <1>4, <1>7, <2>1, <2>2, DocsAdded
  <2> QED
    BY <1>5, <1>6, <2>3 DEF Marking, Shipping
<1>10. Fresh(r, lines', invoices')
  BY <1>6 DEF Fresh
<1>11. Kept(r, orders', lines', reserved')
  <2>1. Kept(Idle, orders, lines, reserved)
    BY DEF Body
  <2>2. reserved' \in [Orders -> Int]
    BY <1>5, <2>1 DEF Kept
  <2>3. ASSUME NEW p \in Orders, orders'[p].returnOf = Absent
        PROVE  reserved'[p] + Coming(r, p) = Weighed(p, lines')
    <3>1. Weighed(p, lines') = Weighed(p, lines) + Prices * WeightOf(p, row)
      BY <1>3, <1>5, <1>7, <1>13, WeighedJoined
    <3>2. reserved[p] = Weighed(p, lines)
      BY <1>5, <2>1, <2>3 DEF Kept, Coming, Idle
    <3>3. Weighed(p, lines) \in Int
      BY <1>7, WeighedType
    <3>4. Coming(r, p) = IF p = o THEN Prices * q ELSE 0
      BY <1>6 DEF Coming
    <3>5. WeightOf(p, row) = IF p = o THEN q ELSE 0
      BY <1>2 DEF WeightOf
    <3>6. Prices * WeightOf(p, row) = Coming(r, p)
      BY <1>1, <3>4, <3>5
    <3> QED
      BY <1>5, <3>1, <3>2, <3>3, <3>6
  <2> QED
    BY <2>2, <2>3 DEF Kept
<1>12. Returned(r, orders', lines')
  <2>1. SameLines(lines', lines)
    <3>1. /\ Len(lines') = Len(lines) + Len(new) /\ Len(lines) \in Nat /\ Len(new) \in Nat
          /\ \A l \in 1 .. Len(lines) : lines'[l] = lines[l]
          /\ \A l \in 1 .. Len(new) : lines'[Len(lines) + l] = new[l]
      BY <1>3, <1>5, <1>7, ConcatProperties, LenProperties
    <3>2. ASSUME NEW l \in 1 .. Len(lines'), l \notin 1 .. Len(lines)
          PROVE  ~IsBilled(lines'[l])
      <4>1. l - Len(lines) \in 1 .. Len(new) /\ l = Len(lines) + (l - Len(lines))
        BY <3>1, <3>2
      <4>2. lines'[l].status = "draft"
        BY <1>3, <3>1, <4>1
      <4> QED
        BY <4>2 DEF IsBilled
    <3>3. \A l \in 1 .. Len(lines) : l \in 1 .. Len(lines')
      BY <3>1
    <3> QED
      BY <3>1, <3>2, <3>3 DEF SameLines, SameLine
  <2>2. Returned(Idle, orders, lines)
    BY DEF Body
  <2>3. Returned(r, orders, lines')
    BY <2>1, <2>2, ReturnedSame DEF On, Idle
  <2> QED
    BY <1>5, <2>3
<1> QED
  BY <1>8, <1>9, <1>10, <1>11, <1>12 DEF Body

\* The reservation comes.
LEMMA ReserveBody ==
    ASSUME Inv, NEW t \in Tabs, Reserve(t),
           Body(request[t], orders, lines, reserved, invoices, shipped)
    PROVE  Body(Idle, orders', lines', reserved', invoices', shipped')
<1> DEFINE q == request[t]
<1>1. q.op = "reserve" /\ q.order \in Orders /\ q.qty \in Int
  <2>1. q \in RequestsOn(LineIds) /\ q.op = "reserve"
    BY Known DEF Reserve
  <2> HIDE DEF q
  <2> QED
    BY <2>1 DEF RequestsOn, Idle
<1>2. reserved' = [reserved EXCEPT ![q.order] = @ + q.qty]
  BY DEF Reserve
<1>3. Body(q, orders, lines, reserved, invoices, shipped)
  OBVIOUS
<1>4. UNCHANGED <<orders, lines, invoices, shipped>>
  BY DEF Reserve
<1>5. PICK o : o = q.order
  OBVIOUS
<1> HIDE DEF q
<1>6. Docs(Marking(Idle), Shipping(Idle), lines, invoices, shipped)
  BY <1>1, <1>3 DEF Body, Marking, Shipping, Idle
<1>7. Kept(Idle, orders, lines, reserved')
  <2>1. Kept(q, orders, lines, reserved) /\ reserved \in [Orders -> Int]
    BY <1>3 DEF Body, Kept
  <2>2. reserved' \in [Orders -> Int]
    BY <1>1, <1>2, <2>1
  <2>3. \A p \in Orders : Coming(Idle, p) = 0 /\ reserved'[p] = reserved[p] + Coming(q, p)
    BY <1>1, <1>2, <2>1 DEF Coming, Idle
  <2> QED
    BY <2>1, <2>2, <2>3 DEF Kept
<1>8. Returned(Idle, orders, lines)
  BY <1>1, <1>3 DEF Body, Returned, On, Idle
<1>9. Fresh(Idle, lines, invoices)
  BY DEF Fresh, Idle
<1> QED
  BY <1>3, <1>4, <1>6, <1>7, <1>8, <1>9 DEF Body

-----------------------------------------------------------------------------
(* A draft line changes.                                                   *)

\* Row k of ms is another draft, or a cancelled line, in the place of a draft.
DraftChanged(ls, ms, k) ==
    /\ Len(ms) = Len(ls) /\ k \in 1 .. Len(ls)
    /\ \A l \in 1 .. Len(ls) : l # k => ms[l] = ls[l]
    /\ ls[k].status = "draft" /\ ms[k].status \in {"draft", "cancelled"}
    /\ ms[k].order = ls[k].order /\ ms[k].fee = ls[k].fee

\* What does not depend on the quantities stays.
LEMMA DraftPapers ==
    ASSUME NEW ls, NEW ms, NEW k, NEW invs, NEW sh, DraftChanged(ls, ms, k),
           Listed(ls, invs), Docs({}, {}, ls, invs, sh)
    PROVE  Listed(ms, invs) /\ Docs({}, {}, ms, invs, sh) /\ SameLines(ms, ls)
<1>1. Listed(ms, invs)
  BY DEF Listed, DraftChanged
<1>2. Docs({}, {}, ms, invs, sh)
  BY DEF Docs, Papers, DraftChanged, IsBilled
<1>3. SameLines(ms, ls)
  BY DEF SameLines, SameLine, DraftChanged, IsBilled
<1> QED
  BY <1>1, <1>2, <1>3

\* The line of the request becomes row, the reservation changes by its weight.
LEMMA ChangeBody ==
    ASSUME NEW q, NEW os, NEW ls \in Seq(LineRow), NEW ms \in Seq(LineRow), NEW rs, NEW ss,
           NEW invs, NEW sh, NEW k,
           Body(q, os, ls, rs, invs, sh), q.op \notin Special, DraftChanged(ls, ms, k),
           ls[k].order \in Orders,
           ss = [rs EXCEPT ![ls[k].order] = @ + (WeightOf(ls[k].order, ms[k])
                                                 - WeightOf(ls[k].order, ls[k]))]
    PROVE  Body(Idle, os, ms, ss, invs, sh)
<1>1. Listed(ls, invs) /\ Docs({}, {}, ls, invs, sh)
  BY DEF Body, Marking, Shipping, Special
<1>2. Listed(ms, invs) /\ Docs({}, {}, ms, invs, sh) /\ SameLines(ms, ls)
  BY <1>1, DraftPapers
<1>3. Returned(Idle, os, ms)
  <2>1. Returned(q, os, ls)
    BY DEF Body
  <2> QED
    BY <1>2, <2>1, ReturnedSame DEF On, Special
<1>4. Kept(Idle, os, ms, ss)
  <2>1. k \in 1 .. Len(ls) /\ Len(ms) = Len(ls) /\ Len(ls) \in Nat
        /\ \A l \in 1 .. Len(ls) : l # k => ms[l] = ls[l]
    BY LenProperties DEF DraftChanged
  <2>2. ms[k] \in LineRow /\ ls[k] \in LineRow
    BY <2>1, ElementOfSeq
  <2>3. \A p : WeightOf(p, ms[k]) \in Int /\ WeightOf(p, ls[k]) \in Int
    BY <2>2, WeightType
  <2>4. \A p : Weighed(p, ms) = Weighed(p, ls) - WeightOf(p, ls[k]) + WeightOf(p, ms[k])
    BY <2>1, WeighedChange
  <2>5. \A p : p # ls[k].order => WeightOf(p, ms[k]) = 0 /\ WeightOf(p, ls[k]) = 0
    BY DEF WeightOf, DraftChanged
  <2>6. rs \in [Orders -> Int]
    BY DEF Body, Kept
  <2>7. \A p \in Orders : ss[p] = rs[p] + (WeightOf(p, ms[k]) - WeightOf(p, ls[k]))
    BY <2>3, <2>5, <2>6
  <2>8. ss \in [Orders -> Int]
    BY <2>3, <2>6
  <2>9. \A p : Weighed(p, ls) \in Int
    BY WeighedType
  <2>10. \A p \in Orders : os[p].returnOf = Absent => rs[p] = Weighed(p, ls)
    <3>1. \A p : Coming(q, p) = 0
      BY DEF Coming, Special
    <3> QED
      BY <2>6, <3>1 DEF Body, Kept
  <2>11. \A p : Coming(Idle, p) = 0
    BY DEF Coming, Idle
  <2>12. ASSUME NEW p \in Orders, os[p].returnOf = Absent
         PROVE  ss[p] + Coming(Idle, p) = Weighed(p, ms)
    <3>1. /\ ss[p] = rs[p] + (WeightOf(p, ms[k]) - WeightOf(p, ls[k])) /\ rs[p] = Weighed(p, ls)
          /\ Weighed(p, ms) = Weighed(p, ls) - WeightOf(p, ls[k]) + WeightOf(p, ms[k])
          /\ WeightOf(p, ms[k]) \in Int /\ WeightOf(p, ls[k]) \in Int /\ Weighed(p, ls) \in Int
          /\ Coming(Idle, p) = 0
      BY <2>3, <2>4, <2>7, <2>9, <2>10, <2>11, <2>12
    <3> QED
      BY <3>1
  <2> QED
    BY <2>8, <2>12 DEF Kept
<1>5. Fresh(Idle, ms, invs)
  BY DEF Fresh, Idle
<1> QED
  BY <1>2, <1>3, <1>4, <1>5 DEF Body, Marking, Shipping, Idle

\* A line is removed: careful users only remove drafts.
LEMMA RemoveBody ==
    ASSUME Inv, NEW t \in Tabs, CommitRemove(t),
           Body(request[t], orders, lines, reserved, invoices, shipped)
    PROVE  Body(Idle, orders', lines', reserved', invoices', shipped')
<1> DEFINE q == request[t]
           k == q.line
<1>1. q.op = "remove" /\ UNCHANGED <<orders, invoices, shipped>>
  BY DEF CommitRemove
<1>2. k \in 1 .. Len(lines) /\ lines \in Seq(LineRow) /\ lines[k] \in LineRow
  BY <1>1, Known, RequestFields DEF LineIds
<1>3. q.row = lines[k] /\ lines[k].status = "draft" /\ q.order = lines[k].order
  BY <1>1 DEF Body, Fresh, FreshRow
<1>4. q.op \notin Special
  BY <1>1 DEF Special
<1>5. CASE lines[k].fee
  <2>1. UNCHANGED <<lines, reserved>>
    BY <1>3, <1>5 DEF CommitRemove
  <2>2. Fresh(Idle, lines, invoices) /\ Idle.op \notin Special
    BY DEF Fresh, Idle, Special
  <2>3. Body(Idle, orders, lines, reserved, invoices, shipped)
    BY <1>4, <2>2, BodyReads
  <2> QED
    BY <1>1, <2>1, <2>3
<1>6. CASE ~lines[k].fee
  <2> DEFINE row == [lines[k] EXCEPT !.status = "cancelled"]
             ms == [lines EXCEPT ![k] = row]
  <2>1. lines' = ms
    BY <1>3, <1>6 DEF CommitRemove
  <2>2. /\ row \in LineRow /\ row.status = "cancelled" /\ row.order = lines[k].order
        /\ row.fee = lines[k].fee
    <3> DEFINE x == lines[k]
    <3> HIDE DEF x
    <3> QED
      BY <1>2 DEF LineRow, LineStatus, x
  <2>3. ms \in Seq(LineRow) /\ ms[k] = row /\ Len(ms) = Len(lines)
        /\ \A l \in 1 .. Len(lines) : l # k => ms[l] = lines[l]
    <3> HIDE DEF row, k
    <3> QED
      BY <1>2, <2>2
  <2>4. DraftChanged(lines, ms, k)
    BY <1>2, <1>3, <2>2, <2>3 DEF DraftChanged
  <2>5. lines[k].order \in Orders /\ lines[k].qty \in Int
    BY <1>2 DEF LineRow
  <2>6. /\ WeightOf(lines[k].order, ms[k]) = 0
        /\ WeightOf(lines[k].order, lines[k]) = lines[k].qty
    BY <1>3, <1>6, <2>2, <2>3 DEF WeightOf
  <2>7. reserved' = [reserved EXCEPT ![lines[k].order] = @ - lines[k].qty]
    BY <1>3, <1>6 DEF CommitRemove
  <2>8. reserved' = [reserved EXCEPT ![lines[k].order] =
                       @ + (WeightOf(lines[k].order, ms[k]) - WeightOf(lines[k].order, lines[k]))]
    <3>1. reserved \in [Orders -> Int]
      BY DEF Body, Kept
    <3> DEFINE a == reserved[lines[k].order]
               n == lines[k].qty
    <3>2. a \in Int /\ n \in Int
      BY <2>5, <3>1
    <3>3. a - n = a + (0 - n)
      <4> HIDE DEF a, n
      <4> QED
        BY <3>2
    <3>4. reserved' = [reserved EXCEPT ![lines[k].order] = a - n]
      BY <2>7
    <3>5. 0 - n = WeightOf(lines[k].order, ms[k]) - WeightOf(lines[k].order, lines[k])
      BY <2>6
    <3> QED
      BY <3>3, <3>4, <3>5
  <2>9. Body(q, orders, lines, reserved, invoices, shipped)
    OBVIOUS
  <2> HIDE DEF ms, k, q
  <2>10. Body(Idle, orders, ms, reserved', invoices, shipped)
    BY <1>2, <1>4, <2>3, <2>4, <2>5, <2>8, <2>9, ChangeBody
  <2> QED
    BY <1>1, <2>1, <2>10
<1> QED
  BY <1>5, <1>6

\* A line is changed: the reservation gets the difference.
LEMMA UpdateBody ==
    ASSUME Inv, NEW t \in Tabs, CommitUpdate(t),
           Body(request[t], orders, lines, reserved, invoices, shipped)
    PROVE  Body(Idle, orders', lines', reserved', invoices', shipped')
<1> DEFINE q == request[t]
           k == q.line
           row == [lines[k] EXCEPT !.qty = q.qty, !.discount = q.discount]
           ms == [lines EXCEPT ![k] = row]
<1>1. q.op = "update" /\ UNCHANGED <<orders, invoices, shipped>>
  BY DEF CommitUpdate
<1>2. /\ k \in 1 .. Len(lines) /\ lines \in Seq(LineRow) /\ lines[k] \in LineRow
      /\ q.qty \in Int /\ q.discount \in BOOLEAN
  BY <1>1, Known, RequestFields DEF LineIds
<1>3. q.row = lines[k] /\ lines[k].status = "draft" /\ q.order = lines[k].order /\ ~lines[k].fee
  BY <1>1 DEF Body, Fresh, FreshRow
<1>4. q.op \notin Special
  BY <1>1 DEF Special
<1>5. lines' = ms
  BY DEF CommitUpdate
<1>6. /\ row \in LineRow /\ row.status = lines[k].status /\ row.order = lines[k].order
      /\ row.fee = lines[k].fee /\ row.qty = q.qty
  <2> DEFINE x == lines[k]
  <2> HIDE DEF x
  <2> QED
    BY <1>2 DEF LineRow, x
<1>7. ms \in Seq(LineRow) /\ ms[k] = row /\ Len(ms) = Len(lines)
      /\ \A l \in 1 .. Len(lines) : l # k => ms[l] = lines[l]
  <2> HIDE DEF row, k
  <2> QED
    BY <1>2, <1>6
<1>8. DraftChanged(lines, ms, k)
  BY <1>2, <1>3, <1>6, <1>7 DEF DraftChanged
<1>9. lines[k].order \in Orders /\ lines[k].qty \in Int
  BY <1>2 DEF LineRow
<1>10. /\ WeightOf(lines[k].order, ms[k]) = q.qty
       /\ WeightOf(lines[k].order, lines[k]) = lines[k].qty
  BY <1>3, <1>6, <1>7 DEF WeightOf
<1>11. reserved' = [reserved EXCEPT ![lines[k].order] = @ + (q.qty - lines[k].qty)]
  BY <1>3 DEF CommitUpdate
<1>12. reserved' = [reserved EXCEPT ![lines[k].order] =
                      @ + (WeightOf(lines[k].order, ms[k]) - WeightOf(lines[k].order, lines[k]))]
  BY <1>10, <1>11
<1>13. Body(q, orders, lines, reserved, invoices, shipped)
  OBVIOUS
<1> HIDE DEF ms, k, q
<1>14. Body(Idle, orders, ms, reserved', invoices, shipped)
  BY <1>2, <1>4, <1>7, <1>8, <1>9, <1>12, <1>13, ChangeBody
<1> QED
  BY <1>1, <1>5, <1>14

-----------------------------------------------------------------------------
(* An invoice is committed.                                                *)

\* The new invoice lists its items; the others list what they listed.
LEMMA WithAppended ==
    ASSUME NEW invs \in Seq(InvoiceRow), NEW row \in InvoiceRow
    PROVE  /\ Len(Append(invs, row)) = Len(invs) + 1 /\ Len(invs) \in Nat
           /\ Append(invs, row)[Len(invs) + 1] = row
           /\ \A i \in 1 .. Len(invs) : Append(invs, row)[i] = invs[i]
           /\ \A l : With(l, invs) \subseteq 1 .. Len(invs)
           /\ \A l : l \notin DOMAIN row.items => With(l, Append(invs, row)) = With(l, invs)
           /\ \A l : l \in DOMAIN row.items =>
                With(l, Append(invs, row)) = With(l, invs) \union {Len(invs) + 1}
<1> DEFINE all == Append(invs, row)
           n == Len(invs)
<1>1. /\ n \in Nat /\ Len(all) = n + 1 /\ all[n + 1] = row
      /\ \A i \in 1 .. n : all[i] = invs[i]
      /\ DOMAIN all = 1 .. n + 1 /\ DOMAIN invs = 1 .. n
  OBVIOUS
<1> HIDE DEF all, n
<1>2. \A i \in 1 .. n + 1 : i \in 1 .. n \/ i = n + 1
  BY <1>1
<1>3. 1 .. n \subseteq 1 .. n + 1 /\ n + 1 \in 1 .. n + 1 /\ n + 1 \notin 1 .. n
  BY <1>1
<1>4. \A l : With(l, invs) \subseteq 1 .. n
  BY <1>1 DEF With
<1>5. \A l : l \notin DOMAIN row.items => With(l, all) = With(l, invs)
  BY <1>1, <1>2, <1>3 DEF With
<1>6. \A l : l \in DOMAIN row.items => With(l, all) = With(l, invs) \union {n + 1}
  BY <1>1, <1>2, <1>3 DEF With
<1> QED
  BY <1>1, <1>4, <1>5, <1>6 DEF all, n

\* The papers of the lines once the invoice is there: its lines are to be marked.
LEMMA DocsInvoiced ==
    ASSUME NEW ls, NEW ms, NEW invs, NEW row, NEW sh,
           invs \in Seq(InvoiceRow), row \in InvoiceRow,
           Docs({}, {}, ls, invs, sh),
           \A l \in 1 .. Len(ms) : l \in DOMAIN row.items \/ (l \in 1 .. Len(ls) /\ ms[l] = ls[l]),
           \A l \in DOMAIN row.items : /\ l \in 1 .. Len(ms) /\ ms[l].status = "draft"
                                       /\ With(l, invs) = {} /\ sh[l] = 0
    PROVE  Docs(DOMAIN row.items, {}, ms, Append(invs, row), sh)
<1> DEFINE all == Append(invs, row)
<1>1. /\ Len(all) = Len(invs) + 1 /\ Len(invs) \in Nat
      /\ \A i \in 1 .. Len(invs) : all[i] = invs[i]
      /\ \A l : With(l, invs) \subseteq 1 .. Len(invs)
      /\ \A l : l \notin DOMAIN row.items => With(l, all) = With(l, invs)
      /\ \A l : l \in DOMAIN row.items => With(l, all) = With(l, invs) \union {Len(invs) + 1}
  BY WithAppended
<1> HIDE DEF all
<1>2. ASSUME NEW l \in DOMAIN row.items
      PROVE  MarkedPapers(ms[l], l, all, sh)
  BY <1>1 DEF MarkedPapers
<1>3. ASSUME NEW l \in 1 .. Len(ms), l \notin DOMAIN row.items
      PROVE  Papers(ms[l], l, all, sh)
  <2>1. l \in 1 .. Len(ls) /\ ms[l] = ls[l]
    BY <1>3
  <2>2. Papers(ls[l], l, invs, sh)
    BY <2>1 DEF Docs
  <2>3. With(l, all) = With(l, invs) /\ \A i \in With(l, invs) : all[i] = invs[i]
    BY <1>1, <1>3
  <2> QED
    BY <2>1, <2>2, <2>3 DEF Papers
<1>4. Docs(DOMAIN row.items, {}, ms, all, sh)
  BY <1>2, <1>3 DEF Docs
<1> QED
  BY <1>4 DEF all

\* The invoice, its lines and the fee line.
LEMMA InvoiceBody ==
    ASSUME Inv, Inv', NEW t \in Tabs, CommitInvoice(t), ~NumberTaken(request[t].number),
           NEW r, request' = [request EXCEPT ![t] = r],
           Body(request[t], orders, lines, reserved, invoices, shipped)
    PROVE  Body(r, orders', lines', reserved', invoices', shipped')
<1> DEFINE q == request[t]
           f == Len(lines) + 1
           feeRow == FeeLine(q.order, q.items)
           items == IF q.fee THEN [l \in DOMAIN q.items \union {f} |->
                                    IF l = f THEN feeRow.qty ELSE q.items[l]]
                    ELSE q.items
           row == [order |-> q.order, number |-> q.number, items |-> items]
<1>1. /\ q.op = "invoice" /\ UNCHANGED <<orders, reserved, shipped>>
      /\ Room(IF q.fee THEN 1 ELSE 0)
      /\ lines' = IF q.fee THEN Append(lines, feeRow) ELSE lines
      /\ invoices' = Append(invoices, row)
      /\ r = [op |-> "mark", order |-> q.order, items |-> items, todo |-> DOMAIN items,
              pending |-> {}]
  <2>1. request \in [Tabs -> RequestsOn(LineIds)]
    BY DEF Inv, RequestsOK, LineIds
  <2> QED
    BY <2>1 DEF CommitInvoice, Posts
<1>2. /\ q.order \in Orders /\ q.fee \in BOOLEAN /\ q.items \in InvoiceItems
      /\ q.number \in Nat \ {0}
  BY <1>1, Known, RequestFields
<1>3. /\ lines \in Seq(LineRow) /\ Len(lines) \in Nat /\ invoices \in Seq(InvoiceRow)
      /\ MaxLines \in Nat /\ Listed(lines, invoices) /\ Docs({}, {}, lines, invoices, shipped)
  BY <1>1, Known, CustomerOrdersAssumption DEF Body, Marking, Shipping
<1>4. FreshItems(q, lines)
  BY <1>1 DEF Body, Fresh
<1>5. /\ feeRow \in LineRow /\ feeRow.status = "draft" /\ feeRow.fee
      /\ feeRow.order = q.order
  BY <1>2 DEF FeeLine, LineRow, LineStatus
<1>6. /\ DOMAIN items = IF q.fee THEN DOMAIN q.items \union {f} ELSE DOMAIN q.items
      /\ q.fee => items[f] = feeRow.qty
  OBVIOUS
<1>7. f \notin DOMAIN q.items /\ \A l \in DOMAIN q.items : l \in 1 .. Len(lines) /\ items[l] = q.items[l]
  <2>1. f \notin 1 .. Len(lines)
    BY <1>3
  <2>2. \A l \in DOMAIN q.items : l \in 1 .. Len(lines)
    BY <1>4 DEF FreshItems
  <2> QED
    BY <2>1, <2>2
<1>8. row.items = items
  OBVIOUS
<1>9. Append(invoices, row) \in Seq(InvoiceRow)
  <2>1. invoices' \in Seq(InvoiceRow)
    BY DEF Inv, InvoicesOK
  <2> QED
    BY <1>1, <2>1
<1>10. row \in InvoiceRow
  <2>1. Append(invoices, row)[Len(invoices) + 1] = row
    BY <1>3
  <2>2. Len(Append(invoices, row)) = Len(invoices) + 1 /\ Len(invoices) \in Nat
    BY <1>3
  <2> HIDE DEF row
  <2> QED
    BY <1>9, <2>1, <2>2, ElementOfSeq
<1>11. /\ 1 .. Len(lines) \subseteq 1 .. Len(lines')
       /\ \A l \in 1 .. Len(lines) : lines'[l] = lines[l]
       /\ Len(lines') = IF q.fee THEN f ELSE Len(lines)
       /\ q.fee => lines'[f] = feeRow
  <2> HIDE DEF feeRow
  <2> QED
    BY <1>1, <1>3, <1>5
<1>12. /\ q.fee => f \in 1 .. Len(lines') /\ With(f, invoices) = {} /\ shipped[f] = 0
       /\ \A l \in 1 .. Len(lines') : l \in 1 .. Len(lines) \/ (q.fee /\ l = f)
  <2>1. ASSUME q.fee PROVE f \in 1 .. Len(lines') /\ With(f, invoices) = {} /\ shipped[f] = 0
    <3>1. f \in 1 .. MaxLines /\ f > Len(lines)
      BY <1>1, <1>3, <2>1 DEF Room
    <3>2. f \in 1 .. Len(lines')
      BY <1>3, <1>11, <2>1
    <3> HIDE DEF f
    <3> QED
      BY <1>3, <3>1, <3>2, Unlisted
  <2>2. \A l \in 1 .. Len(lines') : l \in 1 .. Len(lines) \/ (q.fee /\ l = f)
    BY <1>3, <1>11
  <2> QED
    BY <2>1, <2>2
<1>13. /\ orders' = orders /\ reserved' = reserved /\ shipped' = shipped
       /\ Body(q, orders, lines, reserved, invoices, shipped)
  BY <1>1
<1>14. /\ lines' = IF q.fee THEN Append(lines, feeRow) ELSE lines
       /\ invoices' = Append(invoices, row)
       /\ r = [op |-> "mark", order |-> q.order, items |-> items, todo |-> DOMAIN items,
               pending |-> {}]
  BY <1>1
<1> HIDE DEF q, f, feeRow, items, row
<1>15. \A l \in DOMAIN items : (l \in DOMAIN q.items /\ l \in 1 .. Len(lines)) \/ (q.fee /\ l = f)
  BY <1>6, <1>7
<1>16. \A l \in DOMAIN q.items : /\ Selected(lines[l], q.order, q.items[l])
                                 /\ With(l, invoices) = {} /\ shipped[l] = 0
  <2> SUFFICES ASSUME NEW l \in DOMAIN q.items
               PROVE  /\ Selected(lines[l], q.order, q.items[l])
                      /\ With(l, invoices) = {} /\ shipped[l] = 0
    OBVIOUS
  <2>1. l \in 1 .. Len(lines) /\ Selected(lines[l], q.order, q.items[l])
    BY <1>4 DEF FreshItems
  <2>2. Papers(lines[l], l, invoices, shipped)
    BY <1>3, <2>1 DEF Docs
  <2> QED
    BY <2>1, <2>2 DEF Papers, IsBilled, Selected
<1>17. Docs(DOMAIN items, {}, lines', Append(invoices, row), shipped)
  <2>1. \A l \in DOMAIN row.items : /\ l \in 1 .. Len(lines') /\ lines'[l].status = "draft"
                                    /\ With(l, invoices) = {} /\ shipped[l] = 0
    BY <1>5, <1>8, <1>11, <1>12, <1>15, <1>16 DEF Selected
  <2>2. \A l \in 1 .. Len(lines') : l \in DOMAIN row.items
                                      \/ (l \in 1 .. Len(lines) /\ lines'[l] = lines[l])
    BY <1>6, <1>8, <1>11, <1>12
  <2>3. Docs(DOMAIN row.items, {}, lines', Append(invoices, row), shipped)
    BY <1>3, <1>10, <2>1, <2>2, DocsInvoiced
  <2> QED
    BY <1>8, <2>3
<1>18. Docs(Marking(r), Shipping(r), lines', invoices', shipped')
  <2>1. Marking(r) = DOMAIN items /\ Shipping(r) = {}
    BY <1>14 DEF Marking, Shipping
  <2> QED
    BY <1>13, <1>14, <1>17, <2>1
<1>19. /\ Len(Append(invoices, row)) = Len(invoices) + 1 /\ Len(invoices) \in Nat
       /\ Append(invoices, row)[Len(invoices) + 1] = row
       /\ \A i \in 1 .. Len(invoices) : Append(invoices, row)[i] = invoices[i]
  BY <1>3, <1>10, WithAppended
<1>20. Listed(lines', invoices')
  <2> SUFFICES ASSUME NEW i \in 1 .. Len(invoices) + 1
               PROVE  DOMAIN Append(invoices, row)[i].items \subseteq 1 .. Len(lines')
    BY <1>14, <1>19 DEF Listed
  <2>1. CASE i = Len(invoices) + 1
    BY <1>8, <1>11, <1>12, <1>15, <1>19, <2>1
  <2>2. CASE i # Len(invoices) + 1
    <3>1. i \in 1 .. Len(invoices)
      BY <1>19, <2>2
    <3> QED
      BY <1>3, <1>11, <1>19, <3>1 DEF Listed
  <2> QED
    BY <2>1, <2>2
<1>21. Fresh(r, lines', invoices')
  <2>1. Len(invoices') > 0 /\ r.items = invoices'[Len(invoices')].items
    BY <1>8, <1>14, <1>19
  <2>2. ASSUME NEW l \in DOMAIN items
        PROVE  ToMark(lines'[l], q.order, items[l])
    <3>1. CASE l \in DOMAIN q.items
      BY <1>7, <1>11, <1>16, <3>1 DEF ToMark, Selected
    <3>2. CASE q.fee /\ l = f
      BY <1>5, <1>6, <1>11, <3>2 DEF ToMark
    <3> QED
      BY <1>15, <3>1, <3>2
  <2>3. HasArticle(r, lines')
    <3>1. PICK l \in DOMAIN q.items : TRUE
      BY <1>4 DEF FreshItems
    <3>2. l \in DOMAIN items /\ l \in 1 .. Len(lines')
      BY <1>6, <1>7, <1>11
    <3>3. lines'[l].order = q.order /\ ~lines'[l].fee
      BY <1>7, <1>11, <1>16 DEF Selected
    <3> QED
      BY <1>14, <3>2, <3>3 DEF HasArticle
  <2>4. FreshMarks(r, lines', invoices')
    BY <1>14, <2>1, <2>2, <2>3 DEF FreshMarks
  <2> QED
    BY <1>14, <2>4 DEF Fresh
<1>22. Kept(r, orders', lines', reserved')
  <2>1. \A p : Weighed(p, lines') = Weighed(p, lines)
    <3>1. CASE q.fee
      <4>1. \A p : WeightOf(p, feeRow) = 0
        BY <1>5 DEF WeightOf
      <4>2. \A p : Weighed(p, Append(lines, feeRow)) = Weighed(p, lines) + WeightOf(p, feeRow)
        BY <1>3, <1>5, WeighedAppended
      <4>3. \A p : Weighed(p, lines) \in Int
        BY <1>3, WeighedType
      <4> QED
        BY <1>14, <3>1, <4>1, <4>2, <4>3
    <3>2. CASE ~q.fee
      BY <1>14, <3>2
    <3> QED
      BY <3>1, <3>2
  <2>2. \A p : Coming(r, p) = 0 /\ Coming(q, p) = 0
    BY <1>1, <1>14 DEF Coming, q
  <2> QED
    BY <1>13, <2>1, <2>2 DEF Body, Kept
<1>23. Returned(r, orders', lines')
  <2>1. SameLines(lines', lines)
    BY <1>5, <1>11, <1>12 DEF SameLines, SameLine, IsBilled
  <2>2. Returned(q, orders, lines)
    BY <1>13 DEF Body
  <2>3. q.op = "invoice"
    BY <1>1 DEF q
  <2>4. Returned(r, orders, lines')
    BY <2>1, <2>2, <2>3, ReturnedSame DEF On
  <2> QED
    BY <1>13, <2>4
<1> QED
  BY <1>18, <1>20, <1>21, <1>22, <1>23 DEF Body

-----------------------------------------------------------------------------
(* The lines of an invoice are marked.                                     *)

\* Of the lines M of ls to be marked, those of N still are in ms; the others are
\* invoiced, and the new lines are drafts without papers.
MarkedTo(M, N, ls, ms, invs, sh) ==
    /\ N \subseteq M /\ M \subseteq 1 .. Len(ls)
    /\ \A k \in 1 .. Len(ls) : k \in 1 .. Len(ms)
    /\ \A k \in N : ms[k].status = "draft"
    /\ \A k \in M \ N : ms[k].status = "invoiced" /\ ms[k].qty = invs[Len(invs)].items[k]
    /\ \A k \in 1 .. Len(ls) : k \notin M => ms[k] = ls[k]
    /\ \A k \in 1 .. Len(ms) : k \notin 1 .. Len(ls) =>
           ms[k].status = "draft" /\ With(k, invs) = {} /\ sh[k] = 0

\* Marking the lines of an invoice leaves every line with its papers.
LEMMA DocsMarked ==
    ASSUME NEW ls, NEW ms, NEW M, NEW N, NEW invs, NEW sh,
           Docs(M, {}, ls, invs, sh), MarkedTo(M, N, ls, ms, invs, sh)
    PROVE  Docs(N, {}, ms, invs, sh)
<1> USE DEF MarkedTo
<1>1. ASSUME NEW k \in N
      PROVE  MarkedPapers(ms[k], k, invs, sh)
  BY DEF Docs, MarkedPapers
<1>2. ASSUME NEW k \in M \ N
      PROVE  Papers(ms[k], k, invs, sh)
  <2>1. MarkedPapers(ls[k], k, invs, sh)
    BY DEF Docs
  <2>2. With(k, invs) = {Len(invs)} /\ sh[k] = 0
    BY <2>1 DEF MarkedPapers
  <2>3. ms[k].status = "invoiced" /\ ms[k].qty = invs[Len(invs)].items[k]
    OBVIOUS
  <2> QED
    BY <2>2, <2>3 DEF Papers, IsBilled
<1>3. ASSUME NEW k \in 1 .. Len(ls), k \notin M
      PROVE  Papers(ms[k], k, invs, sh)
  BY <1>3 DEF Docs
<1>4. ASSUME NEW k \in 1 .. Len(ms), k \notin 1 .. Len(ls)
      PROVE  Papers(ms[k], k, invs, sh)
  BY <1>4 DEF Papers, IsBilled
<1> QED
  BY <1>1, <1>2, <1>3, <1>4 DEF Docs

\* As SameLines, but for the lines of order o.
SameBut(ms, ls, o) ==
    /\ \A l \in 1 .. Len(ls) : /\ l \in 1 .. Len(ms)
                               /\ ms[l].order = ls[l].order /\ ms[l].fee = ls[l].fee
                               /\ ls[l].order = o \/ (IsBilled(ms[l]) <=> IsBilled(ls[l]))
    /\ \A l \in 1 .. Len(ms) : l \in 1 .. Len(ls) \/ ~IsBilled(ms[l])

\* The returns while lines of order o are marked, and once they are.
LEMMA ReturnedMarked ==
    ASSUME NEW q, NEW r, NEW os, NEW ls, NEW ms, Returned(q, os, ls),
           SameBut(ms, ls, q.order), q.op = "mark", r.order = q.order,
           r.op = "mark" \/ (r.op = "recalculate" /\ HasBilledArticle(q.order, ms))
    PROVE  Returned(r, os, ms)
<1>1. \A o : o # q.order => (HasBilled(o, ms) <=> HasBilled(o, ls))
  BY DEF SameBut, HasBilled
<1>2. \A o : o # q.order => (HasBilledArticle(o, ms) <=> HasBilledArticle(o, ls))
  BY DEF SameBut, HasBilledArticle
<1>3. \A o : (\E l \in 1 .. Len(ls) : ls[l].order = o) => \E l \in 1 .. Len(ms) : ms[l].order = o
  BY DEF SameBut
<1>4. \A o : On(q, {"mark", "recalculate"}, o) <=> o = q.order
  BY DEF On
<1>5. \A o : On(r, {"mark", "recalculate"}, o) <=> o = q.order
  BY DEF On
<1>6. \A o : On(q, {"mark"}, o) <=> o = q.order
  BY DEF On
<1>7. \A o : o # q.order => ~On(r, {"mark"}, o)
  BY DEF On
<1>8. ~On(r, {"mark"}, q.order) => HasBilledArticle(q.order, ms)
  BY DEF On
<1> QED
  BY <1>1, <1>2, <1>3, <1>4, <1>5, <1>6, <1>7, <1>8 DEF Returned

\* What a request that marks lines knows of the invoice and of its lines.
LEMMA MarkFacts ==
    ASSUME Inv, NEW t \in Tabs, request[t].op = "mark",
           Body(request[t], orders, lines, reserved, invoices, shipped)
    PROVE  /\ FreshMarks(request[t], lines, invoices)
           /\ Docs(request[t].todo \union request[t].pending, {}, lines, invoices, shipped)
           /\ request[t].todo \union request[t].pending \subseteq DOMAIN request[t].items
           /\ DOMAIN request[t].items \subseteq 1 .. Len(lines)
           /\ \A k \in DOMAIN request[t].items : request[t].items[k] \in Int
           /\ lines \in Seq(LineRow) /\ Len(lines) \in Nat
           /\ \A k \in 1 .. Len(lines) : lines[k] \in LineRow
<1> DEFINE q == request[t]
<1>1. q \in [op : {"mark"}, order : Orders, items : InvoiceItems,
             todo : SUBSET (1 .. MaxLines), pending : SUBSET (1 .. MaxLines)]
      /\ q.todo \union q.pending \subseteq DOMAIN q.items
  BY MarkKnows
<1>2. FreshMarks(q, lines, invoices) /\ Listed(lines, invoices)
  BY DEF Body, Fresh
<1>3. Docs(q.todo \union q.pending, {}, lines, invoices, shipped)
  BY DEF Body, Marking, Shipping
<1>4. DOMAIN q.items \subseteq 1 .. Len(lines)
  <2>1. Len(invoices) \in 1 .. Len(invoices) /\ q.items = invoices[Len(invoices)].items
    BY <1>2, Known DEF FreshMarks
  <2> HIDE DEF q
  <2> QED
    BY <1>2, <2>1 DEF Listed
<1>5. \A k \in DOMAIN q.items : q.items[k] \in Int
  BY <1>1, ItemsType, CustomerOrdersAssumption
<1>6. lines \in Seq(LineRow) /\ Len(lines) \in Nat /\ \A k \in 1 .. Len(lines) : lines[k] \in LineRow
  BY Known DEF LineIds
<1> QED
  BY <1>1, <1>2, <1>3, <1>4, <1>5, <1>6

\* Giving some lines a status changes nothing else of them.
LEMMA StatusRows ==
    ASSUME lines \in Seq(LineRow), NEW S, NEW status \in LineStatus
    PROVE  /\ WithStatus(S, status) \in Seq(LineRow)
           /\ Len(WithStatus(S, status)) = Len(lines)
           /\ \A k \in 1 .. Len(lines) :
                /\ k \notin S => WithStatus(S, status)[k] = lines[k]
                /\ k \in S => /\ WithStatus(S, status)[k].status = status
                              /\ WithStatus(S, status)[k].qty = lines[k].qty
                              /\ WithStatus(S, status)[k].order = lines[k].order
                              /\ WithStatus(S, status)[k].fee = lines[k].fee
<1> DEFINE us == WithStatus(S, status)
           new(x) == [x EXCEPT !.status = status]
<1>1. Len(lines) \in Nat /\ \A k \in 1 .. Len(lines) : lines[k] \in LineRow
  BY LenProperties, ElementOfSeq
<1>2. us = [k \in 1 .. Len(lines) |-> IF k \in S THEN new(lines[k]) ELSE lines[k]]
  BY DEF WithStatus, LineIds
<1>3. \A x \in LineRow : /\ new(x) \in LineRow /\ new(x).status = status
                         /\ new(x).qty = x.qty /\ new(x).order = x.order /\ new(x).fee = x.fee
  BY DEF LineRow
<1> HIDE DEF us, new
<1>4. us \in [1 .. Len(lines) -> LineRow]
  BY <1>1, <1>2, <1>3
<1>5. us \in Seq(LineRow) /\ Len(us) = Len(lines)
  BY <1>1, <1>4
<1>6. ASSUME NEW k \in 1 .. Len(lines)
      PROVE  /\ k \notin S => us[k] = lines[k]
             /\ k \in S => /\ us[k].status = status /\ us[k].qty = lines[k].qty
                           /\ us[k].order = lines[k].order /\ us[k].fee = lines[k].fee
  BY <1>1, <1>2, <1>3
<1> QED
  BY <1>5, <1>6 DEF us

\* Between draft, invoiced and shipped, a status does not change the weights.
LEMMA StatusWeighs ==
    ASSUME lines \in Seq(LineRow), NEW S, NEW status \in {"invoiced", "shipped"},
           \A k \in 1 .. Len(lines) : k \in S => lines[k].status # "cancelled", NEW o
    PROVE  Weighed(o, WithStatus(S, status)) = Weighed(o, lines)
<1> DEFINE us == WithStatus(S, status)
<1>1. status \in LineStatus /\ status # "cancelled"
  BY DEF LineStatus
<1>2. /\ us \in Seq(LineRow) /\ Len(us) = Len(lines)
      /\ \A k \in 1 .. Len(lines) :
                /\ k \notin S => us[k] = lines[k]
                /\ k \in S => /\ us[k].status = status
                              /\ us[k].qty = lines[k].qty
                              /\ us[k].order = lines[k].order
                              /\ us[k].fee = lines[k].fee
  BY <1>1, StatusRows
<1> HIDE DEF us
<1>3. \A k \in 1 .. Len(lines) : WeightOf(o, us[k]) = WeightOf(o, lines[k])
  BY <1>1, <1>2 DEF WeightOf
<1>4. Weighed(o, us) = Weighed(o, lines)
  BY <1>2, <1>3, WeighedSame
<1> QED
  BY <1>4 DEF us

\* The marks are written.
LEMMA MarksBody ==
    ASSUME Inv, NEW t \in Tabs, CommitMarks(t),
           NEW r, request' = [request EXCEPT ![t] = r],
           Body(request[t], orders, lines, reserved, invoices, shipped)
    PROVE  Body(r, orders', lines', reserved', invoices', shipped')
<1> DEFINE q == request[t]
           us == WithStatus(q.pending, "invoiced")
<1>1. /\ q.op = "mark" /\ q.todo = {} /\ lines' = us
      /\ UNCHANGED <<orders, reserved, invoices, shipped>>
      /\ r = [op |-> "recalculate", order |-> q.order]
  <2>1. request \in [Tabs -> RequestsOn(LineIds)]
    BY DEF Inv, RequestsOK, LineIds
  <2> QED
    BY <2>1 DEF CommitMarks, Posts
<1>2. /\ FreshMarks(q, lines, invoices)
      /\ Docs(q.todo \union q.pending, {}, lines, invoices, shipped)
      /\ q.todo \union q.pending \subseteq DOMAIN q.items
      /\ DOMAIN q.items \subseteq 1 .. Len(lines)
      /\ lines \in Seq(LineRow)
  BY <1>1, MarkFacts
<1>3. /\ us \in Seq(LineRow) /\ Len(us) = Len(lines)
      /\ \A k \in 1 .. Len(lines) :
           /\ k \notin q.pending => us[k] = lines[k]
           /\ k \in q.pending => /\ us[k].status = "invoiced" /\ us[k].qty = lines[k].qty
                                 /\ us[k].order = lines[k].order /\ us[k].fee = lines[k].fee
  <2>1. "invoiced" \in LineStatus
    BY DEF LineStatus
  <2> QED
    BY <1>2, <2>1, StatusRows
<1>4. \A k \in q.pending : lines[k].status = "draft"
  BY <1>2 DEF Docs, MarkedPapers
<1>5. \A o : Weighed(o, us) = Weighed(o, lines)
  <2>1. \A k \in 1 .. Len(lines) : k \in q.pending => lines[k].status # "cancelled"
    BY <1>4
  <2> QED
    BY <1>2, <2>1, StatusWeighs
<1>6. Body(q, orders, lines, reserved, invoices, shipped)
  OBVIOUS
<1> HIDE DEF q, us
<1>7. Listed(us, invoices)
  BY <1>3, <1>6 DEF Body, Listed
<1>8. Docs({}, {}, us, invoices, shipped)
  <2> DEFINE M == q.todo \union q.pending
  <2>1. M \subseteq 1 .. Len(lines) /\ Docs(M, {}, lines, invoices, shipped)
    BY <1>2
  <2>2. \A k \in M \ {} : us[k].status = "invoiced"
                          /\ us[k].qty = invoices[Len(invoices)].items[k]
    BY <1>1, <1>2, <1>3 DEF FreshMarks
  <2>3. \A k \in 1 .. Len(lines) : k \notin M => us[k] = lines[k]
    BY <1>3
  <2> HIDE DEF M
  <2>4. MarkedTo(M, {}, lines, us, invoices, shipped)
    BY <1>3, <2>1, <2>2, <2>3 DEF MarkedTo
  <2> QED
    BY <2>1, <2>4, DocsMarked
<1>9. Fresh(r, us, invoices) /\ Marking(r) = {} /\ Shipping(r) = {}
  BY <1>1 DEF Fresh, Marking, Shipping
<1>10. Kept(r, orders, us, reserved)
  <2>1. \A p : Coming(r, p) = 0 /\ Coming(q, p) = 0
    BY <1>1 DEF Coming
  <2> QED
    BY <1>5, <1>6, <2>1 DEF Body, Kept
<1>11. Returned(r, orders, us)
  <2>1. SameBut(us, lines, q.order)
    <3>1. \A k \in q.pending : lines[k].order = q.order
      BY <1>2 DEF FreshMarks
    <3> QED
      BY <1>3, <3>1 DEF SameBut
  <2>2. HasBilledArticle(q.order, us)
    <3>1. PICK k \in DOMAIN q.items :
            /\ k \in 1 .. Len(lines) /\ lines[k].order = q.order /\ ~lines[k].fee
            /\ k \in q.todo \union q.pending \/ lines[k].status = "invoiced"
      BY <1>2 DEF FreshMarks, HasArticle
    <3>2. k \in 1 .. Len(us) /\ us[k].order = q.order /\ ~us[k].fee /\ us[k].status = "invoiced"
      BY <1>1, <1>3, <3>1
    <3> QED
      BY <3>2 DEF HasBilledArticle, IsBilled
  <2> QED
    BY <1>1, <1>6, <2>1, <2>2, ReturnedMarked DEF Body
<1>12. Body(r, orders, us, reserved, invoices, shipped)
  BY <1>7, <1>8, <1>9, <1>10, <1>11 DEF Body
<1> QED
  BY <1>1, <1>12

\* The request of a worker that has marked line l as well.
MarkedAlso(r, q, l, pending) ==
    /\ r.op = "mark" /\ r.order = q.order /\ r.items = q.items
    /\ r.todo = q.todo \ {l} /\ r.pending = pending

\* A line that is invoiced whole waits for the commit.
LEMMA MarkWholeBody ==
    ASSUME Inv, NEW t \in Tabs, NEW l, request[t].op = "mark", l \in request[t].todo,
           lines[l].fee \/ lines[l].qty = request[t].items[l],
           NEW r, MarkedAlso(r, request[t], l, request[t].pending \union {l}),
           Body(request[t], orders, lines, reserved, invoices, shipped)
    PROVE  Body(r, orders, lines, reserved, invoices, shipped)
<1> DEFINE q == request[t]
<1>1. FreshMarks(q, lines, invoices)
  BY MarkFacts
<1>2. /\ Body(q, orders, lines, reserved, invoices, shipped) /\ q.op = "mark" /\ l \in q.todo
      /\ lines[l].fee \/ lines[l].qty = q.items[l]
      /\ MarkedAlso(r, q, l, q.pending \union {l})
  OBVIOUS
<1> HIDE DEF q
<1>3. r.todo \union r.pending = q.todo \union q.pending
  BY <1>2 DEF MarkedAlso
<1>4. Marking(r) = Marking(q) /\ Shipping(r) = Shipping(q)
  BY <1>2, <1>3 DEF Marking, Shipping, MarkedAlso
<1>5. FreshMarks(r, lines, invoices)
  <2>1. HasArticle(r, lines)
    BY <1>1, <1>2, <1>3 DEF FreshMarks, HasArticle, MarkedAlso
  <2>2. \A k \in r.pending : lines[k].order = r.order /\ lines[k].qty = r.items[k]
    <3>1. lines[l].order = q.order /\ lines[l].qty = q.items[l]
      BY <1>1, <1>2 DEF FreshMarks, ToMark
    <3> QED
      BY <1>1, <1>2, <3>1 DEF FreshMarks, MarkedAlso
  <2>3. r.todo \cap r.pending = {} /\ \A k \in r.todo : ToMark(lines[k], r.order, r.items[k])
    BY <1>1, <1>2 DEF FreshMarks, MarkedAlso
  <2>4. Len(invoices) > 0 /\ r.items = invoices[Len(invoices)].items
    BY <1>1, <1>2 DEF FreshMarks, MarkedAlso
  <2> QED
    BY <2>1, <2>2, <2>3, <2>4 DEF FreshMarks
<1>6. Fresh(r, lines, invoices)
  BY <1>2, <1>5 DEF Fresh, MarkedAlso
<1>7. Kept(r, orders, lines, reserved)
  <2>1. \A p : Coming(r, p) = 0 /\ Coming(q, p) = 0
    BY <1>2 DEF Coming, MarkedAlso
  <2> QED
    BY <1>2, <2>1 DEF Body, Kept
<1>8. Returned(r, orders, lines)
  BY <1>2 DEF Body, Returned, On, MarkedAlso
<1> QED
  BY <1>2, <1>4, <1>6, <1>7, <1>8 DEF Body

\* Cutting a line keeps the weight of its order.
LEMMA CutWeighs ==
    ASSUME NEW o, NEW ls \in Seq(LineRow), NEW ms \in Seq(LineRow), NEW l, NEW rest \in LineRow,
           l \in 1 .. Len(ls), Len(ms) = Len(ls),
           \A k \in 1 .. Len(ls) : k # l => ms[k] = ls[k],
           ms[l].order = ls[l].order, ms[l].fee = ls[l].fee,
           rest.order = ls[l].order, rest.fee = ls[l].fee,
           ms[l].status # "cancelled", ls[l].status # "cancelled", rest.status # "cancelled",
           rest.qty = ls[l].qty - ms[l].qty
    PROVE  Weighed(o, Append(ms, rest)) = Weighed(o, ls)
<1>1. Weighed(o, ms) = Weighed(o, ls) - WeightOf(o, ls[l]) + WeightOf(o, ms[l])
  BY WeighedChange
<1>2. Weighed(o, Append(ms, rest)) = Weighed(o, ms) + WeightOf(o, rest)
  BY WeighedAppended
<1>3. ls[l] \in LineRow /\ ms[l] \in LineRow
  BY ElementOfSeq
<1>4. WeightOf(o, ls[l]) = WeightOf(o, ms[l]) + WeightOf(o, rest)
  BY <1>3 DEF WeightOf, LineRow
<1>5. /\ WeightOf(o, ls[l]) \in Int /\ WeightOf(o, ms[l]) \in Int /\ WeightOf(o, rest) \in Int
      /\ Weighed(o, ls) \in Int
  BY <1>3, WeightType, WeighedType
<1> QED
  BY <1>1, <1>2, <1>4, <1>5

\* A line invoiced in part is cut: what was marked before is written.
LEMMA MarkCutBody ==
    ASSUME Inv, NEW t \in Tabs, NEW l, request[t].op = "mark", l \in request[t].todo,
           ~lines[l].fee, Room(1),
           NEW r, MarkedAlso(r, request[t], l, {l}),
           NEW us, us = WithStatus(request[t].pending, "invoiced"),
           NEW ms, ms = Append([us EXCEPT ![l].qty = request[t].items[l]],
                               RestOf(l, request[t].items[l])),
           Body(request[t], orders, lines, reserved, invoices, shipped)
    PROVE  Body(r, orders, ms, reserved, invoices, shipped)
<1> DEFINE q == request[t]
           row == [us[l] EXCEPT !.qty = q.items[l]]
           vs == [us EXCEPT ![l] = row]
           rest == RestOf(l, q.items[l])
<1>1. /\ FreshMarks(q, lines, invoices)
      /\ Docs(q.todo \union q.pending, {}, lines, invoices, shipped)
      /\ q.todo \union q.pending \subseteq DOMAIN q.items
      /\ DOMAIN q.items \subseteq 1 .. Len(lines)
      /\ \A k \in DOMAIN q.items : q.items[k] \in Int
      /\ lines \in Seq(LineRow) /\ Len(lines) \in Nat
      /\ \A k \in 1 .. Len(lines) : lines[k] \in LineRow
  BY MarkFacts
<1>2. /\ Body(q, orders, lines, reserved, invoices, shipped) /\ q.op = "mark" /\ l \in q.todo
      /\ MarkedAlso(r, q, l, {l}) /\ ms = Append(vs, rest)
  OBVIOUS
<1>3. /\ us \in Seq(LineRow) /\ Len(us) = Len(lines)
      /\ \A k \in 1 .. Len(lines) :
           /\ k \notin q.pending => us[k] = lines[k]
           /\ k \in q.pending => /\ us[k].status = "invoiced" /\ us[k].qty = lines[k].qty
                                 /\ us[k].order = lines[k].order /\ us[k].fee = lines[k].fee
  <2>1. "invoiced" \in LineStatus
    BY DEF LineStatus
  <2> QED
    BY <1>1, <2>1, StatusRows
<1>4. /\ l \in 1 .. Len(lines) /\ l \notin q.pending /\ us[l] = lines[l]
      /\ lines[l] \in LineRow /\ q.items[l] \in Int /\ lines[l].qty \in Int
      /\ lines[l].order = q.order /\ ~lines[l].fee /\ lines[l].status = "draft"
  <2>1. l \in 1 .. Len(lines) /\ l \notin q.pending /\ l \in DOMAIN q.items
    BY <1>1, <1>2 DEF FreshMarks
  <2>2. lines[l].order = q.order
    BY <1>1, <1>2 DEF FreshMarks, ToMark
  <2>3. lines[l].status = "draft"
    BY <1>1, <1>2 DEF Docs, MarkedPapers
  <2> QED
    BY <1>1, <1>3, <2>1, <2>2, <2>3 DEF LineRow
<1>5. /\ row \in LineRow /\ row.qty = q.items[l] /\ row.status = "draft"
      /\ row.order = q.order /\ ~row.fee
  <2> DEFINE x == us[l]
             n == q.items[l]
  <2>1. x \in LineRow /\ n \in Int /\ x.status = "draft" /\ x.order = q.order /\ ~x.fee
    BY <1>4
  <2> HIDE DEF x, n
  <2> QED
    BY <2>1 DEF LineRow, x, n
<1>6. /\ rest \in LineRow /\ rest.qty = lines[l].qty - q.items[l] /\ rest.status = "draft"
      /\ rest.order = q.order /\ ~rest.fee
  <2> DEFINE x == lines[l]
             n == x.qty - q.items[l]
             y == [x EXCEPT !.qty = n, !.status = "draft", !.discount = FALSE]
  <2>1. x \in LineRow /\ n \in Int /\ x.order = q.order /\ ~x.fee
    BY <1>4
  <2>2. rest = y
    BY DEF RestOf
  <2> HIDE DEF x, n
  <2>3. /\ y \in LineRow /\ y.qty = n /\ y.status = "draft"
        /\ y.order = q.order /\ ~y.fee
    BY <2>1 DEF LineRow, LineStatus
  <2> HIDE DEF y
  <2> QED
    BY <2>2, <2>3 DEF x, n
<1> HIDE DEF q, row, rest
<1>7. /\ vs \in Seq(LineRow) /\ Len(vs) = Len(lines) /\ vs[l] = row
      /\ \A k \in 1 .. Len(lines) : k # l => vs[k] = us[k]
  BY <1>3, <1>4, <1>5
<1> HIDE DEF vs
<1> DEFINE f == Len(lines) + 1
<1>8. /\ ms \in Seq(LineRow) /\ Len(ms) = f /\ ms[f] = rest
      /\ \A k \in 1 .. Len(lines) : ms[k] = vs[k]
      /\ 1 .. Len(lines) \subseteq 1 .. f /\ f \in 1 .. f /\ f \notin 1 .. Len(lines)
      /\ \A k \in 1 .. f : k \in 1 .. Len(lines) \/ k = f
  <2>1. /\ Append(vs, rest) \in Seq(LineRow)
        /\ Len(Append(vs, rest)) = Len(vs) + 1
        /\ \A k \in 1 .. Len(vs) : Append(vs, rest)[k] = vs[k]
        /\ Append(vs, rest)[Len(vs) + 1] = rest
    BY <1>6, <1>7, AppendProperties
  <2>2. /\ ms \in Seq(LineRow) /\ Len(ms) = f /\ ms[f] = rest
        /\ \A k \in 1 .. Len(lines) : ms[k] = vs[k]
    BY <1>2, <1>7, <2>1
  <2> DEFINE a == Len(lines)
  <2>3. a \in Nat
    BY <1>1
  <2> HIDE DEF a
  <2>4. /\ 1 .. a \subseteq 1 .. (a + 1) /\ a + 1 \in 1 .. (a + 1) /\ a + 1 \notin 1 .. a
        /\ \A k \in 1 .. (a + 1) : k \in 1 .. a \/ k = a + 1
    BY <2>3
  <2> QED
    BY <2>2, <2>4 DEF a
<1>9. With(f, invoices) = {} /\ shipped[f] = 0
  <2>1. f \in 1 .. MaxLines /\ f > Len(lines) /\ Listed(lines, invoices)
    BY <1>1, <1>2, CustomerOrdersAssumption DEF Room, Body
  <2> HIDE DEF f
  <2> QED
    BY <2>1, Unlisted
<1> HIDE DEF f
<1>10. Listed(ms, invoices)
  BY <1>2, <1>8 DEF Body, Listed
<1>11. /\ q.todo \subseteq 1 .. Len(lines) /\ q.pending \subseteq 1 .. Len(lines)
       /\ q.todo \cap q.pending = {}
  BY <1>1 DEF FreshMarks
<1>12. \A k \in q.todo : k # l => ms[k] = lines[k]
  BY <1>3, <1>7, <1>8, <1>11
<1>13. \A k \in q.pending : /\ ms[k].status = "invoiced" /\ ms[k].qty = lines[k].qty
                            /\ ms[k].order = lines[k].order /\ ms[k].fee = lines[k].fee
  BY <1>3, <1>4, <1>7, <1>8, <1>11
<1>14. ms[l] = row
  BY <1>4, <1>7, <1>8
<1>15. \A k \in 1 .. Len(lines) : k \notin q.todo \union q.pending => ms[k] = lines[k]
  BY <1>2, <1>3, <1>7, <1>8
<1>16. Docs(q.todo, {}, ms, invoices, shipped)
  <2> DEFINE M == q.todo \union q.pending
             N == q.todo
  <2>1. /\ M \subseteq 1 .. Len(lines)
        /\ Docs(M, {}, lines, invoices, shipped)
        /\ N \subseteq M
    BY <1>1, <1>11
  <2>2. \A k \in M \ N : ms[k].status = "invoiced" /\ ms[k].qty = invoices[Len(invoices)].items[k]
    BY <1>1, <1>13 DEF FreshMarks
  <2>3. \A k \in N : ms[k].status = "draft"
    <3>1. \A k \in q.todo : lines[k].status = "draft"
      BY <1>1 DEF Docs, MarkedPapers
    <3> QED
      BY <1>5, <1>12, <1>14, <3>1
  <2>4. \A k \in 1 .. Len(ms) : k \notin 1 .. Len(lines) =>
               ms[k].status = "draft" /\ With(k, invoices) = {} /\ shipped[k] = 0
    BY <1>6, <1>8, <1>9
  <2>5. \A k \in 1 .. Len(lines) : k \notin M => ms[k] = lines[k]
    BY <1>15
  <2>6. \A k \in 1 .. Len(lines) : k \in 1 .. Len(ms)
    BY <1>8
  <2> HIDE DEF M, N
  <2>7. Docs(N, {}, ms, invoices, shipped)
    <3>1. MarkedTo(M, N, lines, ms, invoices, shipped)
      BY <2>1, <2>2, <2>3, <2>4, <2>5, <2>6 DEF MarkedTo
    <3> QED
      BY <2>1, <3>1, DocsMarked
  <2> QED
    BY <2>7 DEF N
<1>17. Marking(r) = q.todo /\ Shipping(r) = {}
  BY <1>2 DEF Marking, Shipping, MarkedAlso
<1>18. Fresh(r, ms, invoices)
  <2>1. HasArticle(r, ms)
    <3>1. PICK k \in DOMAIN q.items :
            /\ k \in 1 .. Len(lines) /\ lines[k].order = q.order /\ ~lines[k].fee
            /\ k \in q.todo \union q.pending \/ lines[k].status = "invoiced"
      BY <1>1 DEF FreshMarks, HasArticle
    <3>2. ms[k].order = q.order /\ ~ms[k].fee /\ k \in 1 .. Len(ms)
      BY <1>5, <1>8, <1>12, <1>13, <1>14, <1>15, <3>1
    <3>3. k \in r.todo \union r.pending \/ ms[k].status = "invoiced"
      <4>1. CASE k \in q.todo
        BY <1>2, <4>1 DEF MarkedAlso
      <4>2. CASE k \in q.pending
        BY <1>13, <4>2
      <4>3. CASE k \notin q.todo \union q.pending
        BY <1>15, <3>1, <4>3
      <4> QED
        BY <4>1, <4>2, <4>3
    <3>4. r.items = q.items /\ r.order = q.order
      BY <1>2 DEF MarkedAlso
    <3> QED
      BY <3>2, <3>3, <3>4 DEF HasArticle
  <2>2. \A k \in r.pending : ms[k].order = r.order /\ ms[k].qty = r.items[k]
    BY <1>2, <1>5, <1>14 DEF MarkedAlso
  <2>3. r.todo \cap r.pending = {} /\ \A k \in r.todo : ToMark(ms[k], r.order, r.items[k])
    BY <1>1, <1>2, <1>12 DEF FreshMarks, MarkedAlso
  <2>4. Len(invoices) > 0 /\ r.items = invoices[Len(invoices)].items
    BY <1>1, <1>2 DEF FreshMarks, MarkedAlso
  <2>5. FreshMarks(r, ms, invoices)
    BY <2>1, <2>2, <2>3, <2>4 DEF FreshMarks
  <2> QED
    BY <1>2, <2>5 DEF Fresh, MarkedAlso
<1>19. Kept(r, orders, ms, reserved)
  <2>1. \A p : Coming(r, p) = 0 /\ Coming(q, p) = 0
    BY <1>2 DEF Coming, MarkedAlso
  <2>2. \A p : Weighed(p, us) = Weighed(p, lines)
    <3>1. \A k \in 1 .. Len(lines) : k \in q.pending => lines[k].status # "cancelled"
      BY <1>1 DEF Docs, MarkedPapers
    <3>2. us = WithStatus(q.pending, "invoiced")
      BY DEF q
    <3> QED
      BY <1>1, <3>1, <3>2, StatusWeighs
  <2>3. \A p : Weighed(p, ms) = Weighed(p, us)
    <3>1. /\ vs[l].order = us[l].order /\ vs[l].fee = us[l].fee
          /\ rest.order = us[l].order /\ rest.fee = us[l].fee
          /\ vs[l].status # "cancelled" /\ us[l].status # "cancelled" /\ rest.status # "cancelled"
          /\ rest.qty = us[l].qty - vs[l].qty
      <4>1. us[l].order = q.order /\ us[l].fee = FALSE /\ us[l].status = "draft"
        BY <1>4 DEF LineRow
      <4>2. vs[l].order = q.order /\ vs[l].fee = FALSE /\ vs[l].status = "draft"
        BY <1>5, <1>7 DEF LineRow
      <4>3. rest.order = q.order /\ rest.fee = FALSE /\ rest.status = "draft"
        BY <1>6 DEF LineRow
      <4>4. rest.qty = us[l].qty - vs[l].qty
        BY <1>4, <1>5, <1>6, <1>7
      <4> QED
        BY <4>1, <4>2, <4>3, <4>4
    <3>2. l \in 1 .. Len(us) /\ Len(vs) = Len(us)
          /\ \A k \in 1 .. Len(us) : k # l => vs[k] = us[k]
      BY <1>3, <1>4, <1>7
    <3>3. \A p : Weighed(p, Append(vs, rest)) = Weighed(p, us)
      BY <1>3, <1>6, <1>7, <3>1, <3>2, CutWeighs
    <3> QED
      BY <1>2, <3>3
  <2> QED
    BY <1>2, <2>1, <2>2, <2>3 DEF Body, Kept
<1>20. Returned(r, orders, ms)
  <2>1. SameBut(ms, lines, q.order)
    <3>1. ASSUME NEW k \in 1 .. Len(lines)
          PROVE  /\ k \in 1 .. Len(ms)
                 /\ ms[k].order = lines[k].order /\ ms[k].fee = lines[k].fee
                 /\ lines[k].order = q.order \/ (IsBilled(ms[k]) <=> IsBilled(lines[k]))
      <4>1. \A j \in q.pending : lines[j].order = q.order
        BY <1>1 DEF FreshMarks
      <4>2. CASE k \in q.pending
        BY <1>8, <1>13, <4>1, <4>2
      <4>3. CASE k = l
        BY <1>4, <1>5, <1>8, <1>14, <4>3
      <4>4. CASE k \notin q.pending /\ k # l
        BY <1>8, <1>12, <1>15, <4>4
      <4> QED
        BY <4>2, <4>3, <4>4
    <3>2. \A k \in 1 .. Len(ms) : k \in 1 .. Len(lines) \/ ~IsBilled(ms[k])
      BY <1>6, <1>8 DEF IsBilled
    <3> QED
      BY <3>1, <3>2 DEF SameBut
  <2> QED
    BY <1>2, <2>1, ReturnedMarked DEF Body, MarkedAlso
<1> QED
  BY <1>10, <1>16, <1>17, <1>18, <1>19, <1>20 DEF Body

\* One more line of the invoice is marked.
LEMMA MarkBody ==
    ASSUME Inv, NEW t \in Tabs, NEW l \in LineIds, MarkLine(t, l),
           NEW r, request' = [request EXCEPT ![t] = r],
           Body(request[t], orders, lines, reserved, invoices, shipped)
    PROVE  Body(r, orders', lines', reserved', invoices', shipped')
<1> DEFINE q == request[t]
           all == 1 .. MaxLines
           Follower(x) == [q EXCEPT !.todo = @ \ {l}, !.pending = x]
<1>1. q.op = "mark" /\ l \in q.todo /\ UNCHANGED <<orders, reserved, invoices, shipped>>
  BY DEF MarkLine
<1>2. request \in [Tabs -> RequestsOn(LineIds)]
  BY DEF Inv, RequestsOK, LineIds
<1>3. q \in [op : {"mark"}, order : Orders, items : InvoiceItems, todo : SUBSET all, pending : SUBSET all]
      /\ q.todo \union q.pending \subseteq DOMAIN q.items
  BY <1>1, MarkKnows
<1>4. ASSUME NEW x \in SUBSET all, r = Follower(x)
      PROVE  MarkedAlso(r, q, l, x)
  <2> DEFINE y == q.todo \ {l}
  <2>1. y \in SUBSET all
    BY <1>3
  <2>2. r = [q EXCEPT !.todo = y, !.pending = x]
    BY <1>3, <1>4
  <2> HIDE DEF y, q
  <2>3. r.op = "mark" /\ r.order = q.order /\ r.items = q.items /\ r.todo = y /\ r.pending = x
    BY <1>3, <2>1, <2>2
  <2> QED
    BY <2>3 DEF MarkedAlso, y
<1>5. q.pending \union {l} \in SUBSET all /\ {l} \in SUBSET all
  BY <1>1, <1>3
<1>6. CASE /\ lines[l].fee \/ lines[l].qty = q.items[l]
           /\ Posts(t, Follower(q.pending \union {l})) /\ UNCHANGED lines
  <2>1. r = Follower(q.pending \union {l})
    BY <1>2, <1>6 DEF Posts
  <2>2. MarkedAlso(r, q, l, q.pending \union {l})
    BY <1>4, <1>5, <2>1
  <2>3. Body(r, orders, lines, reserved, invoices, shipped)
    BY <1>1, <1>6, <2>2, MarkWholeBody
  <2> QED
    BY <1>1, <1>6, <2>3
<1>7. CASE /\ ~lines[l].fee /\ Room(1)
           /\ lines' = Append([WithStatus(q.pending, "invoiced") EXCEPT ![l].qty = q.items[l]],
                              RestOf(l, q.items[l]))
           /\ Posts(t, Follower({l}))
  <2>1. r = Follower({l})
    BY <1>2, <1>7 DEF Posts
  <2>2. MarkedAlso(r, q, l, {l})
    BY <1>4, <1>5, <2>1
  <2>3. PICK us, ms : /\ us = WithStatus(q.pending, "invoiced")
                      /\ ms = Append([us EXCEPT ![l].qty = q.items[l]], RestOf(l, q.items[l]))
    OBVIOUS
  <2>4. Body(r, orders, ms, reserved, invoices, shipped)
    BY <1>1, <1>7, <2>2, <2>3, MarkCutBody
  <2>5. lines' = ms
    BY <1>7, <2>3
  <2> QED
    BY <1>1, <2>4, <2>5
<1>8. CASE ~lines[l].fee /\ ~ValidQuantity(lines[l].qty, q.items[l])
  <2>1. ToMark(lines[l], q.order, q.items[l])
    BY <1>1, MarkFacts DEF FreshMarks
  <2> QED
    BY <1>8, <2>1 DEF ToMark
<1> QED
  BY <1>6, <1>7, <1>8 DEF MarkLine

\* The statuses that billed lines give their order.
Progress == {"invoiced", "shipped", "partial_invoiced", "partial_shipped"}

\* The status of an order that has a billed article line says so; that of another
\* may be kept.
LEMMA BilledStatus ==
    ASSUME lines \in Seq(LineRow), NEW o
    PROVE  /\ StatusFromLines(o) \in Progress \union {orders[o].status}
           /\ HasBilledArticle(o, lines) => StatusFromLines(o) \in Progress
<1> DEFINE statuses == {lines[l].status : l \in {m \in LinesOf(o) : ~lines[m].fee}} \ {"cancelled"}
<1>1. HasBilledArticle(o, lines) => "invoiced" \in statuses \/ "shipped" \in statuses
  BY DEF HasBilledArticle, IsBilled, LinesOf, LineIds
<1>2. StatusFromLines(o) =
        CASE statuses = {"shipped"} -> "shipped"
          [] "shipped" \in statuses /\ statuses # {"shipped"} -> "partial_shipped"
          [] statuses = {"invoiced"} -> "invoiced"
          [] "invoiced" \in statuses /\ "shipped" \notin statuses /\ statuses # {"invoiced"}
               -> "partial_invoiced"
          [] OTHER -> orders[o].status
  BY DEF StatusFromLines
<1> HIDE DEF statuses
<1> QED
  BY <1>1, <1>2 DEF Progress

\* The status of the order is recalculated.
LEMMA RecalculateBody ==
    ASSUME Inv, NEW t \in Tabs, RecalculateStatus(t),
           NEW r, request' = [request EXCEPT ![t] = r],
           Body(request[t], orders, lines, reserved, invoices, shipped)
    PROVE  Body(r, orders', lines', reserved', invoices', shipped')
<1> DEFINE q == request[t]
           o == q.order
           x == StatusFromLines(o)
<1>1. /\ q.op = "recalculate" /\ UNCHANGED <<lines, reserved, invoices, shipped>> /\ r = Idle
      /\ orders' = [orders EXCEPT ![o].status = x]
  <2>1. request \in [Tabs -> RequestsOn(LineIds)]
    BY DEF Inv, RequestsOK, LineIds
  <2> QED
    BY <2>1 DEF RecalculateStatus, Ends, Posts
<1>2. o \in Orders /\ orders \in [Orders -> OrderRow] /\ lines \in Seq(LineRow)
  BY <1>1, Known, RequestFields
<1>3. x \in Progress \union {orders[o].status} /\ (HasBilledArticle(o, lines) => x \in Progress)
  BY <1>2, BilledStatus
<1>4. Body(q, orders, lines, reserved, invoices, shipped)
  OBVIOUS
<1>5. PICK ps : ps = orders'
  OBVIOUS
<1> HIDE DEF q, o, x
<1>6. /\ \A p \in Orders : ps[p].returnOf = orders[p].returnOf
      /\ \A p \in Orders : p # o => ps[p].status = orders[p].status
      /\ ps[o].status = x
  BY <1>1, <1>2, <1>5 DEF OrderRow
<1>7. Docs(Marking(r), Shipping(r), lines, invoices, shipped) /\ Fresh(r, lines, invoices)
  BY <1>1, <1>4 DEF Body, Marking, Shipping, Fresh, Idle
<1>8. Kept(r, ps, lines, reserved)
  <2>1. \A p : Coming(r, p) = 0 /\ Coming(q, p) = 0
    BY <1>1 DEF Coming, Idle
  <2> QED
    BY <1>4, <1>6, <2>1 DEF Body, Kept
<1>9. Returned(r, ps, lines)
  <2>1. Returned(q, orders, lines)
    BY <1>4 DEF Body
  <2>2. \A p \in Orders : ps[p].status = "none" => orders[p].status = "none"
    BY <1>2, <1>3, <1>6 DEF Progress
  <2>3. \A p \in Orders : HasBilled(p, lines) => HasBilledArticle(p, lines)
    BY <1>1, <2>1 DEF Returned, On
  <2>4. \A p : ~On(r, {"mark", "recalculate"}, p) /\ ~On(r, {"mark"}, p)
    BY <1>1 DEF On, Idle
  <2>5. ASSUME NEW p \in Orders, ps[p].status = "cancelled", HasBilled(p, lines)
        PROVE  p # o
    BY <1>3, <1>6, <2>3, <2>5 DEF Progress
  <2>6. ASSUME NEW p \in Orders, ps[p].status = "cancelled", HasBilled(p, lines)
        PROVE  \E s \in Orders : ps[s].returnOf = p
    <3>1. p # o /\ orders[p].status = "cancelled" /\ ~On(q, {"mark", "recalculate"}, p)
      BY <1>6, <2>5, <2>6 DEF On, o
    <3>2. PICK s \in Orders : orders[s].returnOf = p
      BY <2>1, <2>6, <3>1 DEF Returned
    <3> QED
      BY <1>6, <3>2
  <2>7. \A p, s \in Orders : ps[p].returnOf = ps[s].returnOf /\ ps[p].returnOf # Absent => p = s
    BY <1>6, <2>1 DEF Returned
  <2>8. \A p \in Orders : ps[p].returnOf # Absent => \E l \in 1 .. Len(lines) : lines[l].order = p
    BY <1>6, <2>1 DEF Returned
  <2>9. \A p \in Orders : ps[p].status = "none" => ps[p].returnOf = Absent
    BY <1>6, <2>1, <2>2 DEF Returned
  <2> QED
    BY <2>3, <2>4, <2>6, <2>7, <2>8, <2>9 DEF Returned
<1>10. Body(r, ps, lines, reserved, invoices, shipped)
  BY <1>4, <1>7, <1>8, <1>9 DEF Body
<1> QED
  BY <1>1, <1>5, <1>10

\* Nothing but the shipments changes: the lines of q were shipped whole.
LEMMA ShipBody ==
    ASSUME Inv, NEW t \in Tabs, CommitShipment(t),
           NEW r, request' = [request EXCEPT ![t] = r],
           Body(request[t], orders, lines, reserved, invoices, shipped)
    PROVE  Body(r, orders', lines', reserved', invoices', shipped')
<1> DEFINE q == request[t]
<1>1. /\ q.op = "ship" /\ UNCHANGED <<orders, lines, reserved, invoices>>
      /\ r = [q EXCEPT !.op = "markshipped"]
      /\ shipped' = [l \in DOMAIN shipped |->
                      shipped[l] + (IF l \in DOMAIN q.items THEN q.items[l] ELSE 0)]
  <2>1. request \in [Tabs -> RequestsOn(LineIds)]
    BY DEF Inv, RequestsOK, LineIds
  <2> QED
    BY <2>1 DEF CommitShipment, Posts
<1>2. /\ q \in [op : {"ship", "markshipped"}, order : Orders, items : InvoiceItems]
      /\ lines \in Seq(LineRow) /\ Len(lines) \in Nat /\ Len(lines) <= MaxLines
      /\ \A l \in 1 .. Len(lines) : lines[l] \in LineRow
      /\ shipped \in [1 .. MaxLines -> Int]
  <2>1. q \in [op : {"ship", "markshipped"}, order : Orders, items : InvoiceItems]
    BY <1>1, ShipKnows
  <2>2. shipped \in [1 .. MaxLines -> Int]
    BY DEF Inv, ShippedOK
  <2> QED
    BY <2>1, <2>2, Known DEF LineIds
<1>3. Body(q, orders, lines, reserved, invoices, shipped)
  OBVIOUS
<1>4. PICK sh : sh = shipped'
  OBVIOUS
<1> HIDE DEF q
<1>5. r.op = "markshipped" /\ r.items = q.items /\ r.order = q.order
  BY <1>1, <1>2
<1>6. FreshShip(q, lines) /\ Docs({}, {}, lines, invoices, shipped)
  BY <1>1, <1>3 DEF Body, Fresh, Marking, Shipping
<1>7. ASSUME NEW l \in 1 .. Len(lines)
      PROVE  /\ l \in DOMAIN q.items => sh[l] = lines[l].qty
             /\ l \notin DOMAIN q.items => sh[l] = shipped[l]
  <2>1. l \in 1 .. MaxLines /\ shipped[l] \in Int /\ lines[l].qty \in Int
    BY <1>2, CustomerOrdersAssumption DEF LineRow
  <2>2. l \in DOMAIN q.items => q.items[l] = lines[l].qty /\ shipped[l] = 0
    BY <1>6 DEF FreshShip, Docs, Papers
  <2>3. sh[l] = shipped[l] + (IF l \in DOMAIN q.items THEN q.items[l] ELSE 0)
    BY <1>1, <1>2, <1>4, <2>1
  <2> QED
    BY <2>1, <2>2, <2>3
<1>8. Docs({}, DOMAIN q.items, lines, invoices, sh)
  <2>1. ASSUME NEW l \in 1 .. Len(lines), l \in DOMAIN q.items
        PROVE  ShippedPapers(lines[l], l, invoices, sh)
    BY <1>6, <1>7, <2>1 DEF FreshShip, Docs, Papers, IsBilled, ShippedPapers
  <2>2. ASSUME NEW l \in 1 .. Len(lines), l \notin DOMAIN q.items
        PROVE  Papers(lines[l], l, invoices, sh)
    BY <1>6, <1>7, <2>2 DEF Docs, Papers
  <2> QED
    BY <2>1, <2>2 DEF Docs
<1>9. Marking(r) = {} /\ Shipping(r) = DOMAIN q.items
  BY <1>5 DEF Marking, Shipping
<1>10. Fresh(r, lines, invoices)
  BY <1>5, <1>6 DEF Fresh, FreshShip
<1>11. Kept(r, orders, lines, reserved)
  <2>1. \A p : Coming(r, p) = 0 /\ Coming(q, p) = 0
    BY <1>1, <1>5 DEF Coming
  <2> QED
    BY <1>3, <2>1 DEF Body, Kept
<1>12. Returned(r, orders, lines)
  BY <1>1, <1>3, <1>5 DEF Body, Returned, On
<1>13. Body(r, orders, lines, reserved, invoices, sh)
  BY <1>3, <1>8, <1>9, <1>10, <1>11, <1>12 DEF Body
<1> QED
  BY <1>1, <1>4, <1>13

\* The lines that were shipped whole are marked so.
LEMMA ShippedBody ==
    ASSUME Inv, NEW t \in Tabs, MarkShipped(t),
           NEW r, request' = [request EXCEPT ![t] = r],
           Body(request[t], orders, lines, reserved, invoices, shipped)
    PROVE  Body(r, orders', lines', reserved', invoices', shipped')
<1> DEFINE q == request[t]
           S == DOMAIN q.items
           us == WithStatus(S, "shipped")
<1>1. q.op = "markshipped" /\ FreshShip(q, lines)
  BY DEF MarkShipped, Body, Fresh
<1>2. /\ UNCHANGED <<orders, reserved, invoices, shipped>> /\ lines' = us
      /\ r = [op |-> "recalculate", order |-> q.order]
  <2>1. request \in [Tabs -> RequestsOn(LineIds)]
    BY DEF Inv, RequestsOK, LineIds
  <2>2. {l \in DOMAIN q.items : q.items[l] = lines[l].qty} = S
    BY <1>1 DEF FreshShip
  <2> QED
    BY <2>1, <2>2 DEF MarkShipped, Posts
<1>3. lines \in Seq(LineRow) /\ Body(q, orders, lines, reserved, invoices, shipped)
  BY Known
<1>4. /\ Len(us) = Len(lines)
      /\ \A k \in 1 .. Len(lines) :
           /\ k \notin S => us[k] = lines[k]
           /\ k \in S => /\ us[k].status = "shipped" /\ us[k].qty = lines[k].qty
                         /\ us[k].order = lines[k].order /\ us[k].fee = lines[k].fee
  <2>1. "shipped" \in LineStatus
    BY DEF LineStatus
  <2> QED
    BY <1>3, <2>1, StatusRows
<1>5. \A k \in 1 .. Len(lines) : k \in S => lines[k].status = "invoiced"
  BY <1>1 DEF FreshShip
<1>6. \A o : Weighed(o, us) = Weighed(o, lines)
  <2>1. \A k \in 1 .. Len(lines) : k \in S => lines[k].status # "cancelled"
    BY <1>5
  <2> QED
    BY <1>3, <2>1, StatusWeighs
<1>7. Docs({}, S, lines, invoices, shipped)
  BY <1>1, <1>3 DEF Body, Marking, Shipping
<1> HIDE DEF q, S, us
<1>8. Listed(us, invoices)
  BY <1>3, <1>4 DEF Body, Listed
<1>9. Docs({}, {}, us, invoices, shipped)
  <2>1. ASSUME NEW k \in 1 .. Len(lines), k \in S
        PROVE  Papers(us[k], k, invoices, shipped)
    BY <1>4, <1>7, <2>1 DEF Docs, ShippedPapers, Papers, IsBilled
  <2>2. ASSUME NEW k \in 1 .. Len(lines), k \notin S
        PROVE  Papers(us[k], k, invoices, shipped)
    BY <1>4, <1>7, <2>2 DEF Docs
  <2> QED
    BY <1>4, <2>1, <2>2 DEF Docs
<1>10. Fresh(r, us, invoices) /\ Marking(r) = {} /\ Shipping(r) = {}
  BY <1>2 DEF Fresh, Marking, Shipping
<1>11. Kept(r, orders, us, reserved)
  <2>1. \A p : Coming(r, p) = 0 /\ Coming(q, p) = 0
    BY <1>1, <1>2 DEF Coming
  <2> QED
    BY <1>3, <1>6, <2>1 DEF Body, Kept
<1>12. Returned(r, orders, us)
  <2>1. SameLines(us, lines)
    BY <1>4, <1>5 DEF SameLines, SameLine, IsBilled
  <2>2. \A o \in Orders : ~On(q, {"mark", "recalculate"}, o) /\ ~On(q, {"mark"}, o)
    BY <1>1 DEF On
  <2> QED
    BY <1>3, <2>1, <2>2, ReturnedSame DEF Body
<1>13. Body(r, orders, us, reserved, invoices, shipped)
  BY <1>8, <1>9, <1>10, <1>11, <1>12 DEF Body
<1> QED
  BY <1>2, <1>13

-----------------------------------------------------------------------------
(* Cancellation and return.                                                *)

DraftsOf(o, ls) == {l \in DOMAIN ls : ls[l].order = o /\ ls[l].status = "draft"}

\* The draft lines T of order o are cancelled.
LEMMA DraftsCancelled ==
    ASSUME Inv, NEW q, q.op \notin Special, NEW o \in Orders, NEW T, NEW us, NEW ss,
           T = DraftsOf(o, lines), \A l \in T : ~lines[l].fee,
           us = WithStatus(T, "cancelled"),
           ss = [reserved EXCEPT ![o] = @ - QtySum(T, lines)],
           Body(q, orders, lines, reserved, invoices, shipped)
    PROVE  Body(Idle, orders, us, ss, invoices, shipped) /\ SameLines(us, lines)
<1>1. lines \in Seq(LineRow) /\ Len(lines) \in Nat /\ DOMAIN lines = 1 .. Len(lines)
  BY Known
<1>2. /\ us \in Seq(LineRow) /\ Len(us) = Len(lines)
      /\ \A k \in 1 .. Len(lines) :
           /\ k \notin T => us[k] = lines[k]
           /\ k \in T => /\ us[k].status = "cancelled" /\ us[k].qty = lines[k].qty
                         /\ us[k].order = lines[k].order /\ us[k].fee = lines[k].fee
  <2>1. "cancelled" \in LineStatus
    BY DEF LineStatus
  <2> QED
    BY <1>1, <2>1, StatusRows
<1>3. T \in SUBSET DOMAIN lines
  BY DEF DraftsOf
<1>4. \A l \in T : lines[l].order = o /\ lines[l].status = "draft" /\ ~lines[l].fee
  BY DEF DraftsOf
<1>5. \A l \in DOMAIN lines : WeightOf(o, us[l]) = IF l \in T THEN 0 ELSE WeightOf(o, lines[l])
  BY <1>1, <1>2 DEF WeightOf
<1>6. QtySum(T, lines) \in Int /\ Weighed(o, us) = Weighed(o, lines) - QtySum(T, lines)
  <2>1. lines \in Seq(LineRow) /\ us \in Seq(LineRow) /\ Len(us) = Len(lines)
    BY <1>1, <1>2
  <2> QED
    BY <2>1, <1>3, <1>4, <1>5, WeighedCancelled
<1>7. ASSUME NEW p, p # o
      PROVE  Weighed(p, us) = Weighed(p, lines)
  <2>1. \A l \in 1 .. Len(lines) : WeightOf(p, us[l]) = WeightOf(p, lines[l])
    BY <1>2, <1>4, <1>7 DEF WeightOf
  <2> QED
    BY <1>1, <1>2, <2>1, WeighedSame
<1>8. Docs({}, {}, lines, invoices, shipped)
  BY DEF Body, Marking, Shipping, Special
<1>9. Listed(us, invoices) /\ SameLines(us, lines)
  BY <1>2, <1>4 DEF Body, Listed, SameLines, SameLine, IsBilled
<1>10. Docs({}, {}, us, invoices, shipped)
  <2>1. ASSUME NEW k \in 1 .. Len(lines), k \in T
        PROVE  Papers(us[k], k, invoices, shipped)
    BY <1>2, <1>4, <1>8, <2>1 DEF Docs, Papers, IsBilled
  <2>2. ASSUME NEW k \in 1 .. Len(lines), k \notin T
        PROVE  Papers(us[k], k, invoices, shipped)
    BY <1>2, <1>8, <2>2 DEF Docs
  <2> QED
    BY <1>2, <2>1, <2>2 DEF Docs
<1>11. Kept(Idle, orders, us, ss)
  <2>1. reserved \in [Orders -> Int]
    BY DEF Body, Kept
  <2>2. ss \in [Orders -> Int] /\ ss[o] = reserved[o] - QtySum(T, lines)
        /\ \A p \in Orders : p # o => ss[p] = reserved[p]
    BY <1>6, <2>1
  <2>3. \A p : Coming(q, p) = 0 /\ Coming(Idle, p) = 0
    BY DEF Coming, Special, Idle
  <2>4. \A p \in Orders : orders[p].returnOf = Absent => reserved[p] = Weighed(p, lines)
    BY <2>1, <2>3 DEF Body, Kept
  <2>5. \A p \in Orders : orders[p].returnOf = Absent => ss[p] = Weighed(p, us)
    BY <1>6, <1>7, <2>2, <2>4
  <2>6. ASSUME NEW p \in Orders, orders[p].returnOf = Absent
        PROVE  ss[p] + Coming(Idle, p) = Weighed(p, us)
    <3>1. ss[p] \in Int /\ Coming(Idle, p) = 0 /\ ss[p] = Weighed(p, us)
      BY <2>2, <2>3, <2>5, <2>6
    <3> QED
      BY <3>1
  <2> QED
    BY <2>2, <2>6 DEF Kept
<1>12. Returned(Idle, orders, us)
  BY <1>9, ReturnedSame DEF Body, On, Special
<1>13. Fresh(Idle, us, invoices) /\ Marking(Idle) = {} /\ Shipping(Idle) = {}
  BY DEF Fresh, Idle, Marking, Shipping
<1> QED
  BY <1>9, <1>10, <1>11, <1>12, <1>13 DEF Body

\* An order without billed lines, or that has its return order, is cancelled.
LEMMA CancelledBody ==
    ASSUME NEW os, NEW ps, NEW ls, NEW rs, NEW invs, NEW sh, NEW o \in Orders,
           Body(Idle, os, ls, rs, invs, sh), ps[o].status = "cancelled",
           \A p \in Orders : ps[p].returnOf = os[p].returnOf,
           \A p \in Orders : p # o => ps[p].status = os[p].status,
           HasBilled(o, ls) => \E s \in Orders : os[s].returnOf = o
    PROVE  Body(Idle, ps, ls, rs, invs, sh)
<1>1. Kept(Idle, ps, ls, rs)
  BY DEF Body, Kept
<1>2. Returned(Idle, ps, ls)
  <2> USE DEF Body, Returned
  <2>1. \A r \in Orders : ps[r].status = "none" => ps[r].returnOf = Absent
    OBVIOUS
  <2>2. \A r, s \in Orders : ps[r].returnOf = ps[s].returnOf /\ ps[r].returnOf # Absent => r = s
    OBVIOUS
  <2>3. \A r \in Orders : ps[r].returnOf # Absent => \E l \in 1 .. Len(ls) : ls[l].order = r
    OBVIOUS
  <2>4. ASSUME NEW p \in Orders, ps[p].status = "cancelled", HasBilled(p, ls)
        PROVE  \E r \in Orders : ps[r].returnOf = p
    <3>1. ~On(Idle, {"mark", "recalculate"}, p)
      BY DEF On, Idle
    <3>2. \E r \in Orders : os[r].returnOf = p
      BY <2>4, <3>1
    <3> QED
      BY <3>2
  <2>5. \A p \in Orders : HasBilled(p, ls) /\ ~On(Idle, {"mark"}, p) => HasBilledArticle(p, ls)
    OBVIOUS
  <2> QED
    BY <2>1, <2>2, <2>3, <2>4, <2>5
<1> QED
  BY <1>1, <1>2 DEF Body

\* Return order n of o appears, and o itself may be cancelled.
ReturnRow(os, ps, n, o) ==
    /\ os[n].status = "none" /\ \A s \in Orders : os[s].returnOf # o
    /\ ps[n].status = "draft" /\ ps[n].returnOf = o
    /\ \A p \in Orders : p # n => /\ ps[p].returnOf = os[p].returnOf
                                  /\ \/ ps[p].status = os[p].status
                                     \/ p = o /\ ps[p].status = "cancelled"

\* There is room for the lines ns of order n, which has some, and no invoice lists
\* lines that do not exist.
ReturnRoom(ls, ns, n, invs, sh) ==
    /\ Len(ns) > 0 /\ DraftsFor(n, ns) /\ Len(ls) + Len(ns) <= MaxLines
    /\ \A l \in 1 .. MaxLines : l > Len(ls) => With(l, invs) = {} /\ sh[l] = 0

\* Order o gets return order n, with the lines ns; o itself may be cancelled.
LEMMA ReturnBody ==
    ASSUME NEW os, NEW ps, NEW ls \in Seq(LineRow), NEW ns \in Seq(LineRow),
           NEW rs, NEW invs, NEW sh, NEW n \in Orders, NEW o \in Orders,
           Body(Idle, os, ls, rs, invs, sh), ReturnRow(os, ps, n, o),
           ReturnRoom(ls, ns, n, invs, sh)
    PROVE  Body(Idle, ps, ls \o ns, rs, invs, sh)
<1> USE DEF DraftsFor, ReturnRow, ReturnRoom
<1> DEFINE a == Len(ls)
           b == Len(ns)
           ms == ls \o ns
<1>1. a \in Nat /\ b \in Nat /\ b > 0 /\ o # Absent
  BY LenProperties, CustomerOrdersAssumption
<1>2. /\ ms \in Seq(LineRow) /\ Len(ms) = a + b
      /\ \A l \in 1 .. a : ms[l] = ls[l]
      /\ \A l \in 1 .. (a + b) : l > a => l - a \in 1 .. b /\ ms[l] = ns[l - a]
  BY <1>1, ConcatProperties
<1>3. Docs({}, {}, ls, invs, sh) /\ Listed(ls, invs) /\ Kept(Idle, os, ls, rs) /\ Returned(Idle, os, ls)
  BY DEF Body, Marking, Shipping, Idle
<1>4. Docs({}, {}, ms, invs, sh)
  BY <1>3, DocsAdded
<1> HIDE DEF a, b, ms
<1>5. /\ 1 .. a \subseteq 1 .. (a + b) /\ a + 1 \in 1 .. (a + b) /\ a + 1 > a
      /\ \A l \in 1 .. (a + b) : l > a \/ l \in 1 .. a
  BY <1>1
<1>6. \A l \in 1 .. Len(ms) : l \in 1 .. a \/ (ms[l].status = "draft" /\ ms[l].order = n)
  BY <1>2, <1>5 DEF b
<1>7. Listed(ms, invs)
  BY <1>2, <1>3, <1>5, ListedMore DEF a
<1>8. Kept(Idle, ps, ms, rs)
  <2>1. ASSUME NEW p, p # n
        PROVE  Weighed(p, ms) = Weighed(p, ls)
    <3>1. \A i \in 1 .. Len(ns) : WeightOf(p, ns[i]) = 0
      BY <2>1 DEF WeightOf
    <3>2. Weighed(p, ns) = 0
      BY <3>1, WeighedNothing
    <3>3. Weighed(p, ls \o ns) = Weighed(p, ls) + Weighed(p, ns) /\ Weighed(p, ls) \in Int
      BY WeighedJoined, WeighedType
    <3> QED
      BY <3>2, <3>3 DEF ms
  <2> QED
    BY <1>1, <1>3, <2>1 DEF Kept
<1>9. \A p : HasBilled(p, ms) <=> HasBilled(p, ls)
  BY <1>2, <1>5, <1>6 DEF HasBilled, IsBilled, a
<1>10. \A p : HasBilledArticle(p, ls) => HasBilledArticle(p, ms)
  BY <1>2, <1>5 DEF HasBilledArticle, a
<1>11. \A p : ~On(Idle, {"mark", "recalculate"}, p) /\ ~On(Idle, {"mark"}, p)
  BY DEF On, Idle
<1>12. os[n].returnOf = Absent
  BY <1>3 DEF Returned
<1>13. Returned(Idle, ps, ms)
  <2>1. \A p \in Orders : ps[p].status = "none" => ps[p].returnOf = Absent
    BY <1>3 DEF Returned
  <2>2. ASSUME NEW p \in Orders, NEW s \in Orders, ps[p].returnOf = ps[s].returnOf,
               ps[p].returnOf # Absent
        PROVE  p = s
    <3>1. CASE p = n \/ s = n
      BY <2>2, <3>1
    <3>2. CASE p # n /\ s # n
      BY <1>3, <2>2, <3>2 DEF Returned
    <3> QED
      BY <3>1, <3>2
  <2>3. ASSUME NEW p \in Orders, ps[p].returnOf # Absent
        PROVE  \E l \in 1 .. Len(ms) : ms[l].order = p
    <3>1. CASE p = n
      <4>1. a + 1 \in 1 .. Len(ms) /\ a + 1 \notin 1 .. a
        BY <1>1, <1>2, <1>5
      <4> QED
        BY <1>6, <3>1, <4>1
    <3>2. CASE p # n
      <4>1. PICK l \in 1 .. a : ls[l].order = p
        BY <1>3, <2>3, <3>2 DEF Returned, a
      <4> QED
        BY <1>2, <1>5, <4>1
    <3> QED
      BY <3>1, <3>2
  <2>4. ASSUME NEW p \in Orders, ps[p].status = "cancelled", HasBilled(p, ms)
        PROVE  \E r \in Orders : ps[r].returnOf = p
    <3>1. CASE p = o
      BY <3>1
    <3>2. CASE p # o
      <4>1. os[p].status = "cancelled" /\ HasBilled(p, ls)
        BY <1>9, <2>4, <3>2
      <4>2. PICK r \in Orders : os[r].returnOf = p
        BY <1>3, <1>11, <4>1 DEF Returned
      <4>3. r # n
        BY <1>12, <4>2, CustomerOrdersAssumption
      <4> QED
        BY <4>2, <4>3
    <3> QED
      BY <3>1, <3>2
  <2>5. \A p \in Orders : HasBilled(p, ms) => HasBilledArticle(p, ms)
    BY <1>3, <1>9, <1>10, <1>11 DEF Returned
  <2> QED
    BY <2>1, <2>2, <2>3, <2>4, <2>5 DEF Returned
<1>14. Fresh(Idle, ms, invs) /\ Marking(Idle) = {} /\ Shipping(Idle) = {}
  BY DEF Fresh, Idle, Marking, Shipping
<1>15. Body(Idle, ps, ms, rs, invs, sh)
  BY <1>4, <1>7, <1>8, <1>13, <1>14 DEF Body
<1> QED
  BY <1>15 DEF ms

\* The return order of o takes the lines of its billed ones; us: the lines of
\* the order once its drafts are cancelled, if they are.
LEMMA ReturnsBody ==
    ASSUME Inv, NEW o \in Orders, NEW n \in Orders, NEW us \in Seq(LineRow), NEW rs, NEW ps,
           Body(Idle, orders, us, rs, invoices, shipped), Listed(lines, invoices),
           Len(us) = Len(lines), Billed(o) # {}, ReturnOf(o) = {}, ~Exists(n),
           Room(Cardinality(Billed(o))),
           ps[n].status = "draft", ps[n].returnOf = o,
           \A p \in Orders : p # n => /\ ps[p].returnOf = orders[p].returnOf
                                      /\ \/ ps[p].status = orders[p].status
                                         \/ p = o /\ ps[p].status = "cancelled"
    PROVE  Body(Idle, ps, us \o ReturnLines(n, lines, Billed(o)), rs, invoices, shipped)
<1> DEFINE ns == ReturnLines(n, lines, Billed(o))
<1>1. lines \in Seq(LineRow) /\ Billed(o) \subseteq 1 .. Len(lines) /\ Len(lines) \in Nat
  BY Known DEF Billed, LinesOf, LineIds
<1>2. /\ ns \in Seq(LineRow) /\ Cardinality(Billed(o)) \in Nat
      /\ Len(ns) = Cardinality(Billed(o)) /\ DraftsFor(n, ns)
  BY <1>1, ReturnLinesType
<1>3. Len(ns) > 0
  <2>1. IsFiniteSet(1 .. Len(lines))
    BY <1>1, IntervalFinite
  <2>2. IsFiniteSet(Billed(o))
    BY <1>1, <2>1, FS_Subset
  <2>3. Cardinality(Billed(o)) # 0
    BY <2>2, FS_EmptySet
  <2> HIDE DEF ns
  <2> QED
    BY <1>2, <2>3
<1>4. \A l \in 1 .. MaxLines : l > Len(us) => With(l, invoices) = {} /\ shipped[l] = 0
  BY Unlisted
<1>5. Len(us) + Len(ns) <= MaxLines
  <2> HIDE DEF ns
  <2> QED
    BY <1>2 DEF Room
<1>6. ReturnRow(orders, ps, n, o)
  BY DEF Exists, ReturnOf, ReturnRow
<1> HIDE DEF ns
<1>7. ReturnRoom(us, ns, n, invoices, shipped)
  BY <1>2, <1>3, <1>4, <1>5 DEF ReturnRoom
<1>8. Body(Idle, ps, us \o ns, rs, invoices, shipped)
  BY <1>2, <1>6, <1>7, ReturnBody
<1> QED
  BY <1>8 DEF ns

\* An order is cancelled.
LEMMA CancelBody ==
    ASSUME Inv, NEW t \in Tabs, CommitCancel(t),
           Body(request[t], orders, lines, reserved, invoices, shipped)
    PROVE  Body(Idle, orders', lines', reserved', invoices', shipped')
<1> DEFINE q == request[t]
           o == q.order
           mine == {l \in DOMAIN q.rows : q.rows[l].order = o}
           draft == {l \in mine : q.rows[l].status = "draft"}
           billed == {l \in mine : q.rows[l].status \in {"invoiced", "shipped"}}
           returns == billed # {} /\ ReturnOf(o) = {}
           us == WithStatus(draft, "cancelled")
           ss == [reserved EXCEPT ![o] = @ - QtySum(draft, q.rows)]
           gone == [orders EXCEPT ![o].status = "cancelled"]
           row == [status |-> "draft", returnOf |-> o, address |-> orders[o].address]
<1>1. /\ q.op = "cancel" /\ UNCHANGED <<invoices, shipped>>
      /\ \/ UNCHANGED <<orders, lines, reserved>>
         \/ /\ \A l \in draft : ~q.rows[l].fee
            /\ reserved' = ss
            /\ \/ ~returns /\ orders' = gone /\ lines' = us
               \/ /\ returns /\ Room(Cardinality(billed))
                  /\ \E n \in Orders : /\ ~Exists(n)
                                       /\ orders' = [gone EXCEPT ![n] = row]
                                       /\ lines' = us \o ReturnLines(n, q.rows, billed)
  BY DEF CommitCancel
<1>2. q.rows = lines /\ Body(q, orders, lines, reserved, invoices, shipped)
  BY <1>1 DEF Body, Fresh
<1>3. /\ o \in Orders /\ lines \in Seq(LineRow) /\ DOMAIN lines = 1 .. Len(lines)
      /\ orders \in [Orders -> OrderRow] /\ q.op \notin Special
  <2>1. q.op = "cancel" /\ q \in RequestsOn(LineIds)
    BY <1>1, Known
  <2>2. o \in Orders
    <3> HIDE DEF q
    <3> QED
      BY <2>1, RequestFields
  <2> QED
    BY <2>1, <2>2, Known DEF Special
<1>4. draft = DraftsOf(o, lines) /\ billed = Billed(o)
  BY <1>2, <1>3 DEF DraftsOf, Billed, LinesOf, LineIds
<1>5. CASE UNCHANGED <<orders, lines, reserved>>
  <2>1. Fresh(Idle, lines, invoices) /\ Idle.op \notin Special
    BY DEF Fresh, Idle, Special
  <2>2. Body(Idle, orders, lines, reserved, invoices, shipped)
    BY <1>2, <1>3, <2>1, BodyReads
  <2> QED
    BY <1>1, <1>5, <2>2
<1>6. ASSUME \A l \in draft : ~q.rows[l].fee
      PROVE  Body(Idle, orders, us, ss, invoices, shipped) /\ SameLines(us, lines)
  <2>1. PICK T, vs, xs : T = draft /\ vs = us /\ xs = ss
    OBVIOUS
  <2>2. /\ T = DraftsOf(o, lines) /\ vs = WithStatus(T, "cancelled")
        /\ xs = [reserved EXCEPT ![o] = @ - QtySum(T, lines)] /\ \A l \in T : ~lines[l].fee
    BY <1>2, <1>4, <1>6, <2>1
  <2>3. Body(Idle, orders, vs, xs, invoices, shipped) /\ SameLines(vs, lines)
    <3> HIDE DEF draft, us, ss, q, o
    <3> QED
      BY <1>2, <1>3, <2>2, DraftsCancelled
  <2> QED
    BY <2>1, <2>3
<1>7. us \in Seq(LineRow) /\ Len(us) = Len(lines)
  <2>1. "cancelled" \in LineStatus
    BY DEF LineStatus
  <2> QED
    BY <1>3, <2>1, StatusRows
<1>8. /\ \A p \in Orders : gone[p].returnOf = orders[p].returnOf
      /\ \A p \in Orders : p # o => gone[p].status = orders[p].status
      /\ gone[o].status = "cancelled"
  <2> HIDE DEF o
  <2> QED
    BY <1>3 DEF OrderRow
<1>9. CASE /\ \A l \in draft : ~q.rows[l].fee
           /\ reserved' = ss /\ ~returns /\ orders' = gone /\ lines' = us
  <2>1. HasBilled(o, us) => \E s \in Orders : orders[s].returnOf = o
    <3>1. SameLines(us, lines)
      BY <1>6, <1>9
    <3>2. HasBilled(o, us) => billed # {}
      <4> HIDE DEF us, o, billed
      <4> QED
        BY <1>4, <3>1 DEF SameLines, SameLine, HasBilled, IsBilled, Billed, LinesOf, LineIds
    <3> QED
      BY <1>9, <3>2 DEF ReturnOf
  <2>2. Body(Idle, orders, us, ss, invoices, shipped)
    BY <1>6, <1>9
  <2>3. Body(Idle, gone, us, ss, invoices, shipped)
    <3> HIDE DEF us, ss, gone, o
    <3> QED
      BY <1>3, <1>8, <2>1, <2>2, CancelledBody
  <2> QED
    BY <1>1, <1>9, <2>3
<1>10. ASSUME \A l \in draft : ~q.rows[l].fee, reserved' = ss,
              returns, Room(Cardinality(billed)), NEW n \in Orders, ~Exists(n),
              orders' = [gone EXCEPT ![n] = row], lines' = us \o ReturnLines(n, q.rows, billed)
       PROVE  Body(Idle, orders', lines', reserved', invoices', shipped')
  <2> DEFINE ps == [gone EXCEPT ![n] = row]
  <2>1. Body(Idle, orders, us, ss, invoices, shipped) /\ Listed(lines, invoices)
    BY <1>2, <1>6, <1>10 DEF Body
  <2>2. /\ ps[n].status = "draft" /\ ps[n].returnOf = o
        /\ \A p \in Orders : p # n => /\ ps[p].returnOf = orders[p].returnOf
                                      /\ \/ ps[p].status = orders[p].status
                                         \/ p = o /\ ps[p].status = "cancelled"
    <3>1. ps[n] = row /\ \A p \in Orders : p # n => ps[p] = gone[p]
      BY <1>3
    <3>2. row.status = "draft" /\ row.returnOf = o
      OBVIOUS
    <3> HIDE DEF ps, gone, row, o
    <3> QED
      BY <1>8, <3>1, <3>2
  <2>3. Billed(o) # {} /\ ReturnOf(o) = {} /\ Room(Cardinality(Billed(o)))
    BY <1>4, <1>10
  <2>4. Body(Idle, ps, us \o ReturnLines(n, lines, Billed(o)), ss, invoices, shipped)
    <3> HIDE DEF ps, us, ss, o
    <3> QED
      BY <1>3, <1>7, <1>10, <2>1, <2>2, <2>3, ReturnsBody
  <2>5. orders' = ps /\ reserved' = ss /\ lines' = us \o ReturnLines(n, lines, Billed(o))
    BY <1>2, <1>4, <1>10
  <2> HIDE DEF ps, ss, us
  <2> QED
    BY <1>1, <2>4, <2>5
<1> HIDE DEF draft, billed, us, ss, gone, row
<1> QED
  BY <1>1, <1>5, <1>9, <1>10

\* The return order of an alert is created.
LEMMA CreateReturnBody ==
    ASSUME Inv, NEW t \in Tabs, NEW o \in Orders, CreateReturn(t, o),
           Body(Idle, orders, lines, reserved, invoices, shipped)
    PROVE  Body(Idle, orders', lines', reserved', invoices', shipped')
<1> DEFINE row == [status |-> "draft", returnOf |-> o, address |-> orders[o].address]
<1>1. UNCHANGED <<reserved, invoices, shipped>>
  BY DEF CreateReturn
<1>2. CASE UNCHANGED <<orders, lines>>
  BY <1>1, <1>2
<1>3. ASSUME ReturnOf(o) = {}, Room(Cardinality(Billed(o))), Billed(o) # {},
             NEW n \in Orders, ~Exists(n), orders' = [orders EXCEPT ![n] = row],
             lines' = lines \o ReturnLines(n, lines, Billed(o))
      PROVE  Body(Idle, orders', lines', reserved', invoices', shipped')
  <2> DEFINE ps == [orders EXCEPT ![n] = row]
  <2>1. lines \in Seq(LineRow) /\ Listed(lines, invoices)
    BY Known DEF Body
  <2>2. /\ ps[n].status = "draft" /\ ps[n].returnOf = o
        /\ \A p \in Orders : p # n => /\ ps[p].returnOf = orders[p].returnOf
                                      /\ ps[p].status = orders[p].status
    BY Known
  <2>3. Body(Idle, ps, lines \o ReturnLines(n, lines, Billed(o)), reserved, invoices, shipped)
    <3> HIDE DEF ps
    <3> QED
      BY <1>3, <2>1, <2>2, ReturnsBody
  <2> QED
    BY <1>1, <1>3, <2>3
<1> QED
  BY <1>2, <1>3 DEF CreateReturn

-----------------------------------------------------------------------------
(* Every step of a serial behaviour.                                       *)

\* A request whose number is taken, with everything it would have written, is
\* rolled back.
LEMMA TakenBody ==
    ASSUME Inv, NEW t \in Tabs, CommitInvoice(t), NumberTaken(request[t].number),
           Body(request[t], orders, lines, reserved, invoices, shipped)
    PROVE  Body(Idle, orders', lines', reserved', invoices', shipped')
<1>1. UNCHANGED <<orders, lines, reserved, invoices, shipped>> /\ request[t].op = "invoice"
  BY DEF CommitInvoice
<1>2. request[t].op \notin Special /\ Idle.op \notin Special /\ Fresh(Idle, lines, invoices)
  BY <1>1 DEF Special, Idle, Fresh
<1>3. Body(Idle, orders, lines, reserved, invoices, shipped)
  BY <1>2, BodyReads
<1> QED
  BY <1>1, <1>3

\* The requests that write and end.
LEMMA EndsBody ==
    ASSUME Inv, NEW t \in Tabs,
           \/ CommitAddress(t) \/ Reserve(t) \/ CommitRemove(t) \/ CommitUpdate(t)
           \/ CommitCancel(t) \/ (CommitInvoice(t) /\ NumberTaken(request[t].number)),
           Body(request[t], orders, lines, reserved, invoices, shipped)
    PROVE  /\ request[t].op # "idle" /\ request' = [request EXCEPT ![t] = Idle]
           /\ Body(Idle, orders', lines', reserved', invoices', shipped')
<1>1. CASE CommitAddress(t)
  BY <1>1, AddressBody DEF CommitAddress, Ends, Posts
<1>2. CASE Reserve(t)
  BY <1>2, ReserveBody DEF Reserve, Ends, Posts
<1>3. CASE CommitRemove(t)
  BY <1>3, RemoveBody DEF CommitRemove, Ends, Posts
<1>4. CASE CommitUpdate(t)
  BY <1>4, UpdateBody DEF CommitUpdate, Ends, Posts
<1>5. CASE CommitCancel(t)
  BY <1>5, CancelBody DEF CommitCancel, Ends, Posts
<1>6. CASE CommitInvoice(t) /\ NumberTaken(request[t].number)
  BY <1>6, TakenBody DEF CommitInvoice, Ends, Posts
<1> QED
  BY <1>1, <1>2, <1>3, <1>4, <1>5, <1>6

\* The requests that go on.
LEMMA GoesOnBody ==
    ASSUME Inv, Inv', NEW t \in Tabs,
           \/ GenerateReference(t) \/ CommitMarks(t) \/ RecalculateStatus(t)
           \/ CommitShipment(t) \/ MarkShipped(t) \/ (\E l \in LineIds : MarkLine(t, l))
           \/ (CommitInvoice(t) /\ ~NumberTaken(request[t].number)),
           NEW r, request' = [request EXCEPT ![t] = r],
           Body(request[t], orders, lines, reserved, invoices, shipped)
    PROVE  Body(r, orders', lines', reserved', invoices', shipped')
<1>1. CASE GenerateReference(t)
  BY <1>1, NumberBody
<1>2. CASE CommitMarks(t)
  BY <1>2, MarksBody
<1>3. CASE RecalculateStatus(t)
  BY <1>3, RecalculateBody
<1>4. CASE CommitShipment(t)
  BY <1>4, ShipBody
<1>5. CASE MarkShipped(t)
  BY <1>5, ShippedBody
<1>6. CASE \E l \in LineIds : MarkLine(t, l)
  BY <1>6, MarkBody
<1>7. CASE CommitInvoice(t) /\ ~NumberTaken(request[t].number)
  BY <1>7, InvoiceBody
<1> QED
  BY <1>1, <1>2, <1>3, <1>4, <1>5, <1>6, <1>7

\* They are busy, and post what they do next.
LEMMA GoesOnPosts ==
    ASSUME NEW t \in Tabs,
           \/ GenerateReference(t) \/ CommitMarks(t) \/ RecalculateStatus(t)
           \/ CommitShipment(t) \/ MarkShipped(t) \/ (\E l \in LineIds : MarkLine(t, l))
           \/ (CommitInvoice(t) /\ ~NumberTaken(request[t].number))
    PROVE  request[t].op # "idle" /\ \E r : request' = [request EXCEPT ![t] = r]
<1>1. CASE GenerateReference(t)
  BY <1>1 DEF GenerateReference, Posts
<1>2. CASE CommitMarks(t)
  BY <1>2 DEF CommitMarks, Posts
<1>3. CASE RecalculateStatus(t)
  BY <1>3 DEF RecalculateStatus, Ends, Posts
<1>4. CASE CommitShipment(t)
  BY <1>4 DEF CommitShipment, Posts
<1>5. CASE MarkShipped(t)
  BY <1>5 DEF MarkShipped, Posts
<1>6. ASSUME NEW l \in LineIds, MarkLine(t, l)
      PROVE  request[t].op # "idle" /\ \E r : request' = [request EXCEPT ![t] = r]
  BY <1>6 DEF MarkLine, Ends, Posts
<1>7. CASE CommitInvoice(t) /\ ~NumberTaken(request[t].number)
  BY <1>7 DEF CommitInvoice, Posts
<1> QED
  BY <1>1, <1>2, <1>3, <1>4, <1>5, <1>6, <1>7

Reads(t) ==
    \/ \E o \in TypedIn, a \in Addresses : BeginAddress(t, o, a)
    \/ \E l \in LineIds : BeginRemove(t, l)
    \/ \E l \in LineIds, q \in Quantities, d \in Discounts : BeginUpdate(t, l, q, d)
    \/ \E o \in Orders : \E items \in Selections(o) :
         (\E fee \in Fees : BeginInvoice(t, o, items, fee)) \/ BeginShip(t, o, items)
    \/ \E o \in Orders : BeginCancel(t, o)

\* The requests that only read begin and post what they have read.
LEMMA ReadsPosts ==
    ASSUME NEW t \in Tabs, Reads(t)
    PROVE  Starts(t) /\ \E r : request' = [request EXCEPT ![t] = r]
<1>1. ASSUME NEW o, NEW a, BeginAddress(t, o, a)
      PROVE  Starts(t) /\ \E r : request' = [request EXCEPT ![t] = r]
  BY <1>1 DEF BeginAddress, Posts
<1>2. ASSUME NEW l, BeginRemove(t, l)
      PROVE  Starts(t) /\ \E r : request' = [request EXCEPT ![t] = r]
  BY <1>2 DEF BeginRemove, Posts
<1>3. ASSUME NEW l, NEW q, NEW d, BeginUpdate(t, l, q, d)
      PROVE  Starts(t) /\ \E r : request' = [request EXCEPT ![t] = r]
  BY <1>3 DEF BeginUpdate, Posts
<1>4. ASSUME NEW o, NEW items, NEW fee, BeginInvoice(t, o, items, fee)
      PROVE  Starts(t) /\ \E r : request' = [request EXCEPT ![t] = r]
  BY <1>4 DEF BeginInvoice, Posts
<1>5. ASSUME NEW o, NEW items, BeginShip(t, o, items)
      PROVE  Starts(t) /\ \E r : request' = [request EXCEPT ![t] = r]
  BY <1>5 DEF BeginShip, Posts
<1>6. ASSUME NEW o, BeginCancel(t, o)
      PROVE  Starts(t) /\ \E r : request' = [request EXCEPT ![t] = r]
  BY <1>6 DEF BeginCancel, Posts
<1> QED
  BY <1>1, <1>2, <1>3, <1>4, <1>5, <1>6 DEF Reads

\* Careful users, one tab at a time: one request, and tables that agree with it.
LEMMA SerialStep ==
    ASSUME Inv, Inv', serial, [Next]_vars,
           OneRequest(request, orders, lines, reserved, invoices, shipped)
    PROVE  OneRequest(request', orders', lines', reserved', invoices', shipped')
<1> DEFINE Goal == OneRequest(request', orders', lines', reserved', invoices', shipped')
<1>1. CASE UNCHANGED vars
  BY <1>1 DEF vars
<1>2. ASSUME NEW o \in Orders, RaiseAlert(o)
      PROVE  Goal
  BY <1>2 DEF RaiseAlert
<1>3. ASSUME NEW t \in Tabs, NEW o \in TypedIn, NEW a \in Addresses, CreateOrder(t, o, a)
      PROVE  Goal
  <2>1. Starts(t) /\ request' = request
    BY <1>3 DEF CreateOrder
  <2>2. Body(Idle, orders, lines, reserved, invoices, shipped) =>
          Body(Idle, orders', lines', reserved', invoices', shipped')
    BY <1>3, CreateBody
  <2> QED
    BY <2>1, <2>2, BeginsAndEnds
<1>4. ASSUME NEW t \in Tabs, NEW o \in Orders, CreateReturn(t, o)
      PROVE  Goal
  <2>1. Starts(t) /\ request' = request
    BY <1>4 DEF CreateReturn
  <2>2. Body(Idle, orders, lines, reserved, invoices, shipped) =>
          Body(Idle, orders', lines', reserved', invoices', shipped')
    BY <1>4, CreateReturnBody
  <2> QED
    BY <2>1, <2>2, BeginsAndEnds
<1>5. ASSUME NEW t \in Tabs, NEW o \in Orders, NEW q \in 1 .. MaxQty, NEW d \in Discounts,
             AddLine(t, o, q, d)
      PROVE  Goal
  <2>1. Starts(t)
    BY <1>5 DEF AddLine
  <2>2. PICK r : request' = [request EXCEPT ![t] = r]
    BY <1>5 DEF AddLine, Posts
  <2>3. Body(Idle, orders, lines, reserved, invoices, shipped) =>
          Body(r, orders', lines', reserved', invoices', shipped')
    BY <1>5, <2>2, AddBody
  <2> QED
    BY <2>1, <2>2, <2>3, Begins
<1>6. ASSUME NEW t \in Tabs, Reads(t)
      PROVE  Goal
  <2>1. PICK r : Starts(t) /\ request' = [request EXCEPT ![t] = r]
    BY <1>6, ReadsPosts
  <2>2. Body(Idle, orders, lines, reserved, invoices, shipped) =>
          Body(r, orders', lines', reserved', invoices', shipped')
    BY <1>6, <2>1, ReadsBody DEF Reads
  <2> QED
    BY <2>1, <2>2, Begins
<1>7. ASSUME NEW t \in Tabs,
             \/ CommitAddress(t) \/ Reserve(t) \/ CommitRemove(t) \/ CommitUpdate(t)
             \/ CommitCancel(t) \/ (CommitInvoice(t) /\ NumberTaken(request[t].number))
      PROVE  Goal
  <2>1. request[t].op # "idle" /\ request' = [request EXCEPT ![t] = Idle]
    BY <1>7 DEF CommitAddress, Reserve, CommitRemove, CommitUpdate, CommitCancel, CommitInvoice,
                Ends, Posts
  <2>2. Body(request[t], orders, lines, reserved, invoices, shipped) =>
          Body(Idle, orders', lines', reserved', invoices', shipped')
    BY <1>7, EndsBody
  <2> QED
    BY <2>1, <2>2, GoesOn
<1>8. ASSUME NEW t \in Tabs,
             \/ GenerateReference(t) \/ CommitMarks(t) \/ RecalculateStatus(t)
             \/ CommitShipment(t) \/ MarkShipped(t) \/ (\E l \in LineIds : MarkLine(t, l))
             \/ (CommitInvoice(t) /\ ~NumberTaken(request[t].number))
      PROVE  Goal
  <2>1. PICK r : request[t].op # "idle" /\ request' = [request EXCEPT ![t] = r]
    BY <1>8, GoesOnPosts
  <2>2. Body(request[t], orders, lines, reserved, invoices, shipped) =>
          Body(r, orders', lines', reserved', invoices', shipped')
    BY <1>8, <2>1, GoesOnBody
  <2> QED
    BY <2>1, <2>2, GoesOn
<1>9. ASSUME NEW t \in Tabs, Crash(t)
      PROVE  Goal
  BY <1>9 DEF Crash
<1> QED
  BY <1>1, <1>2, <1>3, <1>4, <1>5, <1>6, <1>7, <1>8, <1>9, Zenon DEF Next, Reads

\* At first there is nothing.
LEMMA SerialInit == Init => SerialInv
<1> SUFFICES ASSUME Init
             PROVE  OneRequest(request, orders, lines, reserved, invoices, shipped)
  BY DEF SerialInv
<1>1. Sole(Idle, request)
  BY DEF Init, Sole
<1>2. lines = <<>> /\ invoices = <<>> /\ Len(lines) = 0 /\ Len(invoices) = 0
  BY DEF Init
<1>3. Listed(lines, invoices) /\ Docs(Marking(Idle), Shipping(Idle), lines, invoices, shipped)
  BY <1>2 DEF Listed, Docs
<1>4. Fresh(Idle, lines, invoices)
  BY DEF Fresh, Idle
<1>5. Kept(Idle, orders, lines, reserved)
  <2>1. lines \in Seq(LineRow)
    BY <1>2
  <2>2. \A o : Weighed(o, lines) = 0
    <3> SUFFICES ASSUME NEW o PROVE Weighed(o, lines) = 0
      OBVIOUS
    <3>1. \A l \in 1 .. Len(lines) : WeightOf(o, lines[l]) = 0
      BY <1>2
    <3> QED
      BY <2>1, <3>1, WeighedNothing
  <2>3. \A o : Coming(Idle, o) = 0
    BY DEF Coming, Idle
  <2> QED
    BY <2>2, <2>3 DEF Init, Kept
<1>6. Returned(Idle, orders, lines)
  <2>1. \A o \in Orders : orders[o].returnOf = Absent
    BY DEF Init
  <2>2. \A o : ~HasBilled(o, lines)
    BY <1>2 DEF HasBilled
  <2> QED
    BY <2>1, <2>2 DEF Returned
<1> QED
  BY <1>1, <1>3, <1>4, <1>5, <1>6 DEF OneRequest, Body

\* The serial invariant: one request at a time, of which the tables know, rows
\* and papers that agree but for what it is about to mark, and reservations that
\* are the sums of the lines.
THEOREM SerialInductive == Spec => []SerialInv
<1>1. Inv /\ Inv' /\ SerialInv /\ [Next]_vars => SerialInv'
  <2> SUFFICES ASSUME Inv, Inv', SerialInv, [Next]_vars, serial'
               PROVE  OneRequest(request', orders', lines', reserved', invoices', shipped')
    BY DEF SerialInv
  <2>1. serial
    BY Zenon DEF Next, vars
  <2> QED
    BY <2>1, SerialStep DEF SerialInv
<1> QED
  BY <1>1, SerialInit, Inductive, PTL DEF Spec

\* Between the requests of a serial behaviour the tables agree by themselves.
LEMMA QuietBody ==
    ASSUME Inv, SerialInv, serial, Quiet
    PROVE  Body(Idle, orders, lines, reserved, invoices, shipped)
<1>1. PICK q : Sole(q, request) /\ Body(q, orders, lines, reserved, invoices, shipped)
  BY DEF SerialInv, OneRequest
<1>2. request \in [Tabs -> RequestsOn(LineIds)]
  BY DEF Inv, RequestsOK, LineIds
<1>3. CASE \E t \in Tabs : TRUE
  <2>1. PICK t \in Tabs : TRUE
    BY <1>3
  <2>2. \A u \in Tabs : request[u].op = "idle"
    BY DEF Quiet, Free
  <2>3. q = Idle
    BY <1>1, <1>2, <2>1, <2>2, SoleBegins
  <2> QED
    BY <1>1, <2>3
<1>4. CASE Tabs = {}
  BY <1>1, <1>4 DEF Sole
<1> QED
  BY <1>3, <1>4

\* With careful users, one tab at a time and no crash, every line agrees with its
\* invoices and shipments between requests, and a cancelled order that was billed
\* has its return order: generate_invoice, _mark_invoice_lines,
\* cut_line_for_invoice, mark_as_shipped, cancel and create_return_order
\* together, over several commits.
THEOREM LinesSafe == Spec => []LinesMatchDocuments
<1>1. Inv /\ SerialInv => LinesMatchDocuments
  <2> SUFFICES ASSUME Inv, SerialInv, serial, Quiet
               PROVE  /\ \A l \in LineIds : Documented(l)
                      /\ \A o \in Orders : CancelledIsReturned(o)
    BY DEF LinesMatchDocuments
  <2>1. Body(Idle, orders, lines, reserved, invoices, shipped)
    BY QuietBody
  <2>2. Docs({}, {}, lines, invoices, shipped) /\ Returned(Idle, orders, lines)
    BY <2>1 DEF Body, Marking, Shipping, Idle
  <2>3. ASSUME NEW l \in LineIds
        PROVE  Documented(l)
    <3>1. Papers(lines[l], l, invoices, shipped)
      BY <2>2 DEF Docs, LineIds
    <3>2. With(l, invoices) = InvoicesWith(l)
      BY DEF With, InvoicesWith
    <3> QED
      BY <3>1, <3>2 DEF Papers, IsBilled, Documented
  <2>4. ASSUME NEW o \in Orders, orders[o].status = "cancelled", Billed(o) # {}
        PROVE  \E r \in Orders : ReturnOf(o) = {r} /\ LinesOf(r) # {}
    <3>1. HasBilled(o, lines) /\ ~On(Idle, {"mark", "recalculate"}, o)
      BY <2>4 DEF HasBilled, IsBilled, Billed, LinesOf, LineIds, On, Idle
    <3>2. PICK r \in Orders : orders[r].returnOf = o
      BY <2>2, <2>4, <3>1 DEF Returned
    <3>3. o # Absent
      BY CustomerOrdersAssumption
    <3>4. ReturnOf(o) = {r}
      BY <2>2, <3>2, <3>3 DEF Returned, ReturnOf
    <3>5. LinesOf(r) # {}
      BY <2>2, <3>2, <3>3 DEF Returned, LinesOf, LineIds
    <3> QED
      BY <3>4, <3>5
  <2> QED
    BY <2>3, <2>4 DEF CancelledIsReturned
<1> QED
  BY <1>1, Inductive, SerialInductive, PTL

\* With careful users, one tab at a time and no crash, the reservation of an
\* order is between requests the sum of its lines that are not cancelled, whatever
\* was added, changed, removed, cut by a partial invoice or cancelled.
THEOREM ReservationsSafe == Spec => []ReservationsMatchLines
<1>1. Inv /\ SerialInv => ReservationsMatchLines
  <2> SUFFICES ASSUME Inv, SerialInv, serial, Quiet,
                      NEW o \in Orders, orders[o].returnOf = Absent
               PROVE  reserved[o] =
                        QtySum({l \in ArticleLines(o) : lines[l].status # "cancelled"}, lines)
    BY DEF ReservationsMatchLines
  <2>1. Kept(Idle, orders, lines, reserved)
    BY QuietBody DEF Body
  <2>2. Coming(Idle, o) = 0 /\ reserved[o] \in Int
    BY <2>1 DEF Coming, Idle, Kept
  <2>3. reserved[o] = Weighed(o, lines)
    BY <2>1, <2>2 DEF Kept
  <2>4. lines \in Seq(LineRow)
    BY Known
  <2> QED
    BY <2>3, <2>4, WeighedOpen
<1> QED
  BY <1>1, Inductive, SerialInductive, PTL
=============================================================================
