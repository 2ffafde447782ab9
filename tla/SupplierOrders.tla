--------------------------- MODULE SupplierOrders ---------------------------
(***************************************************************************)
(* Supplier orders (CMD-), supplier returns (RET-) and reservations (RES-) *)
(* and the inventory movements behind their lines:                         *)
(* db_models/repositories/stocks/orders.py, reached through the pages of   *)
(* app_front/blueprints/stock.                                             *)
(*                                                                         *)
(* A tab is a browser tab of some user. It opens a page, which shows the   *)
(* buttons of the state the order is in, and later posts one request. The  *)
(* gunicorn worker that serves the request reads the rows it needs (one    *)
(* READ COMMITTED snapshot kept by the SQLAlchemy session), then commits   *)
(* its writes; nothing is locked or checked again in between. A reception  *)
(* then closes the order in a second transaction. A worker may die before  *)
(* a commit, or between the two.                                           *)
(*                                                                         *)
(* Prices, order values, references, e-mails and EDI are left out.         *)
(***************************************************************************)
EXTENDS Integers, Sequences, FiniteSets, SequencesExt, FiniteSetsExt

CONSTANTS
    Orders,         \* bound: the rows order_in may get
    Kinds,          \* the order prefixes in use
    Objects,        \* general_objects
    Counted,        \* the objects that an inventory counted; the others start
                    \* with no movement at all
    Tabs,           \* browser tabs, each with one request at a time
    InitialStock,   \* what the last inventory of a counted object says
    MaxQty,         \* bound: the largest quantity of a form
    MaxLines        \* bound: no line is created when MaxLines exist

AllKinds == {"CMD", "RET", "RES"}

ASSUME OrdersAssumption ==
    /\ Kinds \subseteq AllKinds
    /\ Objects # {} /\ Counted \subseteq Objects
    /\ InitialStock \in Nat
    /\ MaxQty \in Nat /\ MaxLines \in Nat

VARIABLES
    orders,     \* order -> its row: state and prefix
    lines,      \* the order_in_lines, in creation order
    moves,      \* the inventory_movements since the last inventory
    tabs,       \* tab -> the page or the request it is busy with
    calm        \* one tab at a time, a careful operator, no worker dies

vars == <<orders, lines, moves, tabs, calm>>
db == <<orders, lines, moves>>

OrderStates == {"none", "draft", "sended", "received", "cancelled", "deleted"}
LineStates == {"pending", "received", "cancelled", "deleted"}
MoveTypes == {"pending", "in", "out", "reserved"}
Ops == {"create", "edit", "delete", "confirm", "cancel", "receive", "return"}

Row == [state : OrderStates, kind : AllKinds]
Line == [order : Orders, obj : Objects, state : LineStates,
         ordered : Int, received : Int, move : Nat]
Move == [type : MoveTypes, obj : Objects, qty : Int]

\* What a request read before it writes: the lines it is about, as they were,
\* and the movements behind them.
Request == [at : {"posted"}, order : Orders, op : Ops,
            read : SUBSET [id : Nat, line : Line],
            backing : SUBSET [id : Nat, move : Move],
            obj : Objects, r : Nat, c : Nat]
Tab == [at : {"home"}] \union [at : {"closing"}, order : Orders]
       \union [at : {"page"}, order : Orders, shown : {"draft", "sended"}, seen : Nat]
       \union Request

Exists(o) == orders[o].state \notin {"none", "deleted"}
LinesOf(o) == {l \in DOMAIN lines : lines[l].order = o /\ lines[l].state # "deleted"}

RowsOK ==
    /\ orders \in [Orders -> Row]
    /\ lines \in Seq(Line)
    /\ moves \in Seq(Move)
    /\ tabs \in [Tabs -> Tab]

TypeOK == RowsOK /\ calm \in BOOLEAN

Init ==
    /\ \E k \in [Orders -> Kinds] :
         orders = [o \in Orders |-> [state |-> "none", kind |-> k[o]]]
    /\ lines = <<>>
    /\ moves = <<>>
    /\ tabs = [t \in Tabs |-> [at |-> "home"]]
    /\ calm \in BOOLEAN

-----------------------------------------------------------------------------
(* Stock, as the SUM queries of stock.py and inventory.py compute it.      *)

Total(type, obj) ==
    SumFunctionOnSet([m \in DOMAIN moves |-> moves[m].qty],
                     {m \in DOMAIN moves : moves[m].type = type /\ moves[m].obj = obj})

\* The last inventory, 0 for an object that has none.
Initial(obj) == IF obj \in Counted THEN InitialStock ELSE 0

\* get_qty_by_id: the last inventory, and the movements since.
Stock(obj) == Initial(obj) + Total("in", obj) - Total("out", obj) - Total("reserved", obj)
TheoreticalStock(obj) == Stock(obj) + Total("pending", obj)

\* has_inventory_history: a movement of any type, not only an inventory.
HasHistory(obj) == obj \in Counted \/ \E m \in DOMAIN moves : moves[m].obj = obj

\* get_available_quantity: nothing is available without an inventory.
Available(obj) == IF obj \in Counted THEN Max({Stock(obj), 0}) ELSE 0

\* The movement that a line of each kind of order creates.
MoveType(kind) == CASE kind = "CMD" -> "pending" [] kind = "RET" -> "out" [] kind = "RES" -> "reserved"

\* Mutation of NewLine: the line gets the movement before its own.
MutNewLine(o, obj, state, qty, m) ==
    [order |-> o, obj |-> obj, state |-> state, ordered |-> qty, received |-> 0,
     move |-> IF m = 0 THEN 0 ELSE m - 1]

NewMove(type, obj, qty) == [type |-> type, obj |-> obj, qty |-> qty]
NewLine(o, obj, state, qty, m) ==
    [order |-> o, obj |-> obj, state |-> state, ordered |-> qty, received |-> 0, move |-> m]

\* Mutation of Compensation: the movement is copied with its sign.
MutCompensation(m) == m

Compensation(m) == [m EXCEPT !.qty = -@]

\* _compensate_inventory_movements: one inverse movement per movement read.
Compensations(backing) ==
    LET rows == SetToSeq(backing)
    IN  [i \in 1 .. Len(rows) |-> Compensation(rows[i].move)]

-----------------------------------------------------------------------------
(* Pages: the templates show the buttons of the state they were given.     *)

Starts(t) == tabs[t].at = "home" /\ (calm => \A u \in Tabs : tabs[u].at = "home")

\* create_order_in_db, edit_order_in_db(action="create").
CreateOrder(t, o) ==
    /\ Starts(t)
    /\ orders[o].state = "none"
    /\ orders' = [orders EXCEPT ![o].state = "draft"]
    /\ UNCHANGED <<lines, moves, tabs>>

\* edit_order, receipt_order and the lists: a page on an open order.
OpenPage(t, o) ==
    /\ Starts(t)
    /\ orders[o].state \in {"draft", "sended"}
    /\ tabs' = [tabs EXCEPT ![t] = [at |-> "page", order |-> o,
                                    shown |-> orders[o].state, seen |-> Len(lines)]]
    /\ UNCHANGED db

ClosePage(t) ==
    /\ tabs[t].at = "page"
    /\ tabs' = [tabs EXCEPT ![t] = [at |-> "home"]]
    /\ UNCHANGED db

-----------------------------------------------------------------------------
(* Requests. Each reads its rows, checks what the code checks, and writes  *)
(* in a later step.                                                        *)

Shows(t, state, kinds) ==
    /\ tabs[t].at = "page"
    /\ tabs[t].shown = state
    /\ orders[tabs[t].order].kind \in kinds

\* The lines of the order that the page displays and that still exist.
Displayed(t) == {l \in LinesOf(tabs[t].order) : l <= tabs[t].seen}

AnyObject == CHOOSE obj \in Objects : TRUE

\* The request op of tab t reads the lines ids and the movements behind them.
Post(t, op, ids, obj, r, c) ==
    /\ tabs' = [tabs EXCEPT ![t] =
         [at |-> "posted", order |-> @.order, op |-> op,
          read |-> {[id |-> l, line |-> lines[l]] : l \in ids},
          backing |-> {[id |-> m, move |-> moves[m]] : m \in {lines[l].move : l \in ids} \ {0}},
          obj |-> obj, r |-> r, c |-> c]]
    /\ UNCHANGED db

\* Mutation of PostCreate: the availability of the stock is not checked.
MutPostCreate(t, obj, qty) ==
    /\ Shows(t, "draft", Kinds)
    /\ Len(lines) < MaxLines
    /\ Post(t, "create", {}, obj, qty, 0)

\* new_order_line, new_return_line, new_reservation_line. A reservation
\* checks the available quantity (_validate_reservation_quantity), but of an
\* object that has a movement only.
PostCreate(t, obj, qty) ==
    /\ Shows(t, "draft", Kinds)
    /\ Len(lines) < MaxLines
    /\ orders[tabs[t].order].kind = "RES" /\ HasHistory(obj) => qty <= Available(obj)
    /\ Post(t, "create", {}, obj, qty, 0)

\* edit_order_line, edit_return_line: the line needs a movement.
PostEdit(t, l, obj, qty) ==
    /\ Shows(t, "draft", {"CMD", "RET"})
    /\ l \in Displayed(t)
    /\ lines[l].move # 0
    /\ Post(t, "edit", {l}, obj, qty, 0)

\* edit_order_line, edit_return_line, delete_reservation_line.
PostDelete(t, l) ==
    /\ Shows(t, "draft", Kinds)
    /\ l \in Displayed(t)
    /\ Post(t, "delete", {l}, AnyObject, 0, 0)

\* confirm_order: a draft with lines.
PostConfirm(t) ==
    LET o == tabs[t].order IN
    /\ Shows(t, "draft", Kinds)
    /\ orders[o].state = "draft"
    /\ LinesOf(o) # {}
    /\ Post(t, "confirm", {}, AnyObject, 0, 0)

\* cancel_supplier_order: only a reservation has its state checked.
PostCancel(t) ==
    LET o == tabs[t].order IN
    /\ Shows(t, "draft", Kinds) \/ Shows(t, "sended", {"RET"})
    /\ Exists(o)
    /\ orders[o].kind = "RES" => orders[o].state = "draft"
    /\ Post(t, "cancel", LinesOf(o), AnyObject, 0, 0)

\* What a careful operator enters: a part of a line is cancelled only along
\* with a reception, and no part of a return is cancelled.
Sound(kind, ordered, r, c) ==
    /\ kind = "RET" => c = 0
    /\ c > 0 => r > 0 \/ c = ordered

\* receive_order_line_route, receive_return_line_route: the form bounds the
\* two quantities, the repository wants a pending line.
PostReceive(t, l, r, c) ==
    /\ Shows(t, "sended", {"CMD", "RET"})
    /\ Len(lines) < MaxLines
    /\ l \in Displayed(t)
    /\ lines[l].state = "pending"
    /\ r + c \in 1 .. lines[l].ordered
    /\ calm => Sound(orders[tabs[t].order].kind, lines[l].ordered, r, c)
    /\ Post(t, "receive", {l}, AnyObject, r, c)

\* return_reservation: the pending lines that have a movement are given back.
PostReturn(t) ==
    LET o == tabs[t].order IN
    /\ Shows(t, "sended", {"RES"})
    /\ orders[o].state \in {"draft", "sended"}
    /\ Post(t, "return", {l \in LinesOf(o) : lines[l].state = "pending" /\ lines[l].move # 0},
            AnyObject, 0, 0)

-----------------------------------------------------------------------------
(* Commits.                                                                *)

Committing(t, op) == tabs[t].at = "posted" /\ tabs[t].op = op
Done(t) == tabs' = [tabs EXCEPT ![t] = [at |-> "home"]]
Ids(rows) == {row.id : row \in rows}
Present(rows) == \A row \in rows : lines[row.id].state # "deleted"

\* edit_order_in_line_db(action="create"): a movement, then the line.
CommitCreate(t) ==
    LET q == tabs[t] IN
    /\ Committing(t, "create")
    /\ Exists(q.order)
    /\ moves' = Append(moves, NewMove(MoveType(orders[q.order].kind), q.obj, q.r))
    /\ lines' = Append(lines, NewLine(q.order, q.obj, "pending", q.r, Len(moves) + 1))
    /\ Done(t)
    /\ UNCHANGED orders

\* The UPDATE of an edition names the columns whose value differs from the
\* one read.
Changed(old, new, now) == IF old = new THEN now ELSE new

\* Mutation of CommitEdit: the movement keeps its quantity.
MutCommitEdit(t) ==
    LET q == tabs[t] IN
    /\ Committing(t, "edit")
    /\ Present(q.read)
    /\ \E row \in q.read :
         lines' = [lines EXCEPT ![row.id].obj = Changed(row.line.obj, q.obj, @),
                                ![row.id].ordered = Changed(row.line.ordered, q.r, @)]
    /\ Done(t)
    /\ UNCHANGED <<orders, moves>>

\* edit_order_in_line_db(action="edit"): the line and its movement.
CommitEdit(t) ==
    LET q == tabs[t] IN
    /\ Committing(t, "edit")
    /\ Present(q.read)
    /\ \E row \in q.read, own \in q.backing :
         /\ lines' = [lines EXCEPT ![row.id].obj = Changed(row.line.obj, q.obj, @),
                                   ![row.id].ordered = Changed(row.line.ordered, q.r, @)]
         /\ moves' = [moves EXCEPT ![own.id].obj = Changed(own.move.obj, q.obj, @),
                                   ![own.id].qty = Changed(own.move.qty, q.r, @)]
    /\ Done(t)
    /\ UNCHANGED orders

\* The rows are gone; a DELETE that finds no row is not an error.
Removed(rows) ==
    [l \in DOMAIN lines |-> IF l \in Ids(rows) THEN [lines[l] EXCEPT !.state = "deleted", !.move = 0]
                                         ELSE lines[l]]

\* delete_order_in_line_db.
CommitDelete(t) ==
    LET q == tabs[t] IN
    /\ Committing(t, "delete")
    /\ moves' = moves \o Compensations(q.backing)
    /\ lines' = Removed(q.read)
    /\ Done(t)
    /\ UNCHANGED orders

\* confirm_order.
CommitConfirm(t) ==
    LET q == tabs[t] IN
    /\ Committing(t, "confirm")
    /\ Exists(q.order)
    /\ orders' = [orders EXCEPT ![q.order].state = "sended"]
    /\ Done(t)
    /\ UNCHANGED <<lines, moves>>

\* cancel_supplier_order: a line created since the read keeps the order alive
\* (foreign key), and the whole transaction fails.
CommitCancel(t) ==
    LET q == tabs[t] IN
    /\ Committing(t, "cancel")
    /\ LinesOf(q.order) \subseteq Ids(q.read)
    /\ moves' = moves \o Compensations(q.backing)
    /\ lines' = Removed(q.read)
    /\ orders' = [orders EXCEPT ![q.order].state = "deleted"]
    /\ Done(t)

\* _build_receive_movements, kept by _persist_*: received, cancelled, rest.
MovesOfReceipt(kind, obj, r, c, rem) ==
    (IF r > 0 THEN <<NewMove(IF kind = "RET" THEN "out" ELSE "in", obj, r)>> ELSE <<>>)
    \o (IF c > 0 /\ kind = "RET" THEN <<NewMove("in", obj, c)>> ELSE <<>>)
    \o (IF rem > 0 THEN <<NewMove(MoveType(kind), obj, rem)>> ELSE <<>>)

\* The line received in full or in part, or cancelled in full; a line of which
\* only a part is cancelled is left as it is.
ReceivedLine(now, r, c, rem, m) ==
    CASE r > 0            -> [now EXCEPT !.state = "received", !.received = r, !.move = m]
      [] r = 0 /\ rem = 0 -> [now EXCEPT !.state = "cancelled", !.move = 0]
      [] OTHER            -> now

\* Whether a reception writes to the row of its line.
Touches(ordered, r, c) == r > 0 \/ r + c = ordered

\* receive_order_line up to its commit. m numbers the movement of the received
\* quantity, the others follow it.
CommitReceive(t) ==
    LET q == tabs[t] IN
    /\ Committing(t, "receive")
    /\ Exists(q.order)
    /\ \E row \in q.read :
         LET old  == row.line
             rem  == old.ordered - q.r - q.c
             kind == orders[q.order].kind
             comp == Compensations(q.backing)
             m    == Len(moves) + Len(comp) + 1
             mc   == IF q.r > 0 THEN m + 1 ELSE m
             mp   == IF kind = "RET" /\ q.c > 0 THEN mc + 1 ELSE mc
         IN
         /\ Touches(old.ordered, q.r, q.c) => Present(q.read)
         /\ moves' = moves \o comp \o MovesOfReceipt(kind, old.obj, q.r, q.c, rem)
         /\ lines' = [lines EXCEPT ![row.id] = ReceivedLine(@, q.r, q.c, rem, m)]
              \o (IF q.c > 0
                    THEN <<NewLine(q.order, old.obj, "cancelled", q.c,
                                   IF kind = "RET" THEN mc ELSE 0)>>
                    ELSE <<>>)
              \o (IF rem > 0
                    THEN <<NewLine(q.order, old.obj, "pending", rem, mp)>>
                    ELSE <<>>)
    /\ tabs' = [tabs EXCEPT ![t] = [at |-> "closing", order |-> q.order]]
    /\ UNCHANGED orders

\* Mutation of Close: the order waits for every line to be received.
MutClose(t) ==
    LET o == tabs[t].order  states == {lines[l].state : l \in LinesOf(o)} IN
    /\ tabs[t].at = "closing"
    /\ orders' = IF Exists(o) /\ states = {"received"}
                   THEN [orders EXCEPT ![o].state = "received"]
                   ELSE orders
    /\ Done(t)
    /\ UNCHANGED <<lines, moves>>

\* _check_order_completion, in a transaction of its own.
Close(t) ==
    LET o == tabs[t].order
        states == {lines[l].state : l \in LinesOf(o)}
    IN
    /\ tabs[t].at = "closing"
    /\ orders' = IF Exists(o) /\ states # {} /\ states \subseteq {"received", "cancelled"}
                   THEN [orders EXCEPT ![o].state =
                           IF states = {"cancelled"} THEN "cancelled" ELSE "received"]
                   ELSE orders
    /\ Done(t)
    /\ UNCHANGED <<lines, moves>>

\* return_reservation: inverse movements, and every line is settled.
CommitReturn(t) ==
    LET q == tabs[t] IN
    /\ Committing(t, "return")
    /\ Exists(q.order)
    /\ Present(q.read)
    /\ moves' = moves \o Compensations(q.backing)
    /\ lines' = [l \in DOMAIN lines |->
          IF \E row \in q.read : row.id = l
            THEN [lines[l] EXCEPT !.state = "received",
                    !.received = (CHOOSE row \in q.read : row.id = l).line.ordered]
            ELSE lines[l]]
    /\ orders' = [orders EXCEPT ![q.order].state = "received"]
    /\ Done(t)

\* A foreign key or a missing row makes the commit fail: rollback, error page.
Fail(t) ==
    LET q == tabs[t] IN
    /\ q.at = "posted"
    /\ \/ q.op \in {"create", "confirm", "receive", "return"} /\ ~Exists(q.order)
       \/ q.op \in {"edit", "return"} /\ ~Present(q.read)
       \/ /\ q.op = "receive"
          /\ \E row \in q.read : Touches(row.line.ordered, q.r, q.c)
          /\ ~Present(q.read)
       \/ q.op = "cancel" /\ ~(LinesOf(q.order) \subseteq Ids(q.read))
    /\ Done(t)
    /\ UNCHANGED db

\* The worker dies: an open transaction is rolled back, a committed reception
\* is never followed by its closing.
Crash(t) ==
    /\ ~calm
    /\ tabs[t].at \in {"posted", "closing"}
    /\ Done(t)
    /\ UNCHANGED db

-----------------------------------------------------------------------------
Browse(t) == ClosePage(t) \/ \E o \in Orders : CreateOrder(t, o) \/ OpenPage(t, o)

Submit(t) ==
    \/ PostConfirm(t) \/ PostCancel(t) \/ PostReturn(t)
    \/ \E obj \in Objects, qty \in 1 .. MaxQty : PostCreate(t, obj, qty)
    \/ \E l \in DOMAIN lines :
         \/ PostDelete(t, l)
         \/ \E obj \in Objects, qty \in 1 .. MaxQty : PostEdit(t, l, obj, qty)
         \/ \E r, c \in 0 .. MaxQty : PostReceive(t, l, r, c)

Serve(t) ==
    \/ CommitCreate(t) \/ CommitEdit(t) \/ CommitDelete(t) \/ CommitConfirm(t)
    \/ CommitCancel(t) \/ CommitReceive(t) \/ CommitReturn(t)
    \/ Fail(t) \/ Close(t)

Next ==
    /\ UNCHANGED calm
    /\ \E t \in Tabs : Browse(t) \/ Submit(t) \/ Serve(t) \/ Crash(t)

Spec == Init /\ [][Next]_vars

-----------------------------------------------------------------------------
(* Properties that hold however many tabs are open.                        *)

\* A pending line is backed by a movement of its order's type, for its object
\* and exactly its quantity: what a later compensation will undo.
PendingBacked ==
    \A l \in DOMAIN lines : lines[l].state = "pending" =>
      /\ lines[l].move \in DOMAIN moves
      /\ moves[lines[l].move] =
           NewMove(MoveType(orders[lines[l].order].kind), lines[l].obj, lines[l].ordered)

\* Two lines never share a movement: editing or compensating the movement of
\* one line does not move the stock of another.
UnsharedMovements ==
    \A l, k \in DOMAIN lines :
      l # k /\ lines[l].move # 0 => lines[l].move # lines[k].move

-----------------------------------------------------------------------------
(* Properties of one careful tab at a time (calm).                         *)

Ordered(ls) == SumFunctionOnSet([l \in DOMAIN lines |-> lines[l].ordered], ls)
Received(ls) == SumFunctionOnSet([l \in DOMAIN lines |-> lines[l].received], ls)
Those(kind, state, obj) ==
    {l \in DOMAIN lines : /\ orders[lines[l].order].kind = kind
                          /\ lines[l].state = state
                          /\ lines[l].obj = obj}

\* The pending movements, the compensated ones included, add up to what the
\* pending lines of the supplier orders are still waiting for: the expected
\* part of the theoretical stock is explained by open lines.
PendingIsOrdered(obj) ==
    TheoreticalStock(obj) - Stock(obj) = Ordered(Those("CMD", "pending", obj))

\* The stock is the last inventory if any, plus what was received from suppliers,
\* minus what was or will be sent back, minus what is still reserved.
StockOfLines(obj) ==
    Initial(obj) + Received(Those("CMD", "received", obj)) - Received(Those("RET", "received", obj))
      - Ordered(Those("RET", "pending", obj)) - Ordered(Those("RES", "pending", obj))

\* The stock, and what is expected on top of it, are explained by the lines of
\* the orders: what supplies, returns and reservations did, and nothing else.
StockIsExplained ==
    calm => \A obj \in Objects : Stock(obj) = StockOfLines(obj) /\ PendingIsOrdered(obj)

\* An order is open as long as it waits for something: no line of a closed
\* order waits for a delivery, and an order that was sent waits for a line or is
\* being closed (C_SENDED to C_RECEIVED or C_CANCELLED in
\* workflow_supplier_order.md).
OpenOrdersWait ==
    calm =>
    /\ \A l \in DOMAIN lines : lines[l].state = "pending" =>
         orders[lines[l].order].state \in {"draft", "sended"}
    /\ \A o \in Orders : orders[o].state = "sended" =>
         \/ \E l \in LinesOf(o) : lines[l].state = "pending"
         \/ \E t \in Tabs : tabs[t].at = "closing" /\ tabs[t].order = o

\* What customers have reserved of an object is covered by what its inventory
\* counted and what its suppliers delivered since, through any sequence of
\* reservations, partial receptions, returns, deletions and cancellations. Of
\* an object that no inventory counted, the first reservation is taken without
\* a check, and none is added to it (_validate_reservation_quantity).
ReservationsAreCovered ==
    calm => \A obj \in Objects :
      IF obj \in Counted
        THEN Ordered(Those("RES", "pending", obj))
               <= InitialStock + Received(Those("CMD", "received", obj))
        ELSE Cardinality(Those("RES", "pending", obj)) <= 1
=============================================================================
