------------------------ MODULE SupplierOrdersProofs ------------------------
(***************************************************************************)
(* Proofs about SupplierOrders, for any number of tabs, orders, lines and  *)
(* movements, with stale pages, crashes and careless operators:            *)
(*   - TypeOK;                                                             *)
(*   - PendingBacked and UnsharedMovements, through the invariant IInv.    *)
(*                                                                         *)
(* And of one careful tab at a time (calm): StockIsExplained,              *)
(* OpenOrdersWait and ReservationsAreCovered. A movement and a line weigh  *)
(* what they stand for in the stock, and in what is expected on top of it; *)
(* CalmInv says that for every object the movements weigh what the lines   *)
(* weigh, and that the request under way knows its rows as they are. Each  *)
(* commit changes both weights by the same amount.                         *)
(***************************************************************************)
EXTENDS SupplierOrders, Sums, SequenceTheorems, FiniteSetTheorems, TLAPS

\* A pending line has its movement, and no movement serves two lines.
LineOK(l) ==
    /\ lines[l].move \in 0 .. Len(moves)
    /\ lines[l].state = "pending" =>
         /\ lines[l].move # 0
         /\ moves[lines[l].move] =
              NewMove(MoveType(orders[lines[l].order].kind), lines[l].obj, lines[l].ordered)
    /\ \A k \in DOMAIN lines : l # k /\ lines[l].move # 0 => lines[l].move # lines[k].move

LinesOK == \A l \in DOMAIN lines : LineOK(l)

\* What an edition still knows of the line row and of its movement own: if the
\* line is still pending, it has that movement, and both were read alike.
EditOK(row, own) ==
    /\ own.id \in 1 .. Len(moves)
    /\ \A k \in DOMAIN lines : k # row.id => lines[k].move # own.id
    /\ lines[row.id].state = "pending" =>
         /\ lines[row.id].move = own.id
         /\ own.move.obj = row.line.obj
         /\ own.move.qty = row.line.ordered

RequestOK(t) ==
    tabs[t].at = "posted" =>
      /\ IsFiniteSet(tabs[t].backing)
      /\ \A row \in tabs[t].read : row.id \in DOMAIN lines
      /\ tabs[t].op = "edit" =>
           \A row \in tabs[t].read, own \in tabs[t].backing : EditOK(row, own)

IInv == RowsOK /\ LinesOK /\ \A t \in Tabs : RequestOK(t)

-----------------------------------------------------------------------------
\* A finite set has an enumeration without repetition, which SetToSeq picks.
LEMMA SetToSeqType ==
    ASSUME NEW S, IsFiniteSet(S)
    PROVE  SetToSeq(S) \in Seq(S) /\ Cardinality(S) \in Nat
<1>1. Cardinality(S) \in Nat /\ ExistsBijection(1 .. Cardinality(S), S)
  BY FS_CardinalityType
<1>2. PICK f : f \in Bijection(1 .. Cardinality(S), S)
  BY <1>1 DEF ExistsBijection
<1>3. f \in [1 .. Cardinality(S) -> S] /\ IsInjective(f)
  BY <1>2 DEF Bijection, Injection
<1>4. SetToSeq(S) \in [1 .. Cardinality(S) -> S]
  BY <1>3 DEF SetToSeq
<1>5. SetToSeq(S) \in Seq(S)
  BY <1>1, <1>4, IsASeq
<1> QED
  BY <1>1, <1>5

\* The compensations of a request are movements.
LEMMA CompensationsType ==
    ASSUME NEW backing, IsFiniteSet(backing), backing \subseteq [id : Nat, move : Move]
    PROVE  Compensations(backing) \in Seq(Move)
<1> DEFINE rows == SetToSeq(backing)
<1>1. rows \in Seq(backing) /\ Len(rows) \in Nat
  BY SetToSeqType, LenProperties
<1>2. \A i \in 1 .. Len(rows) : rows[i] \in backing
  BY <1>1, ElementOfSeq
<1>3. \A i \in 1 .. Len(rows) : Compensation(rows[i].move) \in Move
  BY <1>2 DEF Compensation, Move
<1>4. [i \in 1 .. Len(rows) |-> Compensation(rows[i].move)] \in Seq(Move)
  BY <1>1, <1>3, IsASeq
<1> QED
  BY <1>4 DEF Compensations

\* The movement of a line has a type.
LEMMA MoveTypeType == \A kind \in AllKinds : MoveType(kind) \in MoveTypes
BY DEF AllKinds, MoveType, MoveTypes

\* A new movement is a row.
LEMMA NewMoveType ==
    ASSUME NEW type \in MoveTypes, NEW obj \in Objects, NEW qty \in Int
    PROVE  NewMove(type, obj, qty) \in Move
BY DEF NewMove, Move

\* A row is the movement of its fields.
LEMMA MoveIsNew == \A m \in Move : m = NewMove(m.type, m.obj, m.qty)
BY DEF Move, NewMove

\* A new line is a row.
LEMMA NewLineType ==
    ASSUME NEW o \in Orders, NEW obj \in Objects, NEW state \in LineStates,
           NEW qty \in Int, NEW m \in Nat
    PROVE  NewLine(o, obj, state, qty, m) \in Line
BY DEF NewLine, Line

\* A line that is updated is a row.
LEMMA LineExcept ==
    ASSUME NEW line \in Line
    PROVE  /\ \A state \in LineStates : [line EXCEPT !.state = state] \in Line
           /\ \A n \in Int : [line EXCEPT !.received = n] \in Line
           /\ \A m \in Nat : [line EXCEPT !.move = m] \in Line
BY DEF Line

\* There is an object.
LEMMA AnyObjectType == AnyObject \in Objects
BY OrdersAssumption DEF AnyObject

\* A request past its page has rows, quantities and an order of the right type.
LEMMA PostedType ==
    ASSUME RowsOK, NEW t \in Tabs, tabs[t].at = "posted"
    PROVE  tabs[t] \in Request
BY DEF RowsOK, Tab, Request

\* A tab that is done is at home.
LEMMA HomeType == RowsOK => \A t \in Tabs : Done(t) => tabs' \in [Tabs -> Tab]
BY DEF RowsOK, Done, Tab

-----------------------------------------------------------------------------

\* IInv holds at first.
LEMMA InvInit == Init => IInv
<1> SUFFICES ASSUME Init PROVE IInv
  OBVIOUS
<1>1. orders \in [Orders -> Row]
  BY OrdersAssumption DEF Init, Row, OrderStates
<1>2. RowsOK
  BY <1>1, EmptySeq DEF Init, RowsOK, Tab
<1>3. LinesOK
  BY DEF Init, LinesOK
<1>4. \A t \in Tabs : RequestOK(t)
  BY DEF Init, RequestOK
<1> QED
  BY <1>2, <1>3, <1>4 DEF IInv

\* The shape of every step but an edition: movements are only added; a line
\* that was there is as it was, or is settled, or (as every new line) has a
\* movement added by the step, which it shares with nobody.
Grows(ext) ==
    /\ ext \in Seq(Move)
    /\ moves' = moves \o ext
    /\ \A o \in Orders : orders'[o].kind = orders[o].kind
    /\ \A t \in Tabs : tabs'[t].at = "posted" => tabs'[t] = tabs[t]
    /\ DOMAIN lines \subseteq DOMAIN lines'
    /\ \A l \in DOMAIN lines' :
         \/ l \in DOMAIN lines /\ lines'[l] = lines[l]
         \/ /\ l \in DOMAIN lines
            /\ lines'[l].state # "pending" /\ lines'[l].move = lines[l].move
         \/ lines'[l].state # "pending" /\ lines'[l].move = 0
         \/ /\ l \in DOMAIN lines => lines'[l].state # "pending"
            /\ lines'[l].move \in Len(moves) + 1 .. Len(moves')
            /\ lines'[l].state = "pending" =>
                 moves'[lines'[l].move] =
                   NewMove(MoveType(orders'[lines'[l].order].kind), lines'[l].obj, lines'[l].ordered)
            /\ \A k \in DOMAIN lines' : k # l => lines'[k].move # lines'[l].move

\* Movements that are added, with lines that keep or take new ones, keep IInv.
LEMMA GrowsStep ==
    ASSUME IInv, RowsOK', NEW ext, Grows(ext)
    PROVE  IInv'
<1>1. /\ moves \in Seq(Move) /\ moves' \in Seq(Move) /\ lines \in Seq(Line) /\ lines' \in Seq(Line)
      /\ Len(moves) \in Nat /\ Len(moves') \in Nat /\ Len(moves) <= Len(moves')
      /\ \A i \in 1 .. Len(moves) : moves'[i] = moves[i]
  BY LenProperties, ConcatProperties DEF IInv, RowsOK, Grows
<1>2. \A l \in DOMAIN lines' : lines'[l] \in Line
  BY <1>1, ElementOfSeq, LenProperties
<1>3. \A l \in DOMAIN lines : lines[l] \in Line
  BY <1>1, ElementOfSeq, LenProperties
<1>4. \A l \in DOMAIN lines : lines[l].move \in 0 .. Len(moves)
  BY DEF IInv, LinesOK, LineOK
<1>5. ASSUME NEW l \in DOMAIN lines' PROVE LineOK(l)'
  <2>1. lines'[l].move \in 0 .. Len(moves')
    <3>1. \/ l \in DOMAIN lines /\ lines'[l].move = lines[l].move
          \/ lines'[l].move = 0
          \/ lines'[l].move \in Len(moves) + 1 .. Len(moves')
      BY DEF Grows
    <3> QED
      BY <1>1, <1>4, <3>1
  <2>2. lines'[l].state = "pending" =>
         /\ lines'[l].move # 0
         /\ moves'[lines'[l].move] =
              NewMove(MoveType(orders'[lines'[l].order].kind), lines'[l].obj, lines'[l].ordered)
    <3> SUFFICES ASSUME lines'[l].state = "pending" PROVE
         /\ lines'[l].move # 0
         /\ moves'[lines'[l].move] =
              NewMove(MoveType(orders'[lines'[l].order].kind), lines'[l].obj, lines'[l].ordered)
      OBVIOUS
    <3>1. CASE l \in DOMAIN lines /\ lines'[l] = lines[l]
      <4>1. /\ lines[l].move \in 1 .. Len(moves)
            /\ moves[lines[l].move] =
                 NewMove(MoveType(orders[lines[l].order].kind), lines[l].obj, lines[l].ordered)
        BY <1>1, <1>4, <3>1 DEF IInv, LinesOK, LineOK
      <4>2. orders'[lines[l].order].kind = orders[lines[l].order].kind
        BY <1>3, <3>1 DEF Grows, Line
      <4> QED
        BY <1>1, <3>1, <4>1, <4>2
    <3>2. CASE ~(l \in DOMAIN lines /\ lines'[l] = lines[l])
      BY <1>1, <3>2 DEF Grows
    <3> QED
      BY <3>1, <3>2
  <2>3. ASSUME NEW k \in DOMAIN lines', l # k, lines'[l].move # 0
        PROVE  lines'[l].move # lines'[k].move
    <3> DEFINE Old(j) == j \in DOMAIN lines /\ lines'[j].move = lines[j].move
               Fresh(j) == /\ lines'[j].move \in Len(moves) + 1 .. Len(moves')
                           /\ \A i \in DOMAIN lines' : i # j => lines'[i].move # lines'[j].move
    <3>1. \A j \in DOMAIN lines' : Old(j) \/ lines'[j].move = 0 \/ Fresh(j)
      BY DEF Grows
    <3>2. CASE Fresh(l) \/ Fresh(k)
      BY <2>3, <3>2
    <3>3. CASE Old(l) /\ Old(k)
      BY <2>3, <3>3 DEF IInv, LinesOK, LineOK
    <3> QED
      BY <2>3, <3>1, <3>2, <3>3
  <2> QED
    BY <2>1, <2>2, <2>3 DEF LineOK
<1>6. ASSUME NEW t \in Tabs PROVE RequestOK(t)'
  <2> SUFFICES ASSUME tabs'[t].at = "posted"
               PROVE  /\ IsFiniteSet(tabs'[t].backing)
                      /\ \A row \in tabs'[t].read : row.id \in DOMAIN lines'
                      /\ tabs'[t].op = "edit" =>
                           \A row \in tabs'[t].read, own \in tabs'[t].backing : EditOK(row, own)'
    BY DEF RequestOK
  <2>1. tabs'[t] = tabs[t] /\ RequestOK(t)
    BY DEF Grows, IInv
  <2>2. ASSUME NEW row \in tabs[t].read, NEW own \in tabs[t].backing, tabs[t].op = "edit"
        PROVE  EditOK(row, own)'
    <3>1. EditOK(row, own) /\ row.id \in DOMAIN lines /\ row.id \in DOMAIN lines'
      BY <2>1, <2>2 DEF RequestOK, Grows
    <3>2. own.id \in 1 .. Len(moves) /\ own.id \in 1 .. Len(moves')
      BY <1>1, <3>1 DEF EditOK
    <3>3. \A k \in DOMAIN lines' : k # row.id => lines'[k].move # own.id
      BY <1>1, <3>1, <3>2 DEF EditOK, Grows
    <3>4. lines'[row.id].state = "pending" =>
             /\ lines'[row.id].move = own.id
             /\ own.move.obj = row.line.obj
             /\ own.move.qty = row.line.ordered
      BY <3>1 DEF EditOK, Grows
    <3> QED
      BY <3>2, <3>3, <3>4 DEF EditOK
  <2> QED
    BY <2>1, <2>2 DEF RequestOK, Grows
<1> QED
  BY <1>5, <1>6 DEF IInv, LinesOK

-----------------------------------------------------------------------------
\* Steps that leave the lines and the movements alone and post nothing.
LEMMA QuietStep ==
    ASSUME IInv, RowsOK', UNCHANGED <<lines, moves>>,
           \A o \in Orders : orders'[o].kind = orders[o].kind,
           \A t \in Tabs : tabs'[t].at = "posted" => tabs'[t] = tabs[t]
    PROVE  IInv'
<1>1. Grows(<<>>)
  BY EmptySeq, ConcatEmptySeq DEF Grows, IInv, RowsOK
<1> QED
  BY <1>1, GrowsStep

\* Creating an order or opening a page keeps IInv.
LEMMA BrowseStep ==
    ASSUME IInv, NEW t \in Tabs, Browse(t)
    PROVE  IInv'
<1>1. ASSUME NEW o \in Orders, CreateOrder(t, o) PROVE IInv'
  <2>1. RowsOK'
    BY <1>1 DEF IInv, RowsOK, CreateOrder, Row, OrderStates
  <2>2. \A p \in Orders : orders'[p].kind = orders[p].kind
    BY <1>1 DEF IInv, RowsOK, CreateOrder, Row
  <2> QED
    BY <1>1, <2>1, <2>2, QuietStep DEF CreateOrder
<1>2. ASSUME NEW o \in Orders, OpenPage(t, o) PROVE IInv'
  <2>1. Len(lines) \in Nat
    BY LenProperties DEF IInv, RowsOK
  <2>2. tabs' \in [Tabs -> Tab]
    BY <1>2, <2>1 DEF IInv, RowsOK, OpenPage, Tab
  <2>3. RowsOK'
    BY <1>2, <2>2 DEF IInv, RowsOK, OpenPage, db
  <2>4. \A u \in Tabs : tabs'[u].at = "posted" => tabs'[u] = tabs[u]
    BY <1>2 DEF IInv, RowsOK, OpenPage
  <2> QED
    BY <1>2, <2>3, <2>4, QuietStep DEF OpenPage, db
<1>3. ASSUME ClosePage(t) PROVE IInv'
  <2>1. RowsOK'
    BY <1>3 DEF IInv, RowsOK, ClosePage, db, Tab
  <2>2. \A u \in Tabs : tabs'[u].at = "posted" => tabs'[u] = tabs[u]
    BY <1>3 DEF IInv, RowsOK, ClosePage
  <2> QED
    BY <1>3, <2>1, <2>2, QuietStep DEF ClosePage, db
<1> QED
  BY <1>1, <1>2, <1>3 DEF Browse

\* confirm_order, _check_order_completion, a failing commit and a dying worker
\* only touch the state of an order.
LEMMA StateStep ==
    ASSUME IInv, NEW t \in Tabs, CommitConfirm(t) \/ Close(t) \/ Fail(t) \/ Crash(t)
    PROVE  IInv'
<1>1. Done(t) /\ UNCHANGED <<lines, moves>>
  BY DEF CommitConfirm, Close, Fail, Crash, db
<1>2. \/ UNCHANGED orders
      \/ \E o \in Orders, state \in OrderStates : orders' = [orders EXCEPT ![o].state = state]
  <2>1. tabs[t].at \in {"posted", "closing"} => tabs[t].order \in Orders
    BY DEF IInv, RowsOK, Tab, Request
  <2> QED
    BY <2>1 DEF CommitConfirm, Committing, Close, Fail, Crash, db, OrderStates
<1>3. /\ orders' \in [Orders -> Row]
      /\ \A o \in Orders : orders'[o].kind = orders[o].kind
  BY <1>2 DEF IInv, RowsOK, Row
<1>4. RowsOK'
  BY <1>1, <1>3, HomeType DEF IInv, RowsOK
<1>5. \A u \in Tabs : tabs'[u].at = "posted" => tabs'[u] = tabs[u]
  BY <1>1 DEF IInv, RowsOK, Done
<1> QED
  BY <1>1, <1>3, <1>4, <1>5, QuietStep

-----------------------------------------------------------------------------
\* What a request reads: finitely many movements, and, for an edition, a line
\* and the movement that backs it.
LEMMA PostStep ==
    ASSUME IInv, NEW t \in Tabs, tabs[t].at = "page", NEW op \in Ops,
           NEW ids \in SUBSET DOMAIN lines, NEW obj \in Objects, NEW r \in Nat, NEW c \in Nat,
           Post(t, op, ids, obj, r, c),
           op = "edit" => \E l \in DOMAIN lines : ids = {l} /\ lines[l].move # 0
    PROVE  IInv'
<1> DEFINE mids == {lines[l].move : l \in ids} \ {0}
           read == {[id |-> l, line |-> lines[l]] : l \in ids}
           backing == {[id |-> m, move |-> moves[m]] : m \in mids}
           q == [at |-> "posted", order |-> tabs[t].order, op |-> op, read |-> read,
                 backing |-> backing, obj |-> obj, r |-> r, c |-> c]
<1>1. /\ lines \in Seq(Line) /\ moves \in Seq(Move)
      /\ Len(lines) \in Nat /\ Len(moves) \in Nat
      /\ DOMAIN lines = 1 .. Len(lines) /\ DOMAIN moves = 1 .. Len(moves)
      /\ \A l \in DOMAIN lines : lines[l] \in Line
      /\ \A m \in DOMAIN moves : moves[m] \in Move
  BY LenProperties, ElementOfSeq DEF IInv, RowsOK
<1>2. mids \subseteq 1 .. Len(moves)
  BY <1>1 DEF IInv, LinesOK, LineOK
<1>3. read \in SUBSET [id : Nat, line : Line]
  BY <1>1
<1>4. backing \in SUBSET [id : Nat, move : Move]
  BY <1>1, <1>2
<1>5. IsFiniteSet(backing)
  <2> DEFINE f == [m \in mids |-> [id |-> m, move |-> moves[m]]]
  <2>1. IsFiniteSet(mids)
    <3>1. 1 \in Int /\ Len(moves) \in Int
      BY <1>1
    <3>2. IsFiniteSet(1 .. Len(moves))
      BY <3>1, FS_Interval
    <3> HIDE DEF mids
    <3> QED
      BY <1>2, <3>2, FS_Subset
  <2>2. f \in Surjection(mids, backing)
    BY DEF Surjection
  <2> QED
    BY <2>1, <2>2, FS_Surjection
<1>6. tabs' = [tabs EXCEPT ![t] = q]
  BY DEF Post
<1>7. tabs[t].order \in Orders
  BY DEF IInv, RowsOK, Tab, Request
<1>8. q \in Request
  BY <1>3, <1>4, <1>7 DEF Request
<1> HIDE DEF q
<1>9. RowsOK'
  BY <1>6, <1>8 DEF IInv, RowsOK, Tab, Post, db
<1>10. LinesOK'
  BY DEF IInv, LinesOK, LineOK, Post, db
<1>11. ASSUME NEW u \in Tabs PROVE RequestOK(u)'
  <2>1. CASE u # t
    <3>1. tabs'[u] = tabs[u]
      BY <1>6, <2>1 DEF IInv, RowsOK
    <3> QED
      BY <3>1 DEF IInv, RequestOK, EditOK, Post, db
  <2>2. CASE u = t
    <3>1. tabs'[t] = q
      BY <1>6 DEF IInv, RowsOK
    <3>2. ASSUME op = "edit", NEW row \in read, NEW own \in backing
          PROVE  EditOK(row, own)
      <4>1. PICK l \in DOMAIN lines : ids = {l} /\ lines[l].move # 0
        BY <3>2
      <4>2. row.id = l /\ row.line = lines[l]
        BY <3>2, <4>1
      <4>3. own.id = lines[l].move /\ own.move = moves[lines[l].move]
        BY <3>2, <4>1
      <4>4. LineOK(l)
        BY DEF IInv, LinesOK
      <4>5. lines[l].state = "pending" =>
              own.move.obj = lines[l].obj /\ own.move.qty = lines[l].ordered
        BY <4>3, <4>4 DEF LineOK, NewMove
      <4>6. own.id \in 1 .. Len(moves)
        BY <1>1, <4>1, <4>3, <4>4 DEF LineOK
      <4>7. \A k \in DOMAIN lines : k # l => lines[k].move # own.id
        BY <4>1, <4>3, <4>4 DEF LineOK
      <4> QED
        BY <4>2, <4>3, <4>5, <4>6, <4>7 DEF EditOK
    <3>3. q.read = read /\ q.backing = backing /\ q.op = op
      BY DEF q
    <3>4. \A row \in read : row.id \in DOMAIN lines
      OBVIOUS
    <3> QED
      BY <2>2, <1>5, <3>1, <3>2, <3>3, <3>4 DEF RequestOK, EditOK, Post, db
  <2> QED
    BY <2>1, <2>2
<1> QED
  BY <1>9, <1>10, <1>11 DEF IInv

\* Posting a request keeps IInv.
LEMMA SubmitStep ==
    ASSUME IInv, NEW t \in Tabs, Submit(t)
    PROVE  IInv'
<1> USE AnyObjectType DEF Ops
<1>1. CASE PostConfirm(t)
  BY <1>1, PostStep DEF PostConfirm, Shows
<1>2. CASE PostCancel(t)
  <2>1. LinesOf(tabs[t].order) \subseteq DOMAIN lines
    BY DEF LinesOf
  <2> QED
    BY <1>2, <2>1, PostStep DEF PostCancel, Shows
<1>3. CASE PostReturn(t)
  <2>1. {l \in LinesOf(tabs[t].order) : lines[l].state = "pending" /\ lines[l].move # 0}
          \subseteq DOMAIN lines
    BY DEF LinesOf
  <2> QED
    BY <1>3, <2>1, PostStep DEF PostReturn, Shows
<1>4. ASSUME NEW obj \in Objects, NEW qty \in 1 .. MaxQty, PostCreate(t, obj, qty) PROVE IInv'
  <2>1. qty \in Nat
    BY OrdersAssumption
  <2> QED
    BY <1>4, <2>1, PostStep DEF PostCreate, Shows
<1>5. ASSUME NEW l \in DOMAIN lines, PostDelete(t, l) PROVE IInv'
  BY <1>5, PostStep DEF PostDelete, Shows
<1>6. ASSUME NEW l \in DOMAIN lines, NEW obj \in Objects, NEW qty \in 1 .. MaxQty,
             PostEdit(t, l, obj, qty)
      PROVE  IInv'
  <2>1. qty \in Nat
    BY OrdersAssumption
  <2> QED
    BY <1>6, <2>1, PostStep DEF PostEdit, Shows
<1>7. ASSUME NEW l \in DOMAIN lines, NEW r \in 0 .. MaxQty, NEW c \in 0 .. MaxQty,
             PostReceive(t, l, r, c)
      PROVE  IInv'
  <2>1. r \in Nat /\ c \in Nat
    BY OrdersAssumption
  <2> QED
    BY <1>7, <2>1, PostStep DEF PostReceive, Shows
<1> QED
  BY <1>1, <1>2, <1>3, <1>4, <1>5, <1>6, <1>7 DEF Submit
-----------------------------------------------------------------------------
\* A commit that ends at home and leaves the prefixes of the orders alone.
LEMMA SettlesStep ==
    ASSUME IInv, NEW t \in Tabs, tabs[t].at = "posted", Done(t),
           orders' = orders \/ \E state \in OrderStates :
                                 orders' = [orders EXCEPT ![tabs[t].order].state = state]
    PROVE  /\ orders' \in [Orders -> Row]
           /\ \A o \in Orders : orders'[o].kind = orders[o].kind
           /\ tabs' \in [Tabs -> Tab]
           /\ \A u \in Tabs : tabs'[u].at = "posted" => tabs'[u] = tabs[u]
<1>1. tabs[t].order \in Orders
  BY PostedType DEF IInv, Request
<1>2. orders' \in [Orders -> Row] /\ \A o \in Orders : orders'[o].kind = orders[o].kind
  BY <1>1 DEF IInv, RowsOK, Row
<1>3. tabs' \in [Tabs -> Tab]
  BY HomeType DEF IInv
<1>4. \A u \in Tabs : tabs'[u].at = "posted" => tabs'[u] = tabs[u]
  BY DEF IInv, RowsOK, Done
<1> QED
  BY <1>2, <1>3, <1>4

\* The movements a request read can be compensated.
LEMMA RequestCompensations ==
    ASSUME IInv, NEW t \in Tabs, tabs[t].at = "posted"
    PROVE  Compensations(tabs[t].backing) \in Seq(Move)
<1>1. tabs[t].backing \subseteq [id : Nat, move : Move]
  BY PostedType DEF IInv, Request
<1>2. IsFiniteSet(tabs[t].backing)
  BY DEF IInv, RequestOK
<1> QED
  BY <1>1, <1>2, CompensationsType

\* Lines that are removed stay rows, and the others stay as they are.
LEMMA RemovedType ==
    ASSUME RowsOK, NEW rows
    PROVE  /\ Removed(rows) \in Seq(Line)
           /\ DOMAIN Removed(rows) = DOMAIN lines
           /\ \A l \in DOMAIN lines :
                \/ Removed(rows)[l] = lines[l]
                \/ Removed(rows)[l].state = "deleted" /\ Removed(rows)[l].move = 0
<1>1. /\ Len(lines) \in Nat /\ DOMAIN lines = 1 .. Len(lines)
      /\ \A l \in DOMAIN lines : lines[l] \in Line
  BY LenProperties, ElementOfSeq DEF RowsOK
<1>2. \A l \in DOMAIN lines :
        [lines[l] EXCEPT !.state = "deleted", !.move = 0] \in Line
  BY <1>1 DEF Line, LineStates
<1> DEFINE New(l) == IF l \in Ids(rows) THEN [lines[l] EXCEPT !.state = "deleted", !.move = 0]
                                       ELSE lines[l]
<1>3. \A l \in 1 .. Len(lines) : New(l) \in Line
  BY <1>1, <1>2
<1>4. Removed(rows) \in Seq(Line)
  <2>1. Removed(rows) = [l \in 1 .. Len(lines) |-> New(l)]
    BY <1>1 DEF Removed
  <2> HIDE DEF New
  <2> QED
    BY <1>1, <1>3, <2>1, IsASeq
<1>5. \A l \in DOMAIN lines :
        \/ Removed(rows)[l] = lines[l]
        \/ Removed(rows)[l].state = "deleted" /\ Removed(rows)[l].move = 0
  BY <1>1 DEF Removed, Line
<1> QED
  BY <1>4, <1>5 DEF Removed

\* A deletion or a cancellation keeps IInv.
LEMMA CommitRemovalStep ==
    ASSUME IInv, NEW t \in Tabs, CommitDelete(t) \/ CommitCancel(t)
    PROVE  IInv'
<1> DEFINE comp == Compensations(tabs[t].backing)
<1>1. /\ tabs[t].at = "posted" /\ Done(t)
      /\ moves' = moves \o comp
      /\ lines' = Removed(tabs[t].read)
      /\ \/ orders' = orders
         \/ orders' = [orders EXCEPT ![tabs[t].order].state = "deleted"]
  BY DEF CommitDelete, CommitCancel, Committing
<1>2. comp \in Seq(Move)
  BY <1>1, RequestCompensations
<1> HIDE DEF comp
<1>3. /\ orders' \in [Orders -> Row]
      /\ \A o \in Orders : orders'[o].kind = orders[o].kind
      /\ tabs' \in [Tabs -> Tab]
      /\ \A u \in Tabs : tabs'[u].at = "posted" => tabs'[u] = tabs[u]
  BY <1>1, SettlesStep DEF OrderStates
<1>4. /\ lines' \in Seq(Line) /\ DOMAIN lines' = DOMAIN lines
      /\ \A l \in DOMAIN lines :
           lines'[l] = lines[l] \/ (lines'[l].state = "deleted" /\ lines'[l].move = 0)
  BY <1>1, RemovedType DEF IInv
<1>5. moves' \in Seq(Move)
  BY <1>1, <1>2, ConcatProperties DEF IInv, RowsOK
<1>6. RowsOK'
  BY <1>3, <1>4, <1>5 DEF RowsOK
<1>7. Grows(comp)
  BY <1>1, <1>2, <1>3, <1>4 DEF Grows
<1> QED
  BY <1>6, <1>7, GrowsStep

\* The return of a reservation keeps IInv.
LEMMA CommitReturnStep ==
    ASSUME IInv, NEW t \in Tabs, CommitReturn(t)
    PROVE  IInv'
<1> DEFINE comp == Compensations(tabs[t].backing)
           New(l) == IF \E row \in tabs[t].read : row.id = l
                       THEN [lines[l] EXCEPT !.state = "received",
                               !.received = (CHOOSE row \in tabs[t].read : row.id = l).line.ordered]
                       ELSE lines[l]
<1>1. /\ tabs[t].at = "posted" /\ Done(t)
      /\ moves' = moves \o comp
      /\ lines' = [l \in DOMAIN lines |-> New(l)]
      /\ orders' = [orders EXCEPT ![tabs[t].order].state = "received"]
  BY DEF CommitReturn, Committing
<1>2. comp \in Seq(Move)
  BY <1>1, RequestCompensations
<1> HIDE DEF comp
<1>3. /\ orders' \in [Orders -> Row]
      /\ \A o \in Orders : orders'[o].kind = orders[o].kind
      /\ tabs' \in [Tabs -> Tab]
      /\ \A u \in Tabs : tabs'[u].at = "posted" => tabs'[u] = tabs[u]
  BY <1>1, SettlesStep DEF OrderStates
<1>4. /\ Len(lines) \in Nat /\ DOMAIN lines = 1 .. Len(lines)
      /\ \A l \in DOMAIN lines : lines[l] \in Line
  BY LenProperties, ElementOfSeq DEF IInv, RowsOK
<1>5. \A row \in tabs[t].read : row.line.ordered \in Int
  BY <1>1, PostedType DEF IInv, Request, Line
<1>6. ASSUME NEW l \in DOMAIN lines
      PROVE  /\ New(l) \in Line
             /\ \/ New(l) = lines[l]
                \/ New(l).state = "received" /\ New(l).move = lines[l].move
  <2>1. CASE \E row \in tabs[t].read : row.id = l
    <3>1. (CHOOSE row \in tabs[t].read : row.id = l).line.ordered \in Int
      BY <1>5, <2>1
    <3> QED
      BY <1>4, <2>1, <3>1 DEF Line, LineStates
  <2>2. CASE ~\E row \in tabs[t].read : row.id = l
    BY <1>4, <2>2
  <2> QED
    BY <2>1, <2>2
<1> HIDE DEF New
<1>7. lines' \in Seq(Line)
  BY <1>1, <1>4, <1>6, IsASeq
<1>8. moves' \in Seq(Move)
  BY <1>1, <1>2, ConcatProperties DEF IInv, RowsOK
<1>9. RowsOK'
  BY <1>3, <1>7, <1>8 DEF RowsOK
<1>10. Grows(comp)
  BY <1>1, <1>2, <1>3, <1>6 DEF Grows
<1> QED
  BY <1>9, <1>10, GrowsStep

\* A new line, with its movement, keeps IInv.
LEMMA CommitCreateStep ==
    ASSUME IInv, NEW t \in Tabs, CommitCreate(t)
    PROVE  IInv'
<1> DEFINE q == tabs[t]
           kind == orders[q.order].kind
           m == NewMove(MoveType(kind), q.obj, q.r)
           n == NewLine(q.order, q.obj, "pending", q.r, Len(moves) + 1)
<1>1. /\ tabs[t].at = "posted" /\ Done(t) /\ orders' = orders
      /\ moves' = Append(moves, m)
      /\ lines' = Append(lines, n)
  BY DEF CommitCreate, Committing
<1>2. /\ lines \in Seq(Line) /\ moves \in Seq(Move)
      /\ Len(lines) \in Nat /\ Len(moves) \in Nat
      /\ DOMAIN lines = 1 .. Len(lines)
      /\ \A l \in DOMAIN lines : lines[l] \in Line
  BY LenProperties, ElementOfSeq DEF IInv, RowsOK
<1>3. q.order \in Orders /\ q.obj \in Objects /\ q.r \in Int
  BY <1>1, PostedType DEF IInv, Request
<1>4. MoveType(kind) \in MoveTypes
  BY <1>3, MoveTypeType DEF IInv, RowsOK, Row
<1>5. m \in Move /\ n \in Line
  <2>1. Len(moves) + 1 \in Nat /\ "pending" \in LineStates
    BY <1>2 DEF LineStates
  <2> QED
    BY <1>3, <1>4, <2>1, NewMoveType, NewLineType
<1>6. /\ n.state = "pending" /\ n.move = Len(moves) + 1
      /\ m = NewMove(MoveType(orders'[n.order].kind), n.obj, n.ordered)
  BY <1>1 DEF NewLine
<1> HIDE DEF m, n
<1>7. /\ lines' \in Seq(Line) /\ moves' \in Seq(Move)
      /\ Len(lines') = Len(lines) + 1 /\ Len(moves') = Len(moves) + 1
      /\ DOMAIN lines' = 1 .. Len(lines')
      /\ \A l \in 1 .. Len(lines) : lines'[l] = lines[l]
      /\ lines'[Len(lines) + 1] = n /\ moves'[Len(moves) + 1] = m
  BY <1>1, <1>2, <1>5, AppendProperties, LenProperties
<1>8. moves' = moves \o <<m>> /\ <<m>> \in Seq(Move)
  BY <1>1, <1>2, <1>5, AppendIsConcat
<1>9. /\ orders' \in [Orders -> Row]
      /\ tabs' \in [Tabs -> Tab]
      /\ \A u \in Tabs : tabs'[u].at = "posted" => tabs'[u] = tabs[u]
  BY <1>1, SettlesStep
<1>10. RowsOK'
  BY <1>7, <1>9 DEF RowsOK
<1>11. \A l \in DOMAIN lines : lines[l].move \in 0 .. Len(moves)
  BY DEF IInv, LinesOK, LineOK
<1>12. ASSUME NEW l \in DOMAIN lines', l \notin DOMAIN lines
       PROVE  /\ l = Len(lines) + 1 /\ lines'[l] = n
              /\ \A k \in DOMAIN lines' : k # l => lines'[k].move # lines'[l].move
  <2>1. l = Len(lines) + 1
    BY <1>2, <1>7, <1>12
  <2>2. \A k \in DOMAIN lines' : k # l => k \in DOMAIN lines /\ lines'[k] = lines[k]
    BY <1>2, <1>7, <2>1
  <2> QED
    BY <1>2, <1>6, <1>7, <1>11, <2>1, <2>2
<1>13. n.move \in Len(moves) + 1 .. Len(moves') /\ moves'[n.move] = m
  BY <1>2, <1>6, <1>7
<1>14. Grows(<<m>>)
  BY <1>1, <1>2, <1>6, <1>7, <1>8, <1>9, <1>12, <1>13 DEF Grows
<1> QED
  BY <1>10, <1>14, GrowsStep
-----------------------------------------------------------------------------
\* An edition keeps line and movement alike: it writes what it was asked, or
\* leaves what it did not see changed, in both.
LEMMA CommitEditStep ==
    ASSUME IInv, NEW t \in Tabs, CommitEdit(t)
    PROVE  IInv'
<1> DEFINE q == tabs[t]
<1>1. q.at = "posted" /\ q.op = "edit" /\ Done(t) /\ orders' = orders
  BY DEF CommitEdit, Committing
<1>2. /\ lines \in Seq(Line) /\ moves \in Seq(Move)
      /\ Len(lines) \in Nat /\ Len(moves) \in Nat
      /\ DOMAIN lines = 1 .. Len(lines) /\ DOMAIN moves = 1 .. Len(moves)
      /\ \A l \in DOMAIN lines : lines[l] \in Line
      /\ \A m \in DOMAIN moves : moves[m] \in Move
  BY LenProperties, ElementOfSeq DEF IInv, RowsOK
<1>3. PICK row \in q.read, own \in q.backing :
        /\ lines' = [lines EXCEPT ![row.id].obj = Changed(row.line.obj, q.obj, @),
                                  ![row.id].ordered = Changed(row.line.ordered, q.r, @)]
        /\ moves' = [moves EXCEPT ![own.id].obj = Changed(own.move.obj, q.obj, @),
                                  ![own.id].qty = Changed(own.move.qty, q.r, @)]
  BY DEF CommitEdit
<1>4. q.obj \in Objects /\ q.r \in Int
  BY <1>1, PostedType DEF IInv, Request
<1>5. EditOK(row, own) /\ row.id \in DOMAIN lines
  BY <1>1, <1>3 DEF IInv, RequestOK
<1>6. own.id \in DOMAIN moves
  BY <1>2, <1>5 DEF EditOK
<1> DEFINE line == [lines[row.id] EXCEPT
                      !.obj = Changed(row.line.obj, q.obj, lines[row.id].obj),
                      !.ordered = Changed(row.line.ordered, q.r, lines[row.id].ordered)]
           move == [moves[own.id] EXCEPT
                      !.obj = Changed(own.move.obj, q.obj, moves[own.id].obj),
                      !.qty = Changed(own.move.qty, q.r, moves[own.id].qty)]
<1>7. lines' = [lines EXCEPT ![row.id] = line] /\ moves' = [moves EXCEPT ![own.id] = move]
  <2>1. lines' = [lines EXCEPT ![row.id] = line]
    BY <1>2, <1>3, <1>5 DEF Line
  <2>2. moves' = [moves EXCEPT ![own.id] = move]
    BY <1>2, <1>3, <1>6 DEF Move
  <2> QED
    BY <2>1, <2>2
<1>8. line \in Line /\ move \in Move
  <2>1. line \in Line
    BY <1>2, <1>4, <1>5 DEF Line, Changed
  <2>2. move \in Move
    BY <1>2, <1>4, <1>6 DEF Move, Changed
  <2> QED
    BY <2>1, <2>2
<1>9. line.state = lines[row.id].state /\ line.move = lines[row.id].move
      /\ line.order = lines[row.id].order
  BY <1>2, <1>5 DEF Line
<1>10. line.state = "pending" =>
         move = NewMove(MoveType(orders[line.order].kind), line.obj, line.ordered)
  <2> SUFFICES ASSUME lines[row.id].state = "pending"
               PROVE  move = NewMove(MoveType(orders[line.order].kind), line.obj, line.ordered)
    BY <1>9
  <2>1. /\ own.id = lines[row.id].move
        /\ own.move.obj = row.line.obj /\ own.move.qty = row.line.ordered
    BY <1>5 DEF EditOK
  <2>2. moves[own.id] = NewMove(MoveType(orders[line.order].kind),
                                lines[row.id].obj, lines[row.id].ordered)
    BY <1>5, <1>9, <2>1 DEF IInv, LinesOK, LineOK
  <2>3. /\ line.obj = Changed(own.move.obj, q.obj, moves[own.id].obj)
        /\ line.ordered = Changed(own.move.qty, q.r, moves[own.id].qty)
    BY <1>2, <1>5, <2>1, <2>2 DEF Line, NewMove
  <2>4. /\ move.type = MoveType(orders[line.order].kind)
        /\ move.obj = Changed(own.move.obj, q.obj, moves[own.id].obj)
        /\ move.qty = Changed(own.move.qty, q.r, moves[own.id].qty)
    <3>1. /\ move.type = moves[own.id].type
          /\ move.obj = Changed(own.move.obj, q.obj, moves[own.id].obj)
          /\ move.qty = Changed(own.move.qty, q.r, moves[own.id].qty)
      BY <1>2, <1>6 DEF Move
    <3>2. moves[own.id].type = MoveType(orders[line.order].kind)
      BY <2>2 DEF NewMove
    <3> QED
      BY <3>1, <3>2
  <2> HIDE DEF line, move
  <2> QED
    BY <1>8, <2>3, <2>4, MoveIsNew
<1> HIDE DEF line, move
<1>11. /\ lines' \in Seq(Line) /\ moves' \in Seq(Move)
       /\ DOMAIN lines' = DOMAIN lines /\ Len(moves') = Len(moves)
       /\ lines'[row.id] = line /\ moves'[own.id] = move
       /\ \A l \in DOMAIN lines : l # row.id => lines'[l] = lines[l]
       /\ \A m \in DOMAIN moves : m # own.id => moves'[m] = moves[m]
  <2>1. lines' \in Seq(Line) /\ moves' \in Seq(Move) /\ Len(moves') = Len(moves)
    BY <1>2, <1>5, <1>6, <1>7, <1>8, ExceptSeq
  <2> QED
    BY <1>2, <1>5, <1>6, <1>7, <2>1
<1>12. \A l \in DOMAIN lines : /\ lines'[l].state = lines[l].state
                               /\ lines'[l].move = lines[l].move
                               /\ lines'[l].order = lines[l].order
  BY <1>9, <1>11
<1>13. ASSUME NEW l \in DOMAIN lines' PROVE LineOK(l)'
  <2>1. LineOK(l) /\ l \in DOMAIN lines
    BY <1>11, <1>13 DEF IInv, LinesOK
  <2>2. lines'[l].move \in 0 .. Len(moves')
    BY <1>11, <1>12, <2>1 DEF LineOK
  <2>3. \A k \in DOMAIN lines' : l # k /\ lines'[l].move # 0 => lines'[l].move # lines'[k].move
    BY <1>11, <1>12, <2>1 DEF LineOK
  <2>4. ASSUME lines'[l].state = "pending"
        PROVE  /\ lines'[l].move # 0
               /\ moves'[lines'[l].move] =
                    NewMove(MoveType(orders'[lines'[l].order].kind), lines'[l].obj, lines'[l].ordered)
    <3>1. CASE l = row.id
      <4>1. lines[l].move = own.id
        BY <1>5, <1>12, <2>1, <2>4, <3>1 DEF EditOK
      <4> QED
        BY <1>1, <1>10, <1>11, <1>12, <2>1, <2>4, <3>1, <4>1 DEF LineOK
    <3>2. CASE l # row.id
      <4>1. lines[l].move \in DOMAIN moves /\ lines[l].move # own.id
        BY <1>2, <1>5, <1>12, <2>1, <2>4, <3>2 DEF EditOK, LineOK
      <4> QED
        BY <1>1, <1>11, <1>12, <2>1, <2>4, <3>2, <4>1 DEF LineOK
    <3> QED
      BY <3>1, <3>2
  <2> QED
    BY <2>2, <2>3, <2>4 DEF LineOK
<1>14. /\ tabs' \in [Tabs -> Tab]
       /\ \A u \in Tabs : tabs'[u].at = "posted" => tabs'[u] = tabs[u]
  BY <1>1, SettlesStep
<1>15. RowsOK'
  BY <1>1, <1>11, <1>14 DEF IInv, RowsOK
<1>16. ASSUME NEW u \in Tabs, tabs'[u].at = "posted"
       PROVE  RequestOK(u)'
  <2>1. tabs'[u] = tabs[u] /\ RequestOK(u)
    BY <1>14, <1>16 DEF IInv
  <2>2. ASSUME NEW read \in tabs[u].read, NEW back \in tabs[u].backing, tabs[u].op = "edit"
        PROVE  EditOK(read, back)'
    <3>1. EditOK(read, back) /\ read.id \in DOMAIN lines
      BY <1>16, <2>1, <2>2 DEF RequestOK
    <3> QED
      BY <1>11, <1>12, <3>1 DEF EditOK
  <2> QED
    BY <1>11, <1>16, <2>1, <2>2 DEF RequestOK
<1> QED
  BY <1>13, <1>15, <1>16 DEF IInv, LinesOK, RequestOK
-----------------------------------------------------------------------------
\* The elements of three sequences put end to end.
LEMMA Concat3 ==
    ASSUME NEW S, NEW s \in Seq(S), NEW u \in Seq(S), NEW v \in Seq(S),
           NEW w, w = s \o u \o v
    PROVE  /\ Len(s) \in Nat /\ Len(u) \in Nat /\ Len(v) \in Nat
           /\ w \in Seq(S)
           /\ Len(w) = Len(s) + Len(u) + Len(v)
           /\ \A i \in 1 .. Len(s) : w[i] = s[i]
           /\ \A i \in 1 .. Len(u) : w[Len(s) + i] = u[i]
           /\ \A i \in 1 .. Len(v) : w[Len(s) + Len(u) + i] = v[i]
           /\ u \o v \in Seq(S) /\ w = s \o (u \o v)
<1>1. Len(s) \in Nat /\ Len(u) \in Nat /\ Len(v) \in Nat
  BY LenProperties
<1>2. /\ s \o u \in Seq(S) /\ Len(s \o u) = Len(s) + Len(u)
      /\ \A i \in 1 .. Len(s) + Len(u) :
           (s \o u)[i] = IF i <= Len(s) THEN s[i] ELSE u[i - Len(s)]
  BY ConcatProperties
<1> DEFINE su == s \o u
<1>3. su \in Seq(S)
  BY <1>2
<1> HIDE DEF su
<1>4. /\ su \o v \in Seq(S) /\ Len(su \o v) = Len(su) + Len(v)
      /\ \A i \in 1 .. Len(su) + Len(v) :
           (su \o v)[i] = IF i <= Len(su) THEN su[i] ELSE v[i - Len(su)]
  BY <1>3, ConcatProperties
<1>5. \A i \in 1 .. Len(s) : (su \o v)[i] = s[i]
  BY <1>1, <1>2, <1>4 DEF su
<1>6. \A i \in 1 .. Len(u) : (su \o v)[Len(s) + i] = u[i]
  BY <1>1, <1>2, <1>4 DEF su
<1>7. \A i \in 1 .. Len(v) : (su \o v)[Len(s) + Len(u) + i] = v[i]
  BY <1>1, <1>2, <1>4 DEF su
<1>8. u \o v \in Seq(S)
  BY ConcatProperties
<1>9. s \o u \o v = s \o (u \o v)
  BY ConcatAssociative
<1> QED
  BY <1>1, <1>2, <1>4, <1>5, <1>6, <1>7, <1>8, <1>9 DEF su

CountOfReceipt(kind, r, c, rem) ==
    (IF r > 0 THEN 1 ELSE 0) + (IF c > 0 /\ kind = "RET" THEN 1 ELSE 0) + (IF rem > 0 THEN 1 ELSE 0)

\* A reception adds up to three movements: received, cancelled, left to come.
LEMMA ReceiptType ==
    ASSUME NEW kind \in AllKinds, NEW obj \in Objects, NEW r \in Nat, NEW c \in Nat, NEW rem \in Int,
           NEW ms, ms = MovesOfReceipt(kind, obj, r, c, rem)
    PROVE  /\ ms \in Seq(Move)
           /\ Len(ms) = CountOfReceipt(kind, r, c, rem)
           /\ rem > 0 => ms[Len(ms)] = NewMove(MoveType(kind), obj, rem)
<1> DEFINE r1 == NewMove(IF kind = "RET" THEN "out" ELSE "in", obj, r)
           c1 == NewMove("in", obj, c)
           p1 == NewMove(MoveType(kind), obj, rem)
           rs == IF r > 0 THEN <<r1>> ELSE <<>>
           cs == IF c > 0 /\ kind = "RET" THEN <<c1>> ELSE <<>>
           ps == IF rem > 0 THEN <<p1>> ELSE <<>>
<1>1. r1 \in Move /\ c1 \in Move /\ p1 \in Move
  <2>1. MoveType(kind) \in MoveTypes /\ "in" \in MoveTypes /\ "out" \in MoveTypes
    BY MoveTypeType DEF MoveTypes
  <2>2. p1 \in Move /\ c1 \in Move
    BY <2>1, NewMoveType
  <2>3. r1 \in Move
    BY <2>1, NewMoveType
  <2> QED
    BY <2>2, <2>3
<1>2. ms = rs \o cs \o ps
  BY DEF MovesOfReceipt
<1>3. (rem > 0) => ps = <<p1>>
  OBVIOUS
<1> HIDE DEF r1, c1
<1>4. /\ rs \in Seq(Move) /\ Len(rs) = IF r > 0 THEN 1 ELSE 0
  BY <1>1
<1>5. /\ cs \in Seq(Move) /\ Len(cs) = IF c > 0 /\ kind = "RET" THEN 1 ELSE 0
  BY <1>1
<1> HIDE DEF p1
<1>6. /\ ps \in Seq(Move) /\ Len(ps) = IF rem > 0 THEN 1 ELSE 0
      /\ rem > 0 => ps[1] = p1
  BY <1>1
<1> HIDE DEF rs, cs, ps
<1>7. /\ ms \in Seq(Move) /\ Len(ms) = Len(rs) + Len(cs) + Len(ps)
      /\ Len(rs) \in Nat /\ Len(cs) \in Nat
      /\ \A i \in 1 .. Len(ps) : ms[Len(rs) + Len(cs) + i] = ps[i]
  <2>1. rs \in Seq(Move) /\ cs \in Seq(Move) /\ ps \in Seq(Move)
    BY <1>4, <1>5, <1>6
  <2> QED
    BY <1>2, <2>1, Concat3
<1>8. ASSUME rem > 0 PROVE ms[Len(ms)] = p1
  <2>1. Len(ps) = 1 /\ 1 \in 1 .. Len(ps) /\ ps[1] = p1
    BY <1>6, <1>8
  <2> QED
    BY <1>7, <2>1
<1>9. Len(ms) = CountOfReceipt(kind, r, c, rem)
  BY <1>4, <1>5, <1>6, <1>7 DEF CountOfReceipt
<1> QED
  BY <1>7, <1>8, <1>9 DEF p1

\* The row of the line that was received.
LEMMA ReceivedLineType ==
    ASSUME NEW now \in Line, NEW r \in Nat, NEW c \in Nat, NEW rem \in Int, NEW m \in Nat,
           NEW got, got = ReceivedLine(now, r, c, rem, m)
    PROVE  /\ got \in Line
           /\ \/ got = now
              \/ got.state # "pending" /\ got.move = 0
              \/ got.state # "pending" /\ got.move = m /\ r > 0
<1>1. CASE r > 0
  <2>1. got = [now EXCEPT !.state = "received", !.received = r, !.move = m]
    BY <1>1 DEF ReceivedLine
  <2>2. got \in Line
    <3>1. [now EXCEPT !.state = "received", !.received = r, !.move = m] \in Line
      <4> DEFINE a == [now EXCEPT !.state = "received"]
                 b == [a EXCEPT !.received = r]
      <4>1. a \in Line
        BY LineExcept DEF LineStates
      <4> HIDE DEF a
      <4>2. b \in Line
        BY <4>1, LineExcept
      <4> HIDE DEF b
      <4>3. [b EXCEPT !.move = m] \in Line
        BY <4>2, LineExcept
      <4> QED
        BY <4>3 DEF a, b
    <3> QED
      BY <2>1, <3>1
  <2>3. got.state = "received" /\ got.move = m
    BY <2>1 DEF Line
  <2> QED
    BY <1>1, <2>2, <2>3
<1>2. CASE r = 0 /\ rem = 0
  <2>1. got = [now EXCEPT !.state = "cancelled", !.move = 0]
    BY <1>2 DEF ReceivedLine
  <2>2. got \in Line
    <3>1. [now EXCEPT !.state = "cancelled", !.move = 0] \in Line
      BY DEF Line, LineStates
    <3> QED
      BY <2>1, <3>1
  <2>3. got.state = "cancelled" /\ got.move = 0
    BY <2>1 DEF Line
  <2> QED
    BY <2>2, <2>3
<1>3. CASE ~(r > 0) /\ ~(r = 0 /\ rem = 0)
  BY <1>3 DEF ReceivedLine
<1> QED
  BY <1>1, <1>2, <1>3

\* The rows after a reception: the received one, then the new ones.
LEMMA CommitReceiveStep ==
    ASSUME IInv, NEW t \in Tabs, CommitReceive(t)
    PROVE  IInv'
<1> DEFINE q == tabs[t]
           kind == orders[q.order].kind
           comp == Compensations(q.backing)
<1>1. /\ q.at = "posted" /\ orders' = orders
      /\ tabs' = [tabs EXCEPT ![t] = [at |-> "closing", order |-> q.order]]
  BY DEF CommitReceive, Committing
<1>2. /\ lines \in Seq(Line) /\ moves \in Seq(Move)
      /\ Len(lines) \in Nat /\ Len(moves) \in Nat
      /\ DOMAIN lines = 1 .. Len(lines)
      /\ \A l \in DOMAIN lines : lines[l] \in Line
      /\ \A l \in DOMAIN lines : lines[l].move \in 0 .. Len(moves)
  BY LenProperties, ElementOfSeq DEF IInv, RowsOK, LinesOK, LineOK
<1>3. comp \in Seq(Move) /\ Len(comp) \in Nat
  BY <1>1, RequestCompensations, LenProperties
<1> HIDE DEF comp
<1>4. q.order \in Orders /\ q.r \in Nat /\ q.c \in Nat /\ kind \in AllKinds
  BY <1>1, PostedType DEF IInv, RowsOK, Request, Row
<1> DEFINE m == Len(moves) + Len(comp) + 1
           mc == IF q.r > 0 THEN m + 1 ELSE m
           mp == IF kind = "RET" /\ q.c > 0 THEN mc + 1 ELSE mc
<1>5. PICK row \in q.read :
        LET rem == row.line.ordered - q.r - q.c IN
        /\ moves' = moves \o comp \o MovesOfReceipt(kind, row.line.obj, q.r, q.c, rem)
        /\ lines' = [lines EXCEPT ![row.id] = ReceivedLine(lines[row.id], q.r, q.c, rem, m)]
             \o (IF q.c > 0
                   THEN <<NewLine(q.order, row.line.obj, "cancelled", q.c,
                                  IF kind = "RET" THEN mc ELSE 0)>>
                   ELSE <<>>)
             \o (IF rem > 0
                   THEN <<NewLine(q.order, row.line.obj, "pending", rem, mp)>>
                   ELSE <<>>)
  BY DEF CommitReceive, comp
<1> DEFINE rem == row.line.ordered - q.r - q.c
           ms == MovesOfReceipt(kind, row.line.obj, q.r, q.c, rem)
           got == ReceivedLine(lines[row.id], q.r, q.c, rem, m)
           lc == NewLine(q.order, row.line.obj, "cancelled", q.c, IF kind = "RET" THEN mc ELSE 0)
           lp == NewLine(q.order, row.line.obj, "pending", rem, mp)
           old == [lines EXCEPT ![row.id] = got]
           cs == IF q.c > 0 THEN <<lc>> ELSE <<>>
           ps == IF rem > 0 THEN <<lp>> ELSE <<>>
<1>6. moves' = moves \o comp \o ms /\ lines' = old \o cs \o ps
  BY <1>5
<1>7. /\ row.id \in DOMAIN lines
      /\ row.line \in Line /\ row.line.obj \in Objects /\ rem \in Int
  <2>1. row.id \in DOMAIN lines
    BY <1>1 DEF IInv, RequestOK
  <2>2. row.line \in Line
    BY <1>1, PostedType DEF IInv, Request
  <2> QED
    BY <1>4, <2>1, <2>2 DEF Line
<1> HIDE DEF rem
<1>8. /\ ms \in Seq(Move)
      /\ Len(ms) = CountOfReceipt(kind, q.r, q.c, rem)
      /\ rem > 0 => ms[Len(ms)] = NewMove(MoveType(kind), row.line.obj, rem)
  <2>1. row.line.obj \in Objects /\ rem \in Int
    BY <1>7
  <2>2. ms = MovesOfReceipt(kind, row.line.obj, q.r, q.c, rem)
    OBVIOUS
  <2> HIDE DEF ms
  <2> QED
    <3>1. \A k \in AllKinds, o \in Objects, r \in Nat, c \in Nat, z \in Int :
            LET w == MovesOfReceipt(k, o, r, c, z)
            IN  /\ w \in Seq(Move) /\ Len(w) = CountOfReceipt(k, r, c, z)
                /\ z > 0 => w[Len(w)] = NewMove(MoveType(k), o, z)
      BY ReceiptType
    <3>2. q.r \in Nat /\ q.c \in Nat /\ kind \in AllKinds
      BY <1>4
    <3> HIDE DEF q, kind
    <3> QED
      BY <2>1, <2>2, <3>1, <3>2
<1> HIDE DEF ms
<1>9. /\ moves' \in Seq(Move)
      /\ moves' = moves \o (comp \o ms) /\ comp \o ms \in Seq(Move)
      /\ Len(moves') = Len(moves) + Len(comp) + Len(ms)
      /\ rem > 0 => moves'[Len(moves')] = ms[Len(ms)]
  <2>1. /\ moves' \in Seq(Move) /\ comp \o ms \in Seq(Move)
        /\ moves' = moves \o (comp \o ms)
        /\ Len(moves') = Len(moves) + Len(comp) + Len(ms)
        /\ \A i \in 1 .. Len(ms) : moves'[Len(moves) + Len(comp) + i] = ms[i]
    <3>1. /\ moves \in Seq(Move) /\ comp \in Seq(Move) /\ ms \in Seq(Move)
          /\ moves' = moves \o comp \o ms
      BY <1>2, <1>3, <1>8, <1>6
    <3> QED
      BY <3>1, Concat3
  <2>2. ASSUME rem > 0 PROVE moves'[Len(moves')] = ms[Len(ms)]
    <3>1. Len(ms) \in Nat /\ Len(ms) >= 1
      BY <1>4, <1>7, <1>8, <2>2 DEF CountOfReceipt
    <3> QED
      BY <2>1, <3>1
  <2> QED
    BY <2>1, <2>2
\* The movements m, mc and mp are among those the step adds.
<1>10. /\ m \in Nat /\ mc \in Nat /\ mp \in Nat
       /\ q.r > 0 => m \in Len(moves) + 1 .. Len(moves')
       /\ q.c > 0 /\ kind = "RET" => mc \in Len(moves) + 1 .. Len(moves')
       /\ rem > 0 => mp \in Len(moves) + 1 .. Len(moves') /\ mp = Len(moves')
       /\ q.r > 0 => m # mc /\ m # mp
       /\ q.c > 0 /\ kind = "RET" => mc # mp
  <2>1. m \in Nat /\ mc \in Nat /\ mp \in Nat /\ m > Len(moves) /\ mc >= m /\ mp >= mc
    BY <1>2, <1>3
  <2>2. Len(ms) \in Nat /\ Len(moves') \in Nat /\ Len(moves') = m - 1 + Len(ms)
    BY <1>2, <1>3, <1>8, <1>9 DEF CountOfReceipt
  <2>3. q.r > 0 => Len(ms) >= 1
    BY <1>8 DEF CountOfReceipt
  <2>4. q.c > 0 /\ kind = "RET" => Len(ms) >= mc - m + 1
    BY <1>8, <2>1 DEF CountOfReceipt
  <2>5. rem > 0 => Len(ms) = mp - m + 1
    BY <1>8, <2>1 DEF CountOfReceipt
  <2>6. q.r > 0 => mc = m + 1
    OBVIOUS
  <2>7. q.c > 0 /\ kind = "RET" => mp = mc + 1
    OBVIOUS
  <2> HIDE DEF m, mc, mp
  <2> QED
    BY <1>2, <2>1, <2>2, <2>3, <2>4, <2>5, <2>6, <2>7
<1> HIDE DEF m, mc, mp
<1>11. /\ got \in Line
       /\ \/ got = lines[row.id]
          \/ got.state # "pending" /\ got.move = 0
          \/ got.state # "pending" /\ got.move = m /\ q.r > 0
  <2>1. lines[row.id] \in Line
    BY <1>2, <1>7
  <2>2. rem \in Int /\ m \in Nat
    BY <1>7, <1>10
  <2>3. got = ReceivedLine(lines[row.id], q.r, q.c, rem, m)
    OBVIOUS
  <2> HIDE DEF got
  <2> QED
    BY <1>4, <2>1, <2>2, <2>3, ReceivedLineType
<1>12. /\ q.c > 0 => lc \in Line
       /\ rem > 0 => lp \in Line
  BY <1>4, <1>7, <1>10, NewLineType DEF LineStates
<1>13. /\ lc.state = "cancelled"
       /\ lc.move = (IF kind = "RET" THEN mc ELSE 0)
       /\ lp.move = mp
       /\ lp.order = q.order /\ lp.obj = row.line.obj /\ lp.ordered = rem
  BY DEF NewLine
<1> HIDE DEF got, lc, lp
<1>14. /\ old \in Seq(Line) /\ Len(old) = Len(lines)
       /\ \A l \in 1 .. Len(lines) : old[l] = IF l = row.id THEN got ELSE lines[l]
  BY <1>2, <1>7, <1>11, ExceptSeq
<1>15. /\ cs \in Seq(Line) /\ Len(cs) = (IF q.c > 0 THEN 1 ELSE 0)
       /\ q.c > 0 => cs[1] = lc
  BY <1>12
<1>16. /\ ps \in Seq(Line) /\ Len(ps) = (IF rem > 0 THEN 1 ELSE 0)
       /\ rem > 0 => ps[1] = lp
  BY <1>12
<1> HIDE DEF old, cs, ps
\* Every line is an old one, the received one, the cancelled or the pending one.
<1> DEFINE Kept(l) == l \in DOMAIN lines /\ lines'[l] = lines[l]
           Got(l)  == l = row.id /\ lines'[l] = got
           IsC(l)  == q.c > 0 /\ l = Len(lines) + 1 /\ lines'[l] = lc
           IsP(l)  == rem > 0 /\ l > Len(lines) /\ l = Len(lines') /\ lines'[l] = lp
<1>17. /\ lines' \in Seq(Line) /\ DOMAIN lines' = 1 .. Len(lines') /\ Len(lines') \in Nat
       /\ Len(lines') = Len(lines) + Len(cs) + Len(ps)
       /\ DOMAIN lines \subseteq DOMAIN lines'
       /\ \A l \in DOMAIN lines' : Kept(l) \/ Got(l) \/ IsC(l) \/ IsP(l)
       /\ rem > 0 /\ q.c > 0 => Len(lines') # Len(lines) + 1
  <2>1. /\ lines' \in Seq(Line) /\ Len(lines') = Len(old) + Len(cs) + Len(ps)
        /\ Len(cs) \in Nat /\ Len(ps) \in Nat
        /\ \A l \in 1 .. Len(old) : lines'[l] = old[l]
        /\ \A i \in 1 .. Len(cs) : lines'[Len(old) + i] = cs[i]
        /\ \A i \in 1 .. Len(ps) : lines'[Len(old) + Len(cs) + i] = ps[i]
    <3>1. old \in Seq(Line) /\ cs \in Seq(Line) /\ ps \in Seq(Line)
      BY <1>14, <1>15, <1>16
    <3> QED
      BY <1>6, <3>1, Concat3
  <2>2. DOMAIN lines' = 1 .. Len(lines') /\ Len(lines') \in Nat
    BY <2>1, LenProperties
  <2>3. ASSUME NEW l \in DOMAIN lines' PROVE Kept(l) \/ Got(l) \/ IsC(l) \/ IsP(l)
    <3>1. CASE l <= Len(lines)
      <4>1. l \in 1 .. Len(lines)
        BY <1>2, <2>2, <3>1
      <4>2. lines'[l] = IF l = row.id THEN got ELSE lines[l]
        BY <1>14, <2>1, <4>1
      <4> QED
        BY <1>2, <4>1, <4>2
    <3>2. CASE l = Len(lines) + 1 /\ q.c > 0
      BY <1>14, <1>15, <2>1, <3>2
    <3>3. CASE l > Len(lines) + Len(cs)
      <4>1. Len(ps) = 1 /\ rem > 0 /\ ps[1] = lp
        BY <1>2, <1>14, <1>16, <2>1, <2>2, <3>3
      <4>2. l = Len(lines') /\ l = Len(old) + Len(cs) + 1 /\ l > Len(lines)
        <5>1. /\ Len(lines') = Len(old) + Len(cs) + 1 /\ Len(old) = Len(lines)
              /\ Len(cs) \in Nat /\ l \in 1 .. Len(lines')
          BY <1>14, <2>1, <2>2, <4>1
        <5> QED
          BY <1>2, <3>3, <5>1
      <4>3. lines'[Len(old) + Len(cs) + 1] = ps[1]
        BY <2>1, <4>1
      <4> QED
        BY <4>1, <4>2, <4>3
    <3>4. \/ l <= Len(lines)
          \/ l = Len(lines) + 1 /\ q.c > 0
          \/ l > Len(lines) + Len(cs)
      BY <1>2, <1>4, <1>15, <2>2
    <3> QED
      BY <3>1, <3>2, <3>3, <3>4
  <2>4. DOMAIN lines \subseteq DOMAIN lines' /\ Len(lines') = Len(lines) + Len(cs) + Len(ps)
    BY <1>2, <1>14, <2>1, <2>2
  <2>5. rem > 0 /\ q.c > 0 => Len(lines') # Len(lines) + 1
    BY <1>2, <1>15, <1>16, <2>4
  <2> QED
    BY <2>1, <2>2, <2>3, <2>4, <2>5
<1>18. /\ tabs' \in [Tabs -> Tab]
       /\ \A u \in Tabs : tabs'[u].at = "posted" => tabs'[u] = tabs[u]
  BY <1>1, <1>4 DEF IInv, RowsOK, Tab
<1>19. RowsOK'
  BY <1>1, <1>9, <1>17, <1>18 DEF IInv, RowsOK
<1>20. ASSUME NEW l \in DOMAIN lines',
              lines'[l].move \in Len(moves) + 1 .. Len(moves'),
              NEW k \in DOMAIN lines', k # l
       PROVE  lines'[k].move # lines'[l].move
  <2>1. ~Kept(l)
    BY <1>2, <1>20
  <2>2. Kept(k) => lines'[k].move \in 0 .. Len(moves)
    BY <1>2
  <2>3. CASE Kept(k)
    BY <1>2, <1>20, <2>2, <2>3
  <2>4. CASE ~Kept(k)
    <3>1. (Got(l) \/ IsC(l) \/ IsP(l)) /\ (Got(k) \/ IsC(k) \/ IsP(k))
      BY <1>17, <2>1, <2>4
    <3>2. \A j \in DOMAIN lines' :
            /\ Got(j) /\ ~Kept(j) => \/ lines'[j].move = 0
                                     \/ lines'[j].move = m /\ q.r > 0
            /\ IsC(j) => \/ lines'[j].move = 0
                         \/ lines'[j].move = mc /\ q.c > 0 /\ kind = "RET"
            /\ IsP(j) => lines'[j].move = mp /\ rem > 0
      BY <1>7, <1>11, <1>13
    <3>3. lines'[l].move # 0
      BY <1>2, <1>20
    <3>4. ~(IsC(l) /\ IsC(k)) /\ ~(IsP(l) /\ IsP(k)) /\ ~(Got(l) /\ Got(k))
      BY <1>20
    <3> HIDE DEF Kept, Got, IsC, IsP
    <3> QED
      BY <1>10, <1>20, <2>1, <2>4, <3>1, <3>2, <3>3, <3>4
  <2> QED
    BY <2>3, <2>4
<1>21. ASSUME NEW l \in DOMAIN lines'
       PROVE  \/ l \in DOMAIN lines /\ lines'[l] = lines[l]
              \/ lines'[l].state # "pending" /\ lines'[l].move = 0
              \/ /\ l \in DOMAIN lines => lines'[l].state # "pending"
                 /\ lines'[l].move \in Len(moves) + 1 .. Len(moves')
                 /\ lines'[l].state = "pending" =>
                      moves'[lines'[l].move] =
                        NewMove(MoveType(orders'[lines'[l].order].kind), lines'[l].obj, lines'[l].ordered)
  <2>1. CASE Kept(l)
    BY <2>1
  <2>2. CASE Got(l)
    BY <1>7, <1>10, <1>11, <2>2
  <2>3. CASE IsC(l)
    BY <1>2, <1>10, <1>13, <2>3
  <2>4. CASE IsP(l)
    <3>1. l \notin DOMAIN lines
      BY <1>2, <2>4
    <3>2. moves'[mp] = NewMove(MoveType(kind), row.line.obj, rem)
      BY <1>8, <1>9, <1>10, <2>4
    <3> QED
      BY <1>1, <1>10, <1>13, <2>4, <3>1, <3>2
  <2> QED
    BY <1>17, <2>1, <2>2, <2>3, <2>4
<1>22. Grows(comp \o ms)
  BY <1>1, <1>9, <1>17, <1>18, <1>20, <1>21 DEF Grows
<1> QED
  BY <1>19, <1>22, GrowsStep
-----------------------------------------------------------------------------

\* Every step keeps IInv.
LEMMA InvStep == IInv /\ [Next]_vars => IInv'
<1> SUFFICES ASSUME IInv, [Next]_vars PROVE IInv'
  OBVIOUS
<1>1. CASE UNCHANGED vars
  <2>1. RowsOK'
    BY <1>1 DEF IInv, RowsOK, vars
  <2> QED
    BY <1>1, <2>1, QuietStep DEF vars
<1>2. ASSUME NEW t \in Tabs, Browse(t) \/ Submit(t) \/ Serve(t) \/ Crash(t) PROVE IInv'
  <2>1. CASE Serve(t)
    BY <2>1, CommitCreateStep, CommitEditStep, CommitRemovalStep, CommitReceiveStep,
       CommitReturnStep, StateStep DEF Serve
  <2> QED
    BY <1>2, <2>1, BrowseStep, SubmitStep, StateStep
<1> QED
  BY <1>1, <1>2 DEF Next

\* IInv is inductive.
THEOREM Inductive == Spec => []IInv
BY InvInit, InvStep, PTL DEF Spec

\* Type correctness.
THEOREM TypeCorrect == Spec => []TypeOK
<1>1. Init => TypeOK
  <2>1. Init => RowsOK /\ calm \in BOOLEAN
    BY InvInit DEF Init, IInv
  <2> QED
    BY <2>1 DEF TypeOK
<1>2. IInv /\ IInv' /\ TypeOK /\ [Next]_vars => TypeOK'
  <2>1. [Next]_vars => calm' = calm
    BY DEF Next, vars
  <2> QED
    BY <2>1 DEF IInv, TypeOK
<1> QED
  BY <1>1, <1>2, Inductive, PTL DEF Spec

\* Whatever the number of tabs, however stale their pages and wherever the
\* workers die, every pending line keeps its movement, of its type, for its
\* object and its quantity (edit_order_in_line_db, receive_order_line).
THEOREM BackingSafe == Spec => []PendingBacked
<1>1. IInv => PendingBacked
  <2> SUFFICES ASSUME IInv, NEW l \in DOMAIN lines, lines[l].state = "pending"
               PROVE  /\ lines[l].move \in DOMAIN moves
                      /\ moves[lines[l].move] =
                           NewMove(MoveType(orders[lines[l].order].kind), lines[l].obj, lines[l].ordered)
    BY DEF PendingBacked
  <2>1. LineOK(l)
    BY DEF IInv, LinesOK
  <2>2. DOMAIN moves = 1 .. Len(moves) /\ Len(moves) \in Nat
    BY LenProperties DEF IInv, RowsOK
  <2>3. lines[l].move \in 1 .. Len(moves)
    BY <2>1, <2>2 DEF LineOK
  <2> QED
    BY <2>1, <2>2, <2>3 DEF LineOK
<1> QED
  BY <1>1, Inductive, PTL

\* No movement ever serves two lines, so that what one request edits or
\* compensates never belongs to another line.
THEOREM UnsharedSafe == Spec => []UnsharedMovements
<1>1. IInv => UnsharedMovements
  BY DEF IInv, LinesOK, LineOK, UnsharedMovements
<1> QED
  BY <1>1, Inductive, PTL

-----------------------------------------------------------------------------
(* What a movement and a line stand for in the stock, and in what is       *)
(* expected on top of it; and the sums of these weights.                   *)

Amounts == {"stock", "expected"}

MoveWeight(k, obj, x) ==
    IF x.obj # obj THEN 0
    ELSE IF k = "expected" THEN IF x.type = "pending" THEN x.qty ELSE 0
    ELSE IF x.type = "in" THEN x.qty ELSE IF x.type = "pending" THEN 0 ELSE -x.qty

LineWeight(k, obj, kind, x) ==
    IF x.obj # obj THEN 0
    ELSE IF x.state = "pending"
         THEN IF k = "expected" THEN IF kind = "CMD" THEN x.ordered ELSE 0
              ELSE IF kind = "CMD" THEN 0 ELSE -x.ordered
    ELSE IF x.state = "received" /\ k = "stock"
         THEN IF kind = "CMD" THEN x.received ELSE IF kind = "RET" THEN -x.received ELSE 0
    ELSE 0

MovesWeight(k, obj, ms) ==
    Sum([i \in 1 .. Len(ms) |-> MoveWeight(k, obj, ms[i])], 1 .. Len(ms))
LinesWeight(k, obj, os, ls) ==
    Sum([l \in 1 .. Len(ls) |-> LineWeight(k, obj, os[ls[l].order].kind, ls[l])], 1 .. Len(ls))

\* The movements and the lines weigh the same.
Balanced(k, obj) == MovesWeight(k, obj, moves) = LinesWeight(k, obj, orders, lines)

\* A weight is an integer.
LEMMA WeightType ==
    ASSUME NEW k, NEW obj
    PROVE  /\ \A x \in Move : MoveWeight(k, obj, x) \in Int
           /\ \A x \in Line : \A kind : LineWeight(k, obj, kind, x) \in Int
BY DEF MoveWeight, LineWeight, Move, Line

\* The weights of movements add up to an integer.
LEMMA MovesWeightType ==
    ASSUME NEW k, NEW obj, NEW ms \in Seq(Move)
    PROVE  MovesWeight(k, obj, ms) \in Int
<1> DEFINE S == 1 .. Len(ms)
           f == [i \in S |-> MoveWeight(k, obj, ms[i])]
<1>1. IsFiniteSet(S)
  BY LenProperties, IntervalFinite
<1>2. \A i \in S : f[i] \in Int
  BY WeightType, ElementOfSeq
<1>3. MovesWeight(k, obj, ms) = Sum(f, S)
  BY DEF MovesWeight
<1> HIDE DEF S, f
<1> QED
  BY <1>1, <1>2, <1>3, SumType

\* The weights of lines add up to an integer.
LEMMA LinesWeightType ==
    ASSUME NEW k, NEW obj, NEW os, NEW ls \in Seq(Line)
    PROVE  LinesWeight(k, obj, os, ls) \in Int
<1> DEFINE S == 1 .. Len(ls)
           f == [l \in S |-> LineWeight(k, obj, os[ls[l].order].kind, ls[l])]
<1>1. IsFiniteSet(S)
  BY LenProperties, IntervalFinite
<1>2. \A i \in S : f[i] \in Int
  BY WeightType, ElementOfSeq
<1>3. LinesWeight(k, obj, os, ls) = Sum(f, S)
  BY DEF LinesWeight
<1> HIDE DEF S, f
<1> QED
  BY <1>1, <1>2, <1>3, SumType

\* A concatenation weighs what its two parts weigh.
LEMMA MovesConcat ==
    ASSUME NEW k, NEW obj, NEW ms \in Seq(Move), NEW ns \in Seq(Move)
    PROVE  MovesWeight(k, obj, ms \o ns) = MovesWeight(k, obj, ms) + MovesWeight(k, obj, ns)
<1> DEFINE all == ms \o ns
           A == 1 .. Len(ms)
           B == 1 .. Len(ns)
           C == 1 .. Len(all)
           s == [i \in B |-> Len(ms) + i]
           f == [i \in A |-> MoveWeight(k, obj, ms[i])]
           g == [i \in B |-> MoveWeight(k, obj, ns[i])]
           h == [i \in C |-> MoveWeight(k, obj, all[i])]
<1>1. /\ Len(ms) \in Nat /\ Len(ns) \in Nat /\ Len(all) = Len(ms) + Len(ns)
      /\ A \subseteq C /\ s \in [B -> C \ A]
      /\ IsFiniteSet(A) /\ IsFiniteSet(B) /\ IsFiniteSet(C)
  BY LenProperties, ConcatProperties, IntervalFinite
<1>2. /\ \A i \in A : all[i] = ms[i]
      /\ \A i \in B : all[s[i]] = ns[i]
  BY ConcatProperties
<1>3. \A i, j \in B : s[i] = s[j] => i = j
  BY <1>1
<1>4. \A z \in C \ A : \E i \in B : z = s[i]
  <2> SUFFICES ASSUME NEW z \in C \ A PROVE \E i \in B : z = s[i]
    OBVIOUS
  <2>1. z - Len(ms) \in B
    BY <1>1
  <2>2. s[z - Len(ms)] = z
    BY <1>1, <2>1
  <2> QED
    BY <2>1, <2>2
<1>5. \A i \in A : f[i] \in Int /\ h[i] = f[i]
  <2> SUFFICES ASSUME NEW i \in A PROVE f[i] \in Int /\ h[i] = f[i]
    OBVIOUS
  <2>1. i \in C /\ all[i] = ms[i] /\ ms[i] \in Move
    BY <1>1, <1>2, ElementOfSeq
  <2> HIDE DEF C, all
  <2> QED
    BY <2>1, WeightType
<1>6. \A i \in B : g[i] \in Int /\ h[s[i]] = g[i]
  <2> SUFFICES ASSUME NEW i \in B PROVE g[i] \in Int /\ h[s[i]] = g[i]
    OBVIOUS
  <2>1. s[i] \in C /\ all[s[i]] = ns[i] /\ ns[i] \in Move
    BY <1>1, <1>2, ElementOfSeq
  <2> HIDE DEF C, all, s
  <2> QED
    BY <2>1, WeightType
<1>7. /\ MovesWeight(k, obj, ms) = Sum(f, A)
      /\ MovesWeight(k, obj, ns) = Sum(g, B)
      /\ MovesWeight(k, obj, all) = Sum(h, C)
  BY DEF MovesWeight
<1> HIDE DEF A, B, C, s, f, g, h, all
<1>8. Sum(h, C) = Sum(f, A) + Sum(g, B)
  BY <1>1, <1>3, <1>4, <1>5, <1>6, SumJoined
<1> QED
  BY <1>7, <1>8 DEF all

\* Lines added at the end add their weights.
LEMMA LinesConcat ==
    ASSUME NEW k, NEW obj, NEW os, NEW ls \in Seq(Line), NEW ns \in Seq(Line)
    PROVE  LinesWeight(k, obj, os, ls \o ns) =
             LinesWeight(k, obj, os, ls) + LinesWeight(k, obj, os, ns)
<1> DEFINE all == ls \o ns
           A == 1 .. Len(ls)
           B == 1 .. Len(ns)
           C == 1 .. Len(all)
           s == [i \in B |-> Len(ls) + i]
           f == [i \in A |-> LineWeight(k, obj, os[ls[i].order].kind, ls[i])]
           g == [i \in B |-> LineWeight(k, obj, os[ns[i].order].kind, ns[i])]
           h == [i \in C |-> LineWeight(k, obj, os[all[i].order].kind, all[i])]
<1>1. /\ Len(ls) \in Nat /\ Len(ns) \in Nat /\ Len(all) = Len(ls) + Len(ns)
      /\ A \subseteq C /\ s \in [B -> C \ A]
      /\ IsFiniteSet(A) /\ IsFiniteSet(B) /\ IsFiniteSet(C)
  BY LenProperties, ConcatProperties, IntervalFinite
<1>2. /\ \A i \in A : all[i] = ls[i]
      /\ \A i \in B : all[s[i]] = ns[i]
  BY ConcatProperties
<1>3. \A i, j \in B : s[i] = s[j] => i = j
  BY <1>1
<1>4. \A z \in C \ A : \E i \in B : z = s[i]
  <2> SUFFICES ASSUME NEW z \in C \ A PROVE \E i \in B : z = s[i]
    OBVIOUS
  <2>1. z - Len(ls) \in B
    BY <1>1
  <2>2. s[z - Len(ls)] = z
    BY <1>1, <2>1
  <2> QED
    BY <2>1, <2>2
<1>5. \A i \in A : f[i] \in Int /\ h[i] = f[i]
  <2> SUFFICES ASSUME NEW i \in A PROVE f[i] \in Int /\ h[i] = f[i]
    OBVIOUS
  <2>1. i \in C /\ all[i] = ls[i] /\ ls[i] \in Line
    BY <1>1, <1>2, ElementOfSeq
  <2> HIDE DEF C, all
  <2> QED
    BY <2>1, WeightType
<1>6. \A i \in B : g[i] \in Int /\ h[s[i]] = g[i]
  <2> SUFFICES ASSUME NEW i \in B PROVE g[i] \in Int /\ h[s[i]] = g[i]
    OBVIOUS
  <2>1. s[i] \in C /\ all[s[i]] = ns[i] /\ ns[i] \in Line
    BY <1>1, <1>2, ElementOfSeq
  <2> HIDE DEF C, all, s
  <2> QED
    BY <2>1, WeightType
<1>7. /\ LinesWeight(k, obj, os, ls) = Sum(f, A)
      /\ LinesWeight(k, obj, os, ns) = Sum(g, B)
      /\ LinesWeight(k, obj, os, all) = Sum(h, C)
  BY DEF LinesWeight
<1> HIDE DEF A, B, C, s, f, g, h, all
<1>8. Sum(h, C) = Sum(f, A) + Sum(g, B)
  BY <1>1, <1>3, <1>4, <1>5, <1>6, SumJoined
<1> QED
  BY <1>7, <1>8 DEF all

\* No movement weighs nothing, and one movement its own weight.
LEMMA MovesFew ==
    ASSUME NEW k, NEW obj
    PROVE  /\ MovesWeight(k, obj, <<>>) = 0
           /\ \A x \in Move : MovesWeight(k, obj, <<x>>) = MoveWeight(k, obj, x)
<1>1. MovesWeight(k, obj, <<>>) = 0
  <2> DEFINE f == [i \in 1 .. Len(<<>>) |-> MoveWeight(k, obj, <<>>[i])]
  <2>1. MovesWeight(k, obj, <<>>) = Sum(f, 1 .. Len(<<>>))
    BY DEF MovesWeight
  <2>2. 1 .. Len(<<>>) = {}
    BY EmptySeq
  <2> HIDE DEF f
  <2> QED
    BY <2>1, <2>2, SumEmpty
<1>2. ASSUME NEW x \in Move PROVE MovesWeight(k, obj, <<x>>) = MoveWeight(k, obj, x)
  <2> DEFINE f == [i \in 1 .. Len(<<x>>) |-> MoveWeight(k, obj, <<x>>[i])]
  <2>1. MovesWeight(k, obj, <<x>>) = Sum(f, 1 .. Len(<<x>>))
    BY DEF MovesWeight
  <2>2. 1 .. Len(<<x>>) = {1} /\ f[1] = MoveWeight(k, obj, x)
    OBVIOUS
  <2>3. f[1] \in Int
    BY <2>2, WeightType
  <2> HIDE DEF f
  <2> QED
    BY <2>1, <2>2, <2>3, SumOne
<1> QED
  BY <1>1, <1>2

\* No line weighs nothing, and one line its own weight.
LEMMA LinesFew ==
    ASSUME NEW k, NEW obj, NEW os
    PROVE  /\ LinesWeight(k, obj, os, <<>>) = 0
           /\ \A x \in Line :
                LinesWeight(k, obj, os, <<x>>) = LineWeight(k, obj, os[x.order].kind, x)
<1>1. LinesWeight(k, obj, os, <<>>) = 0
  <2> DEFINE f == [i \in 1 .. Len(<<>>) |-> LineWeight(k, obj, os[<<>>[i].order].kind, <<>>[i])]
  <2>1. LinesWeight(k, obj, os, <<>>) = Sum(f, 1 .. Len(<<>>))
    BY DEF LinesWeight
  <2>2. 1 .. Len(<<>>) = {}
    BY EmptySeq
  <2> HIDE DEF f
  <2> QED
    BY <2>1, <2>2, SumEmpty
<1>2. ASSUME NEW x \in Line
      PROVE  LinesWeight(k, obj, os, <<x>>) = LineWeight(k, obj, os[x.order].kind, x)
  <2> DEFINE f == [i \in 1 .. Len(<<x>>) |-> LineWeight(k, obj, os[<<x>>[i].order].kind, <<x>>[i])]
  <2>1. LinesWeight(k, obj, os, <<x>>) = Sum(f, 1 .. Len(<<x>>))
    BY DEF LinesWeight
  <2>2. 1 .. Len(<<x>>) = {1} /\ f[1] = LineWeight(k, obj, os[x.order].kind, x)
    OBVIOUS
  <2>3. f[1] \in Int
    BY <2>2, WeightType
  <2> HIDE DEF f
  <2> QED
    BY <2>1, <2>2, <2>3, SumOne
<1> QED
  BY <1>1, <1>2

\* The weight of line x, given the orders.
WeightOf(k, obj, os, x) == LineWeight(k, obj, os[x.order].kind, x)

\* One movement, or one line, becomes another.
LEMMA MovesChanged ==
    ASSUME NEW k, NEW obj, NEW ms, NEW ns, NEW m,
           ms \in Seq(Move), ns \in Seq(Move), Len(ns) = Len(ms),
           m \in 1 .. Len(ms), \A i \in 1 .. Len(ms) : i # m => ns[i] = ms[i]
    PROVE  MovesWeight(k, obj, ns) =
             MovesWeight(k, obj, ms) - MoveWeight(k, obj, ms[m]) + MoveWeight(k, obj, ns[m])
<1> DEFINE S == 1 .. Len(ms)
           f == [i \in S |-> MoveWeight(k, obj, ms[i])]
           g == [i \in S |-> MoveWeight(k, obj, ns[i])]
<1>1. IsFiniteSet(S)
  BY LenProperties, IntervalFinite
<1>2. \A i \in S : f[i] \in Int /\ g[i] \in Int
  BY WeightType, ElementOfSeq
<1>3. \A i \in S \ {m} : g[i] = f[i]
  OBVIOUS
<1>4. /\ MovesWeight(k, obj, ms) = Sum(f, S) /\ MovesWeight(k, obj, ns) = Sum(g, S)
      /\ f[m] = MoveWeight(k, obj, ms[m]) /\ g[m] = MoveWeight(k, obj, ns[m])
  BY DEF MovesWeight
<1>5. m \in S
  OBVIOUS
<1> HIDE DEF S, f, g
<1>6. Sum(g, S) = Sum(f, S) - f[m] + g[m]
  BY <1>1, <1>2, <1>3, <1>5, SumChange
<1> QED
  BY <1>4, <1>6

\* Replacing one line replaces its weight.
LEMMA LinesChanged ==
    ASSUME NEW k, NEW obj, NEW os, NEW ls, NEW ns, NEW l,
           ls \in Seq(Line), ns \in Seq(Line), Len(ns) = Len(ls),
           l \in 1 .. Len(ls), \A i \in 1 .. Len(ls) : i # l => ns[i] = ls[i]
    PROVE  LinesWeight(k, obj, os, ns) =
             LinesWeight(k, obj, os, ls) - WeightOf(k, obj, os, ls[l]) + WeightOf(k, obj, os, ns[l])
<1> DEFINE S == 1 .. Len(ls)
           f == [i \in S |-> LineWeight(k, obj, os[ls[i].order].kind, ls[i])]
           g == [i \in S |-> LineWeight(k, obj, os[ns[i].order].kind, ns[i])]
<1>1. IsFiniteSet(S)
  BY LenProperties, IntervalFinite
<1>2. \A i \in S : f[i] \in Int /\ g[i] \in Int
  BY WeightType, ElementOfSeq
<1>3. \A i \in S \ {l} : g[i] = f[i]
  OBVIOUS
<1>4. /\ LinesWeight(k, obj, os, ls) = Sum(f, S) /\ LinesWeight(k, obj, os, ns) = Sum(g, S)
      /\ f[l] = WeightOf(k, obj, os, ls[l]) /\ g[l] = WeightOf(k, obj, os, ns[l])
  BY DEF LinesWeight, WeightOf
<1>5. l \in S
  OBVIOUS
<1> HIDE DEF S, f, g
<1>6. Sum(g, S) = Sum(f, S) - f[l] + g[l]
  BY <1>1, <1>2, <1>3, <1>5, SumChange
<1> QED
  BY <1>4, <1>6

\* The weight of the lines depends on the prefixes of the orders only.
LEMMA LinesSameKinds ==
    ASSUME NEW k, NEW obj, NEW os, NEW ps, NEW ls \in Seq(Line),
           \A o \in Orders : ps[o].kind = os[o].kind
    PROVE  LinesWeight(k, obj, ps, ls) = LinesWeight(k, obj, os, ls)
<1>1. \A l \in 1 .. Len(ls) : ps[ls[l].order].kind = os[ls[l].order].kind
  <2> SUFFICES ASSUME NEW l \in 1 .. Len(ls) PROVE ps[ls[l].order].kind = os[ls[l].order].kind
    OBVIOUS
  <2>1. ls[l] \in Line
    BY ElementOfSeq
  <2>2. ls[l].order \in Orders
    BY <2>1 DEF Line
  <2> QED
    BY <2>2
<1>2. [l \in 1 .. Len(ls) |-> LineWeight(k, obj, os[ls[l].order].kind, ls[l])]
      = [l \in 1 .. Len(ls) |-> LineWeight(k, obj, ps[ls[l].order].kind, ls[l])]
  BY <1>1
<1> QED
  BY <1>2, Zenon DEF LinesWeight
-----------------------------------------------------------------------------
\* The enumeration of a finite set meets every element once.
LEMMA SetToSeqAll ==
    ASSUME NEW S, IsFiniteSet(S)
    PROVE  /\ SetToSeq(S) \in Seq(S)
           /\ \A i, j \in 1 .. Len(SetToSeq(S)) : SetToSeq(S)[i] = SetToSeq(S)[j] => i = j
           /\ \A x \in S : \E i \in 1 .. Len(SetToSeq(S)) : SetToSeq(S)[i] = x
<1>1. Cardinality(S) \in Nat /\ ExistsBijection(1 .. Cardinality(S), S)
  BY FS_CardinalityType
<1>2. PICK f : f \in Bijection(1 .. Cardinality(S), S)
  BY <1>1 DEF ExistsBijection
<1>3. /\ f \in [1 .. Cardinality(S) -> S] /\ IsInjective(f)
      /\ \A x \in S : \E i \in 1 .. Cardinality(S) : f[i] = x
  BY <1>2 DEF Bijection, Injection, Surjection
<1> DEFINE g == SetToSeq(S)
<1>4. g \in [1 .. Cardinality(S) -> S] /\ IsInjective(g)
  BY <1>3 DEF SetToSeq
<1>5. g \in Seq(S) /\ Len(g) = Cardinality(S)
  <2> HIDE DEF g
  <2> QED
    BY <1>1, <1>4, IsASeq, LenProperties
<1>6. \A i, j \in 1 .. Cardinality(S) : g[i] = g[j] => i = j
  <2> HIDE DEF g
  <2> QED
    BY <1>4 DEF IsInjective
<1>7. g \in Surjection(1 .. Cardinality(S), S)
  <2> HIDE DEF g
  <2>1. IsFiniteSet(1 .. Cardinality(S)) /\ Cardinality(1 .. Cardinality(S)) = Cardinality(S)
    BY <1>1, FS_Interval
  <2>2. g \in Injection(1 .. Cardinality(S), S)
    BY <1>4 DEF Injection
  <2> QED
    BY <2>1, <2>2, FS_Injection
<1> QED
  BY <1>5, <1>6, <1>7 DEF Surjection

\* The inverse of a movement weighs the opposite.
LEMMA CompensationWeight ==
    ASSUME NEW k, NEW obj
    PROVE  \A x \in Move : MoveWeight(k, obj, Compensation(x)) = -MoveWeight(k, obj, x)
<1> SUFFICES ASSUME NEW x \in Move
             PROVE  MoveWeight(k, obj, Compensation(x)) = -MoveWeight(k, obj, x)
  OBVIOUS
<1>1. /\ Compensation(x).type = x.type /\ Compensation(x).obj = x.obj
      /\ Compensation(x).qty = -x.qty /\ x.qty \in Int
  BY DEF Compensation, Move
<1> QED
  BY <1>1 DEF MoveWeight

LineWeightAt(k, obj, l) == LineWeight(k, obj, orders[lines[l].order].kind, lines[l])

\* Settling the lines K: the compensations of the movements behind them weigh
\* what is taken off the lines.
LEMMA SettledWeight ==
    ASSUME NEW k, NEW obj, IInv, NEW K \in SUBSET DOMAIN lines, NEW backing, IsFiniteSet(backing),
           backing = {[id |-> m, move |-> moves[m]] : m \in {lines[l].move : l \in K} \ {0}},
           \A l \in K : LineWeightAt(k, obj, l) =
             IF lines[l].move = 0 THEN 0 ELSE MoveWeight(k, obj, moves[lines[l].move]),
           NEW ls \in Seq(Line), Len(ls) = Len(lines),
           \A l \in 1 .. Len(lines) : LineWeight(k, obj, orders[ls[l].order].kind, ls[l])
             = IF l \in K THEN 0 ELSE LineWeightAt(k, obj, l)
    PROVE  LinesWeight(k, obj, orders, ls) =
             LinesWeight(k, obj, orders, lines) + MovesWeight(k, obj, Compensations(backing))
<1> DEFINE D == 1 .. Len(lines)
           K0 == {l \in K : lines[l].move # 0}
           rows == SetToSeq(backing)
           N == 1 .. Len(rows)
           comp == Compensations(backing)
           b == [i \in N |-> CHOOSE l \in K0 : lines[l].move = rows[i].id]
           c == [i \in N |-> MoveWeight(k, obj, comp[i])]
           f == [l \in D |-> LineWeight(k, obj, orders[lines[l].order].kind, lines[l])]
           h == [l \in D |-> LineWeight(k, obj, orders[ls[l].order].kind, ls[l])]
           neg == [l \in D |-> IF l \in K0 THEN -f[l] ELSE 0]
<1>1. /\ lines \in Seq(Line) /\ moves \in Seq(Move)
      /\ DOMAIN lines = D /\ DOMAIN moves = 1 .. Len(moves) /\ Len(lines) \in Nat /\ Len(moves) \in Nat
      /\ \A l \in D : lines[l] \in Line /\ lines[l].move \in 0 .. Len(moves)
      /\ \A m \in 1 .. Len(moves) : moves[m] \in Move
      /\ IsFiniteSet(D) /\ K0 \in SUBSET D
  BY LenProperties, ElementOfSeq, IntervalFinite DEF IInv, RowsOK, LinesOK, LineOK
<1>2. /\ rows \in Seq(backing)
      /\ \A i, j \in N : rows[i] = rows[j] => i = j
      /\ \A x \in backing : \E i \in N : rows[i] = x
  BY SetToSeqAll
<1>3. \A i \in N : rows[i] \in backing
  BY <1>2, ElementOfSeq
<1>4. IsFiniteSet(N) /\ IsFiniteSet(K0)
  <2>1. IsFiniteSet(N)
    BY <1>2, LenProperties, IntervalFinite
  <2> QED
    BY <1>1, <2>1, FS_Subset
<1>5. /\ comp = [i \in N |-> Compensation(rows[i].move)]
      /\ Len(rows) \in Nat /\ Len(comp) = Len(rows)
  BY <1>2, LenProperties DEF Compensations
<1> HIDE DEF rows, D
\* b enumerates the lines that have a movement.
<1>6. ASSUME NEW i \in N
      PROVE  /\ b[i] \in K0 /\ lines[b[i]].move = rows[i].id
             /\ rows[i] = [id |-> lines[b[i]].move, move |-> moves[lines[b[i]].move]]
  <2>1. PICK m \in {lines[l].move : l \in K} \ {0} : rows[i] = [id |-> m, move |-> moves[m]]
    BY <1>3
  <2>2. \E l \in K0 : lines[l].move = rows[i].id
    BY <2>1
  <2>3. b[i] \in K0 /\ lines[b[i]].move = rows[i].id
    <3> HIDE DEF K0
    <3> QED
      BY <2>2
  <2> HIDE DEF b
  <2> QED
    BY <2>1, <2>3
<1>7. /\ b \in [N -> K0]
      /\ \A i, j \in N : b[i] = b[j] => i = j
      /\ \A l \in K0 : \E i \in N : l = b[i]
  <2>1. b \in [N -> K0]
    <3>1. \A i \in N : (CHOOSE l \in K0 : lines[l].move = rows[i].id) \in K0
      BY <1>6
    <3> HIDE DEF K0, N
    <3> QED
      BY <3>1
  <2>2. ASSUME NEW i \in N, NEW j \in N, b[i] = b[j] PROVE i = j
    <3> HIDE DEF b, N, K0
    <3>1. rows[i] = [id |-> lines[b[i]].move, move |-> moves[lines[b[i]].move]]
      BY <1>6
    <3>2. rows[j] = [id |-> lines[b[j]].move, move |-> moves[lines[b[j]].move]]
      BY <1>6
    <3>3. rows[i] = rows[j]
      BY <2>2, <3>1, <3>2, Zenon
    <3> QED
      BY <1>2, <3>3
  <2>3. ASSUME NEW l \in K0 PROVE \E i \in N : l = b[i]
    <3>1. PICK i \in N : rows[i] = [id |-> lines[l].move, move |-> moves[lines[l].move]]
      BY <1>2
    <3>2. lines[b[i]].move = lines[l].move /\ b[i] \in K0
      <4> HIDE DEF b, N, K0
      <4>1. b[i] \in K0 /\ lines[b[i]].move = rows[i].id
        BY <1>6
      <4>2. rows[i].id = lines[l].move
        BY <3>1
      <4> QED
        BY <4>1, <4>2
    <3>3. \A j \in DOMAIN lines : j # l /\ lines[j].move # 0 => lines[j].move # lines[l].move
      BY <1>1 DEF IInv, LinesOK, LineOK
    <3> HIDE DEF b
    <3> QED
      BY <3>2, <3>3
  <2> QED
    BY <2>1, <2>2, <2>3
<1>8. \A l \in D : f[l] \in Int /\ neg[l] \in Int /\ f[l] = LineWeightAt(k, obj, l)
  BY <1>1, WeightType DEF LineWeightAt
<1>9. \A l \in D : h[l] = f[l] + neg[l]
  <2> SUFFICES ASSUME NEW l \in D PROVE h[l] = f[l] + neg[l]
    OBVIOUS
  <2>1. h[l] = IF l \in K THEN 0 ELSE f[l]
    BY <1>8 DEF D
  <2>2. l \in K /\ lines[l].move = 0 => f[l] = 0
    BY <1>8
  <2>3. neg[l] = IF l \in K /\ lines[l].move # 0 THEN -f[l] ELSE 0
    OBVIOUS
  <2> HIDE DEF h, neg, f
  <2> QED
    BY <1>8, <2>1, <2>2, <2>3
<1>10. \A i \in N : c[i] \in Int /\ neg[b[i]] = c[i]
  <2> SUFFICES ASSUME NEW i \in N PROVE c[i] \in Int /\ neg[b[i]] = c[i]
    OBVIOUS
  <2> DEFINE x == moves[lines[b[i]].move]
  <2>1. b[i] \in K0 /\ b[i] \in D /\ rows[i].move = x
    <3>1. b[i] \in K0 /\ rows[i] = [id |-> lines[b[i]].move, move |-> moves[lines[b[i]].move]]
      BY <1>6
    <3> HIDE DEF b
    <3> QED
      BY <1>1, <3>1
  <2>2. x \in Move
    <3> HIDE DEF b
    <3> QED
      BY <1>1, <2>1
  <2>3. c[i] = -MoveWeight(k, obj, x)
    <3>1. comp[i] = Compensation(x)
      <4> HIDE DEF b
      <4> QED
        BY <1>5, <2>1
    <3>2. c[i] = MoveWeight(k, obj, comp[i])
      OBVIOUS
    <3> HIDE DEF x, c, comp, b
    <3> QED
      BY <2>2, <3>1, <3>2, CompensationWeight
  <2>4. neg[b[i]] = -f[b[i]] /\ f[b[i]] = MoveWeight(k, obj, x)
    <3> HIDE DEF b
    <3> QED
      BY <1>8, <2>1
  <2>5. MoveWeight(k, obj, x) \in Int
    BY <2>2, WeightType
  <2> HIDE DEF c, neg, f, b, x
  <2> QED
    BY <2>3, <2>4, <2>5
<1>11. \A l \in D \ K0 : neg[l] = 0
  OBVIOUS
<1>12. /\ LinesWeight(k, obj, orders, ls) = Sum(h, D)
       /\ LinesWeight(k, obj, orders, lines) = Sum(f, D)
       /\ MovesWeight(k, obj, comp) = Sum(c, N)
  BY <1>5, Zenon DEF LinesWeight, MovesWeight, D
<1>13. \A l \in D : h[l] \in Int
  <2> HIDE DEF h, f, neg
  <2> QED
    BY <1>8, <1>9
<1> HIDE DEF N, K0, b, c, f, h, neg, comp
<1>14. Sum(h, D) = Sum(f, D) + Sum(neg, D)
  BY <1>1, <1>8, <1>9, SumOfSums
<1>15. Sum(neg, D) = Sum(neg, K0)
  BY <1>1, <1>8, <1>11, SumFiltered
<1>16. Sum(neg, K0) = Sum(c, N)
  BY <1>4, <1>7, <1>10, SumRenamed
<1> QED
  BY <1>12, <1>14, <1>15, <1>16 DEF comp

-----------------------------------------------------------------------------
(* One careful tab at a time: the invariant behind StockIsExplained,       *)
(* OpenOrdersWait and ReservationsAreCovered.                              *)

OneTab == \A t, u \in Tabs : tabs[t].at # "home" /\ tabs[u].at # "home" => t = u

\* What line x knows of its order o and of its movement among ms.
LineFits(x, o, ms) ==
    /\ o.state # "none"
    /\ x.state = "pending" => o.state \in {"draft", "sended"} /\ x.ordered >= 1
    /\ o.state = "draft" => x.state \in {"pending", "deleted"}
    /\ x.state \in {"cancelled", "deleted"} => x.move = 0
    /\ x.state = "received" /\ o.kind = "RES" => o.state = "received"
    /\ x.state = "received" /\ o.kind # "RES" =>
         /\ x.move # 0
         /\ ms[x.move] = NewMove(IF o.kind = "RET" THEN "out" ELSE "in", x.obj, x.received)

LinesCalm == \A l \in DOMAIN lines : LineFits(lines[l], orders[lines[l].order], moves)

\* What the request q read is still so.
FreshRead(q) ==
    /\ \A row \in q.read : /\ row.id \in DOMAIN lines /\ row.line = lines[row.id]
                           /\ row.line.order = q.order /\ row.line.state # "deleted"
    /\ q.backing = {[id |-> m, move |-> moves[m]] : m \in {lines[l].move : l \in Ids(q.read)} \ {0}}

\* What the code checks of the quantity of a reservation.
Allowed(obj, qty) == HasHistory(obj) => qty <= Available(obj)

\* What the code checked for the request q is still so.
FreshRequest(q) ==
    LET o == orders[q.order] IN
    /\ FreshRead(q)
    /\ q.op \in {"create", "edit", "delete", "confirm"} => o.state = "draft"
    /\ q.op \in {"create", "edit"} => q.r >= 1
    /\ q.op = "create" /\ o.kind = "RES" => Allowed(q.obj, q.r)
    /\ q.op = "edit" => /\ o.kind # "RES"
                        /\ \E l \in DOMAIN lines : q.read = {[id |-> l, line |-> lines[l]]}
    /\ q.op = "confirm" => LinesOf(q.order) # {}
    /\ q.op = "cancel" => /\ Ids(q.read) = LinesOf(q.order)
                          /\ o.state = "draft" \/ (o.state = "sended" /\ o.kind = "RET")
    /\ q.op = "receive" => /\ o.state = "sended" /\ o.kind \in {"CMD", "RET"}
                           /\ \E l \in DOMAIN lines :
                                /\ q.read = {[id |-> l, line |-> lines[l]]}
                                /\ lines[l].state = "pending"
                                /\ q.r + q.c \in 1 .. lines[l].ordered
                                /\ Sound(o.kind, lines[l].ordered, q.r, q.c)
    /\ q.op = "return" => /\ o.state = "sended" /\ o.kind = "RES"
                          /\ Ids(q.read) = {l \in LinesOf(q.order) : lines[l].state = "pending"}

TabCalm(t) ==
    /\ tabs[t].at = "page" => tabs[t].shown = orders[tabs[t].order].state
    /\ tabs[t].at = "posted" => FreshRequest(tabs[t])
    /\ tabs[t].at = "closing" => orders[tabs[t].order].state = "sended"

OrderCalm(o) ==
    orders[o].state = "sended" =>
      \/ \E l \in LinesOf(o) : lines[l].state = "pending"
      \/ /\ LinesOf(o) # {}
         /\ \E t \in Tabs : tabs[t].at = "closing" /\ tabs[t].order = o

CalmBody ==
    /\ OneTab
    /\ LinesCalm
    /\ \A t \in Tabs : TabCalm(t)
    /\ \A o \in Orders : OrderCalm(o)
    /\ \A obj \in Objects, k \in Amounts : Balanced(k, obj)

CalmInv == calm => CalmBody

-----------------------------------------------------------------------------

\* The types of the rows, and where they refer to, as the proofs below use them.
LEMMA RowsFacts ==
    ASSUME IInv
    PROVE  /\ lines \in Seq(Line) /\ moves \in Seq(Move)
           /\ Len(lines) \in Nat /\ Len(moves) \in Nat
           /\ DOMAIN lines = 1 .. Len(lines) /\ DOMAIN moves = 1 .. Len(moves)
           /\ \A l \in DOMAIN lines : /\ lines[l] \in Line /\ lines[l].order \in Orders
                                      /\ lines[l].move \in 0 .. Len(moves)
                                      /\ orders[lines[l].order] \in Row
           /\ \A m \in DOMAIN moves : moves[m] \in Move
           /\ \A o \in Orders : orders[o].kind \in AllKinds
<1>1. /\ lines \in Seq(Line) /\ moves \in Seq(Move)
      /\ Len(lines) \in Nat /\ Len(moves) \in Nat
      /\ DOMAIN lines = 1 .. Len(lines) /\ DOMAIN moves = 1 .. Len(moves)
      /\ \A m \in DOMAIN moves : moves[m] \in Move
      /\ \A l \in DOMAIN lines : lines[l] \in Line
  BY LenProperties, ElementOfSeq DEF IInv, RowsOK
<1>2. \A l \in DOMAIN lines : lines[l].order \in Orders /\ lines[l].move \in 0 .. Len(moves)
  BY <1>1 DEF IInv, LinesOK, LineOK, Line
<1>3. \A o \in Orders : orders[o] \in Row /\ orders[o].kind \in AllKinds
  BY DEF IInv, RowsOK, Row
<1> QED
  BY <1>1, <1>2, <1>3

\* A pending line weighs the movement an order of its kind makes for it.
LEMMA PendingWeight ==
    ASSUME NEW k \in Amounts, NEW obj, NEW kind \in AllKinds, NEW x \in Line, x.state = "pending"
    PROVE  LineWeight(k, obj, kind, x) =
             MoveWeight(k, obj, NewMove(MoveType(kind), x.obj, x.ordered))
BY DEF Amounts, AllKinds, LineWeight, MoveWeight, NewMove, MoveType

\* A received line of a supply or of a return weighs the movement that came in,
\* or went out.
LEMMA ReceivedWeight ==
    ASSUME NEW k \in Amounts, NEW obj, NEW kind \in {"CMD", "RET"}, NEW x \in Line,
           x.state = "received"
    PROVE  LineWeight(k, obj, kind, x) =
             MoveWeight(k, obj, NewMove(IF kind = "RET" THEN "out" ELSE "in", x.obj, x.received))
BY DEF Amounts, LineWeight, MoveWeight, NewMove

\* A line that waits for nothing and brought nothing weighs nothing.
LEMMA SettledIsZero ==
    ASSUME NEW k, NEW obj, NEW kind, NEW x \in Line,
           x.state \in {"cancelled", "deleted"} \/ (x.state = "received" /\ kind = "RES")
    PROVE  LineWeight(k, obj, kind, x) = 0
BY DEF LineWeight

\* Every line weighs its movement, but for the reservations given back.
LEMMA LineWeighsItsMove ==
    ASSUME IInv, LinesCalm, NEW k \in Amounts, NEW obj, NEW l \in DOMAIN lines,
           ~(lines[l].state = "received" /\ orders[lines[l].order].kind = "RES")
    PROVE  LineWeightAt(k, obj, l) =
             IF lines[l].move = 0 THEN 0 ELSE MoveWeight(k, obj, moves[lines[l].move])
<1> DEFINE x == lines[l]
           kind == orders[x.order].kind
<1>1. x \in Line /\ kind \in AllKinds /\ LineFits(x, orders[x.order], moves) /\ LineOK(l)
  BY RowsFacts DEF LinesCalm, IInv, LinesOK
<1>2. x.state \in LineStates
  BY <1>1 DEF Line
<1>3. CASE x.state = "pending"
  <2>1. x.move # 0 /\ moves[x.move] = NewMove(MoveType(kind), x.obj, x.ordered)
    BY <1>1, <1>3 DEF LineOK
  <2> QED
    BY <1>1, <1>3, <2>1, PendingWeight DEF LineWeightAt
<1>4. CASE x.state = "received"
  <2>1. kind \in {"CMD", "RET"}
    BY <1>1, <1>4 DEF AllKinds
  <2>2. /\ x.move # 0
        /\ moves[x.move] = NewMove(IF kind = "RET" THEN "out" ELSE "in", x.obj, x.received)
    BY <1>1, <1>4, <2>1 DEF LineFits
  <2> QED
    BY <1>1, <1>4, <2>1, <2>2, ReceivedWeight DEF LineWeightAt
<1>5. CASE x.state \in {"cancelled", "deleted"}
  <2>1. x.move = 0
    BY <1>1, <1>5 DEF LineFits
  <2> QED
    BY <1>1, <1>5, <2>1, SettledIsZero DEF LineWeightAt
<1> QED
  BY <1>2, <1>3, <1>4, <1>5 DEF LineStates

\* A line still fits when movements are added.
LEMMA FitsMore ==
    ASSUME NEW x, NEW o, NEW ms \in Seq(Move), NEW ns, Len(ns) \in Nat,
           \A i \in 1 .. Len(ms) : ns[i] = ms[i],
           x.move \in 0 .. Len(ms), LineFits(x, o, ms)
    PROVE  LineFits(x, o, ns)
<1>1. Len(ms) \in Nat
  BY LenProperties
<1>2. x.move # 0 => ns[x.move] = ms[x.move]
  BY <1>1
<1> QED
  BY <1>2 DEF LineFits

\* The other tabs are at home while one of them works.
LEMMA AloneAtWork ==
    ASSUME IInv, OneTab, NEW t \in Tabs, NEW x, tabs' = [tabs EXCEPT ![t] = x],
           tabs[t].at # "home" \/ \A u \in Tabs : tabs[u].at = "home"
    PROVE  /\ OneTab'
           /\ tabs'[t] = x
           /\ \A u \in Tabs : u # t => tabs[u].at = "home" /\ tabs'[u].at = "home"
<1>1. tabs'[t] = x /\ \A u \in Tabs : u # t => tabs'[u] = tabs[u]
  BY DEF IInv, RowsOK
<1>2. \A u \in Tabs : u # t => tabs[u].at = "home"
  BY DEF OneTab
<1> QED
  BY <1>1, <1>2 DEF OneTab

\* A commit that ends at home.
LEMMA DoneCalm ==
    ASSUME IInv, OneTab, NEW t \in Tabs, tabs[t].at # "home", Done(t)
    PROVE  /\ OneTab'
           /\ \A u \in Tabs : TabCalm(u)'
           /\ \A u \in Tabs : u # t => tabs[u].at = "home"
<1>1. /\ OneTab' /\ tabs'[t] = [at |-> "home"]
      /\ \A u \in Tabs : u # t => tabs[u].at = "home" /\ tabs'[u].at = "home"
  BY AloneAtWork DEF Done
<1>2. \A u \in Tabs : tabs'[u].at = "home"
  BY <1>1
<1> QED
  BY <1>1, <1>2 DEF TabCalm

\* The orders that were sent and are still open keep their lines.
LEMMA OrdersKept ==
    ASSUME IInv, CalmBody, NEW t \in Tabs, tabs[t].at # "closing",
           \A u \in Tabs : u # t => tabs[u].at = "home",
           \A o \in Orders : orders'[o].state = "sended" =>
             /\ orders[o].state = "sended"
             /\ \A l \in LinesOf(o) : l \in DOMAIN lines' /\ lines'[l] = lines[l]
    PROVE  \A o \in Orders : OrderCalm(o)'
<1> SUFFICES ASSUME NEW o \in Orders, orders'[o].state = "sended"
             PROVE  \E l \in LinesOf(o)' : lines'[l].state = "pending"
  BY DEF OrderCalm
<1>1. OrderCalm(o) /\ orders[o].state = "sended"
  BY DEF CalmBody
<1>2. \A u \in Tabs : tabs[u].at # "closing"
  OBVIOUS
<1>3. PICK l \in LinesOf(o) : lines[l].state = "pending"
  BY <1>1, <1>2 DEF OrderCalm
<1>4. l \in DOMAIN lines' /\ lines'[l] = lines[l]
  BY <1>1
<1> QED
  BY <1>3, <1>4 DEF LinesOf

\* As long as no movement is added, as much can be reserved.
LEMMA AllowedKept ==
    ASSUME moves' = moves
    PROVE  \A obj, qty : Allowed(obj, qty)' = Allowed(obj, qty)
<1>1. \A obj : Stock(obj)' = Stock(obj)
  BY Zenon DEF Stock, Total
<1>2. \A obj : Available(obj)' = Available(obj)
  BY <1>1 DEF Available
<1>3. \A obj : HasHistory(obj)' = HasHistory(obj)
  BY DEF HasHistory
<1> QED
  BY <1>2, <1>3 DEF Allowed

\* Nothing weighs more or less.
LEMMA BalanceKept ==
    ASSUME IInv, CalmBody, UNCHANGED <<lines, moves>>,
           \A o \in Orders : orders'[o].kind = orders[o].kind
    PROVE  \A obj \in Objects, k \in Amounts : Balanced(k, obj)'
<1> SUFFICES ASSUME NEW obj \in Objects, NEW k \in Amounts PROVE Balanced(k, obj)'
  OBVIOUS
<1>1. Balanced(k, obj)
  BY DEF CalmBody
<1>2. LinesWeight(k, obj, orders', lines) = LinesWeight(k, obj, orders, lines)
  BY RowsFacts, LinesSameKinds
<1> QED
  BY <1>1, <1>2 DEF Balanced

-----------------------------------------------------------------------------
\* Steps of a tab on its way from home to a request: the rows stay.
LEMMA TabCalmStep ==
    ASSUME IInv, CalmBody, NEW t \in Tabs, NEW x, tabs' = [tabs EXCEPT ![t] = x], UNCHANGED db,
           tabs[t].at # "home" \/ \A u \in Tabs : tabs[u].at = "home", tabs[t].at # "closing",
           x.at = "page" => x.shown = orders[x.order].state,
           x.at = "posted" => FreshRequest(x),
           x.at # "closing"
    PROVE  CalmBody'
<1>1. /\ OneTab' /\ tabs'[t] = x
      /\ \A u \in Tabs : u # t => tabs[u].at = "home" /\ tabs'[u].at = "home"
  BY AloneAtWork DEF CalmBody
<1>2. LinesCalm'
  BY DEF CalmBody, LinesCalm, db
<1>3. ASSUME NEW u \in Tabs PROVE TabCalm(u)'
  <2>1. CASE u # t
    BY <1>1, <2>1 DEF TabCalm
  <2>2. CASE u = t
    <3>1. FreshRequest(x) => FreshRequest(tabs[t])'
      <4>1. lines' = lines /\ moves' = moves /\ orders' = orders
        BY DEF db
      <4>2. \A o : LinesOf(o)' = LinesOf(o)
        BY <4>1 DEF LinesOf
      <4>3. \A obj, qty : Allowed(obj, qty)' = Allowed(obj, qty)
        BY <4>1, AllowedKept
      <4>4. FreshRead(x) => FreshRead(tabs[t])'
        BY <1>1, <4>1 DEF FreshRead
      <4> QED
        BY <1>1, <4>1, <4>2, <4>3, <4>4 DEF FreshRequest
    <3> QED
      BY <1>1, <2>2, <3>1 DEF TabCalm, db
  <2> QED
    BY <2>1, <2>2
<1>4. \A o \in Orders : OrderCalm(o)'
  <2>1. \A o \in Orders : orders'[o].state = "sended" =>
          /\ orders[o].state = "sended"
          /\ \A l \in LinesOf(o) : l \in DOMAIN lines' /\ lines'[l] = lines[l]
    BY DEF db, LinesOf
  <2> QED
    BY <1>1, <2>1, OrdersKept
<1>5. \A obj \in Objects, k \in Amounts : Balanced(k, obj)'
  BY BalanceKept DEF db
<1> QED
  BY <1>1, <1>2, <1>3, <1>4, <1>5 DEF CalmBody

\* Creating an order or opening a page weighs nothing, and the page that is
\* opened alone shows the state the order is in.
LEMMA BrowseCalm ==
    ASSUME IInv, CalmBody, calm, NEW t \in Tabs, Browse(t)
    PROVE  CalmBody'
<1>1. ASSUME NEW o \in Orders, CreateOrder(t, o) PROVE CalmBody'
  <2>1. /\ \A u \in Tabs : tabs[u].at = "home"
        /\ orders[o].state = "none" /\ orders'[o].state = "draft"
        /\ \A p \in Orders : orders'[p].kind = orders[p].kind
        /\ \A p \in Orders : p # o => orders'[p] = orders[p]
        /\ UNCHANGED <<lines, moves, tabs>>
    BY <1>1 DEF CreateOrder, Starts, IInv, RowsOK, Row
  <2>2. LinesCalm'
    <3> SUFFICES ASSUME NEW l \in DOMAIN lines
                 PROVE  LineFits(lines[l], orders'[lines[l].order], moves)
      BY <2>1 DEF LinesCalm
    <3>1. LineFits(lines[l], orders[lines[l].order], moves) /\ lines[l].order \in Orders
      BY RowsFacts DEF CalmBody, LinesCalm
    <3>2. lines[l].order # o
      BY <2>1, <3>1 DEF LineFits
    <3> QED
      BY <2>1, <3>1, <3>2
  <2>3. OneTab' /\ \A u \in Tabs : TabCalm(u)'
    BY <2>1 DEF CalmBody, OneTab, TabCalm
  <2>4. \A p \in Orders : OrderCalm(p)'
    <3>1. \A p \in Orders : orders'[p].state = "sended" =>
            /\ orders[p].state = "sended"
            /\ \A l \in LinesOf(p) : l \in DOMAIN lines' /\ lines'[l] = lines[l]
      BY <2>1 DEF LinesOf
    <3>2. \A u \in Tabs : u # t => tabs[u].at = "home"
      BY <2>1
    <3>3. tabs[t].at # "closing"
      BY <2>1
    <3> QED
      BY <3>1, <3>2, <3>3, OrdersKept
  <2>5. \A obj \in Objects, k \in Amounts : Balanced(k, obj)'
    BY <2>1, BalanceKept
  <2> QED
    BY <2>2, <2>3, <2>4, <2>5 DEF CalmBody
<1>2. ASSUME NEW o \in Orders, OpenPage(t, o) PROVE CalmBody'
  <2> DEFINE x == [at |-> "page", order |-> o, shown |-> orders[o].state, seen |-> Len(lines)]
  <2>1. tabs' = [tabs EXCEPT ![t] = x] /\ UNCHANGED db /\ \A u \in Tabs : tabs[u].at = "home"
    BY <1>2 DEF OpenPage, Starts
  <2>2. x.at = "page" /\ x.shown = orders[x.order].state
    OBVIOUS
  <2>3. tabs[t].at = "home"
    BY <2>1
  <2> HIDE DEF x
  <2> QED
    BY <2>1, <2>2, <2>3, TabCalmStep
<1>3. ASSUME ClosePage(t) PROVE CalmBody'
  <2> DEFINE x == [at |-> "home"]
  <2>1. tabs' = [tabs EXCEPT ![t] = x] /\ UNCHANGED db /\ tabs[t].at = "page" /\ x.at = "home"
    BY <1>3 DEF ClosePage
  <2> HIDE DEF x
  <2> QED
    BY <2>1, TabCalmStep
<1> QED
  BY <1>1, <1>2, <1>3 DEF Browse

\* Tab t is left with q, and the rows are left alone.
Puts(t, q) == tabs' = [tabs EXCEPT ![t] = q] /\ UNCHANGED db

\* A request that reads lines of its order reads them as they are.
LEMMA PostedFresh ==
    ASSUME NEW t \in Tabs, tabs[t].at = "page", NEW op, NEW ids, ids \subseteq LinesOf(tabs[t].order),
           NEW obj, NEW r, NEW c, Post(t, op, ids, obj, r, c)
    PROVE  \E q : /\ Puts(t, q)
                  /\ q.at = "posted" /\ q.order = tabs[t].order /\ q.op = op
                  /\ q.obj = obj /\ q.r = r /\ q.c = c
                  /\ q.read = {[id |-> l, line |-> lines[l]] : l \in ids}
                  /\ Ids(q.read) = ids
                  /\ FreshRead(q)
<1> DEFINE read == {[id |-> l, line |-> lines[l]] : l \in ids}
           backing == {[id |-> m, move |-> moves[m]] : m \in {lines[l].move : l \in ids} \ {0}}
           q == [at |-> "posted", order |-> tabs[t].order, op |-> op, read |-> read,
                 backing |-> backing, obj |-> obj, r |-> r, c |-> c]
<1>1. Puts(t, q)
  BY DEF Post, Puts
<1>2. Ids(read) = ids
  <2>1. \A l \in ids : [id |-> l, line |-> lines[l]].id = l
    OBVIOUS
  <2>2. \A i : i \in Ids(read) <=> \E l \in ids : i = [id |-> l, line |-> lines[l]].id
    BY Zenon DEF Ids
  <2> QED
    BY <2>1, <2>2
<1>3. \A row \in read : /\ row.id \in DOMAIN lines /\ row.line = lines[row.id]
                        /\ row.line.order = tabs[t].order /\ row.line.state # "deleted"
  BY DEF LinesOf
<1>4. /\ q.at = "posted" /\ q.order = tabs[t].order /\ q.op = op
      /\ q.obj = obj /\ q.r = r /\ q.c = c /\ q.read = read /\ q.backing = backing
  OBVIOUS
<1>5. FreshRead(q)
  <2>1. q.backing = {[id |-> m, move |-> moves[m]] : m \in {lines[l].move : l \in Ids(q.read)} \ {0}}
    BY <1>2, <1>4
  <2> HIDE DEF q, read
  <2> QED
    BY <1>3, <1>4, <2>1 DEF FreshRead
<1> HIDE DEF q
<1> QED
  BY <1>1, <1>2, <1>4, <1>5

\* A request posted by a fresh page is fresh.
LEMMA PostCalm ==
    ASSUME IInv, CalmBody, NEW t \in Tabs, tabs[t].at = "page",
           NEW q, Puts(t, q), q.at = "posted", FreshRequest(q)
    PROVE  CalmBody'
BY TabCalmStep DEF Puts

\* A request that is posted alone reads what its page shows.
LEMMA SubmitCalm ==
    ASSUME IInv, CalmBody, calm, NEW t \in Tabs, Submit(t)
    PROVE  CalmBody'
<1> DEFINE o == tabs[t].order
<1>1. tabs[t].at = "page" => tabs[t].shown = orders[o].state
  BY DEF CalmBody, TabCalm
<1>2. Displayed(t) \subseteq LinesOf(o) /\ Displayed(t) \subseteq DOMAIN lines
  BY DEF Displayed, LinesOf
<1>3. CASE PostConfirm(t)
  <2>1. /\ tabs[t].at = "page" /\ orders[o].state = "draft" /\ LinesOf(o) # {}
        /\ Post(t, "confirm", {}, AnyObject, 0, 0)
    BY <1>3 DEF PostConfirm, Shows
  <2>2. {} \subseteq LinesOf(o)
    OBVIOUS
  <2> DEFINE none == {}
  <2>5. tabs[t].at = "page" /\ none \subseteq LinesOf(o) /\ Post(t, "confirm", none, AnyObject, 0, 0)
    BY <2>1
  <2> HIDE DEF none
  <2>3. PICK q : /\ Puts(t, q)
                 /\ q.at = "posted" /\ q.order = o /\ q.op = "confirm" /\ FreshRead(q)
    BY <2>5, PostedFresh
  <2>4. FreshRequest(q)
    BY <2>1, <2>3 DEF FreshRequest
  <2> QED
    BY <2>1, <2>3, <2>4, PostCalm
<1>4. CASE PostCancel(t)
  <2>1. /\ tabs[t].at = "page"
        /\ orders[o].state = "draft" \/ (orders[o].state = "sended" /\ orders[o].kind = "RET")
        /\ Post(t, "cancel", LinesOf(o), AnyObject, 0, 0)
    BY <1>1, <1>4 DEF PostCancel, Shows
  <2>2. LinesOf(o) \subseteq LinesOf(o)
    OBVIOUS
  <2>3. PICK q : /\ Puts(t, q)
                 /\ q.at = "posted" /\ q.order = o /\ q.op = "cancel"
                 /\ Ids(q.read) = LinesOf(o) /\ FreshRead(q)
    BY <2>1, <2>2, PostedFresh
  <2>4. FreshRequest(q)
    BY <2>1, <2>3 DEF FreshRequest
  <2> QED
    BY <2>1, <2>3, <2>4, PostCalm
<1>5. CASE PostReturn(t)
  <2> DEFINE ids == {l \in LinesOf(o) : lines[l].state = "pending" /\ lines[l].move # 0}
  <2>1. /\ tabs[t].at = "page" /\ orders[o].state = "sended" /\ orders[o].kind = "RES"
        /\ Post(t, "return", ids, AnyObject, 0, 0)
    BY <1>1, <1>5 DEF PostReturn, Shows
  <2>2. ids \subseteq LinesOf(o)
    OBVIOUS
  <2>3. ids = {l \in LinesOf(o) : lines[l].state = "pending"}
    BY DEF IInv, LinesOK, LineOK, LinesOf
  <2> HIDE DEF ids
  <2>4. PICK q : /\ Puts(t, q)
                 /\ q.at = "posted" /\ q.order = o /\ q.op = "return"
                 /\ Ids(q.read) = ids /\ FreshRead(q)
    BY <2>1, <2>2, PostedFresh
  <2>5. FreshRequest(q)
    BY <2>1, <2>3, <2>4 DEF FreshRequest
  <2> QED
    BY <2>1, <2>4, <2>5, PostCalm
<1>6. ASSUME NEW obj \in Objects, NEW qty \in 1 .. MaxQty, PostCreate(t, obj, qty) PROVE CalmBody'
  <2>1. /\ tabs[t].at = "page" /\ orders[o].state = "draft"
        /\ orders[o].kind = "RES" => Allowed(obj, qty)
        /\ Post(t, "create", {}, obj, qty, 0)
    BY <1>1, <1>6 DEF PostCreate, Shows, Allowed
  <2>2. {} \subseteq LinesOf(o) /\ qty >= 1
    BY OrdersAssumption
  <2> DEFINE none == {}
  <2>5. tabs[t].at = "page" /\ none \subseteq LinesOf(o) /\ Post(t, "create", none, obj, qty, 0)
    BY <2>1
  <2> HIDE DEF none
  <2>3. PICK q : /\ Puts(t, q)
                 /\ q.at = "posted" /\ q.order = o /\ q.op = "create"
                 /\ q.obj = obj /\ q.r = qty /\ FreshRead(q)
    BY <2>5, PostedFresh
  <2>4. FreshRequest(q)
    BY <2>1, <2>2, <2>3 DEF FreshRequest
  <2> QED
    BY <2>1, <2>3, <2>4, PostCalm
<1>7. ASSUME NEW l \in DOMAIN lines, PostDelete(t, l) PROVE CalmBody'
  <2>1. /\ tabs[t].at = "page" /\ orders[o].state = "draft" /\ {l} \subseteq LinesOf(o)
        /\ Post(t, "delete", {l}, AnyObject, 0, 0)
    BY <1>1, <1>2, <1>7 DEF PostDelete, Shows
  <2> DEFINE ids == {l}
  <2>5. tabs[t].at = "page" /\ ids \subseteq LinesOf(o) /\ Post(t, "delete", ids, AnyObject, 0, 0)
    BY <2>1
  <2> HIDE DEF ids
  <2>2. PICK q : /\ Puts(t, q)
                 /\ q.at = "posted" /\ q.order = o /\ q.op = "delete" /\ FreshRead(q)
    BY <2>5, PostedFresh
  <2>3. FreshRequest(q)
    BY <2>1, <2>2 DEF FreshRequest
  <2> QED
    BY <2>1, <2>2, <2>3, PostCalm
<1>8. ASSUME NEW l \in DOMAIN lines, NEW obj \in Objects, NEW qty \in 1 .. MaxQty,
             PostEdit(t, l, obj, qty)
      PROVE  CalmBody'
  <2>1. /\ tabs[t].at = "page" /\ orders[o].state = "draft" /\ {l} \subseteq LinesOf(o)
        /\ Post(t, "edit", {l}, obj, qty, 0) /\ qty >= 1 /\ orders[o].kind # "RES"
    BY <1>1, <1>2, <1>8, OrdersAssumption DEF PostEdit, Shows
  <2> DEFINE ids == {l}
  <2>5. tabs[t].at = "page" /\ ids \subseteq LinesOf(o) /\ Post(t, "edit", ids, obj, qty, 0)
    BY <2>1
  <2> HIDE DEF ids
  <2>2. PICK q : /\ Puts(t, q)
                 /\ q.at = "posted" /\ q.order = o /\ q.op = "edit" /\ q.r = qty
                 /\ q.read = {[id |-> i, line |-> lines[i]] : i \in ids} /\ FreshRead(q)
    BY <2>5, PostedFresh
  <2>3. q.read = {[id |-> l, line |-> lines[l]]}
    BY <2>2 DEF ids
  <2>4. FreshRequest(q)
    BY <2>1, <2>2, <2>3 DEF FreshRequest
  <2> QED
    BY <2>1, <2>2, <2>4, PostCalm
<1>9. ASSUME NEW l \in DOMAIN lines, NEW r \in 0 .. MaxQty, NEW c \in 0 .. MaxQty,
             PostReceive(t, l, r, c)
      PROVE  CalmBody'
  <2>1. /\ tabs[t].at = "page" /\ orders[o].state = "sended" /\ {l} \subseteq LinesOf(o)
        /\ orders[o].kind \in {"CMD", "RET"} /\ lines[l].state = "pending"
        /\ r + c \in 1 .. lines[l].ordered /\ Sound(orders[o].kind, lines[l].ordered, r, c)
        /\ Post(t, "receive", {l}, AnyObject, r, c)
    BY <1>1, <1>2, <1>9 DEF PostReceive, Shows
  <2> DEFINE ids == {l}
  <2>5. tabs[t].at = "page" /\ ids \subseteq LinesOf(o) /\ Post(t, "receive", ids, AnyObject, r, c)
    BY <2>1
  <2> HIDE DEF ids
  <2>2. PICK q : /\ Puts(t, q)
                 /\ q.at = "posted" /\ q.order = o /\ q.op = "receive"
                 /\ q.obj = AnyObject /\ q.r = r /\ q.c = c
                 /\ q.read = {[id |-> i, line |-> lines[i]] : i \in ids}
                 /\ Ids(q.read) = ids
                 /\ FreshRead(q)
    BY <2>5, PostedFresh
  <2>3. q.read = {[id |-> l, line |-> lines[l]]}
    BY <2>2 DEF ids
  <2>4. FreshRequest(q)
    BY <2>1, <2>2, <2>3 DEF FreshRequest
  <2> QED
    BY <2>1, <2>2, <2>4, PostCalm
<1> QED
  BY <1>3, <1>4, <1>5, <1>6, <1>7, <1>8, <1>9 DEF Submit

-----------------------------------------------------------------------------
\* Steps that only change the state of the order: confirm_order and
\* _check_order_completion; a failed commit.
LEMMA FailCalm ==
    ASSUME IInv, CalmBody, NEW t \in Tabs, Fail(t)
    PROVE  CalmBody'
<1>1. tabs[t].at = "posted" /\ Done(t) /\ UNCHANGED db
  BY DEF Fail
<1> DEFINE x == [at |-> "home"]
<1>2. tabs' = [tabs EXCEPT ![t] = x] /\ x.at = "home"
  BY <1>1 DEF Done
<1> HIDE DEF x
<1> QED
  BY <1>1, <1>2, TabCalmStep

\* Confirming an order weighs nothing.
LEMMA ConfirmCalm ==
    ASSUME IInv, CalmBody, NEW t \in Tabs, CommitConfirm(t)
    PROVE  CalmBody'
<1> DEFINE o == tabs[t].order
<1>1. /\ tabs[t].at = "posted" /\ tabs[t].op = "confirm" /\ Done(t) /\ o \in Orders
      /\ UNCHANGED <<lines, moves>> /\ orders' = [orders EXCEPT ![o].state = "sended"]
  BY PostedType DEF CommitConfirm, Committing, IInv, Request
<1>2. orders[o].state = "draft" /\ LinesOf(o) # {}
  BY <1>1 DEF CalmBody, TabCalm, FreshRequest
<1>3. /\ orders'[o].state = "sended"
      /\ \A p \in Orders : orders'[p].kind = orders[p].kind
      /\ \A p \in Orders : p # o => orders'[p] = orders[p]
  BY <1>1 DEF IInv, RowsOK, Row
<1>4. OneTab' /\ (\A u \in Tabs : TabCalm(u)') /\ \A u \in Tabs : u # t => tabs[u].at = "home"
  BY <1>1, DoneCalm DEF CalmBody
<1>5. LinesCalm'
  <2> SUFFICES ASSUME NEW l \in DOMAIN lines
               PROVE  LineFits(lines[l], orders'[lines[l].order], moves)
    BY <1>1 DEF LinesCalm
  <2>1. /\ LineFits(lines[l], orders[lines[l].order], moves)
        /\ lines[l].order \in Orders /\ lines[l] \in Line
    BY RowsFacts DEF CalmBody, LinesCalm
  <2>2. CASE lines[l].order = o
    BY <1>2, <1>3, <2>1, <2>2 DEF LineFits
  <2>3. CASE lines[l].order # o
    BY <1>3, <2>1, <2>3
  <2> QED
    BY <2>2, <2>3
<1>6. ASSUME NEW p \in Orders, orders'[p].state = "sended"
      PROVE  \E l \in LinesOf(p)' : lines'[l].state = "pending"
  <2>1. LinesOf(p)' = LinesOf(p)
    BY <1>1 DEF LinesOf
  <2>2. CASE p = o
    <3>1. PICK l \in LinesOf(o) : TRUE
      BY <1>2
    <3>2. lines[l].state = "pending"
      BY <1>2, <3>1 DEF LinesOf, CalmBody, LinesCalm, LineFits
    <3> QED
      BY <1>1, <2>1, <2>2, <3>2
  <2>3. CASE p # o
    <3>1. OrderCalm(p) /\ orders[p].state = "sended"
      BY <1>3, <1>6, <2>3 DEF CalmBody
    <3>2. \A u \in Tabs : tabs[u].at # "closing"
      BY <1>1, <1>4
    <3> QED
      BY <1>1, <2>1, <3>1, <3>2 DEF OrderCalm
  <2> QED
    BY <2>2, <2>3
<1>7. \A p \in Orders : OrderCalm(p)'
  BY <1>6 DEF OrderCalm
<1>8. \A obj \in Objects, k \in Amounts : Balanced(k, obj)'
  BY <1>1, <1>3, BalanceKept
<1> QED
  BY <1>4, <1>5, <1>7, <1>8 DEF CalmBody

\* Closing an order leaves no line of it pending: nothing weighs differently.
LEMMA CloseCalm ==
    ASSUME IInv, CalmBody, NEW t \in Tabs, Close(t)
    PROVE  CalmBody'
<1> DEFINE o == tabs[t].order
           states == {lines[l].state : l \in LinesOf(o)}
<1>1. /\ tabs[t].at = "closing" /\ Done(t) /\ o \in Orders /\ UNCHANGED <<lines, moves>>
      /\ orders' = IF Exists(o) /\ states # {} /\ states \subseteq {"received", "cancelled"}
                     THEN [orders EXCEPT ![o].state =
                             IF states = {"cancelled"} THEN "cancelled" ELSE "received"]
                     ELSE orders
  BY DEF Close, IInv, RowsOK, Tab, Request
<1>2. orders[o].state = "sended" /\ Exists(o)
  BY <1>1 DEF CalmBody, TabCalm, Exists
<1>3. /\ \A p \in Orders : orders'[p].kind = orders[p].kind
      /\ \A p \in Orders : p # o => orders'[p] = orders[p]
      /\ \/ /\ states \subseteq {"received", "cancelled"}
            /\ orders'[o].state \in {"received", "cancelled"}
            /\ orders'[o].state = "cancelled" => states = {"cancelled"}
         \/ /\ orders'[o] = orders[o]
            /\ states = {} \/ ~(states \subseteq {"received", "cancelled"})
  <2> HIDE DEF states
  <2>1. CASE states # {} /\ states \subseteq {"received", "cancelled"}
    BY <1>1, <1>2, <2>1 DEF IInv, RowsOK, Row
  <2>2. CASE ~(states # {} /\ states \subseteq {"received", "cancelled"})
    BY <1>1, <2>2
  <2> QED
    BY <2>1, <2>2
<1>4. OneTab' /\ (\A u \in Tabs : TabCalm(u)') /\ \A u \in Tabs : u # t => tabs[u].at = "home"
  BY <1>1, DoneCalm DEF CalmBody
<1>5. LinesCalm'
  <2> SUFFICES ASSUME NEW l \in DOMAIN lines
               PROVE  LineFits(lines[l], orders'[lines[l].order], moves)
    BY <1>1 DEF LinesCalm
  <2>1. /\ LineFits(lines[l], orders[lines[l].order], moves)
        /\ lines[l].order \in Orders /\ lines[l] \in Line
    BY RowsFacts DEF CalmBody, LinesCalm
  <2>2. CASE lines[l].order = o /\ orders'[o] # orders[o]
    <3>1. lines[l].state = "deleted" \/ lines[l].state \in states
      BY <2>2 DEF LinesOf
    <3>2. lines[l].state \in {"deleted", "received", "cancelled"}
      BY <1>3, <2>2, <3>1
    <3>3. orders'[o].kind = orders[o].kind /\ orders'[o].state \in {"received", "cancelled"}
      BY <1>1, <1>3, <2>2
    <3> HIDE DEF states
    <3> QED
      BY <1>2, <2>1, <2>2, <3>2, <3>3 DEF LineFits
  <2>3. CASE orders'[lines[l].order] = orders[lines[l].order]
    BY <2>1, <2>3
  <2> QED
    BY <1>3, <2>1, <2>2, <2>3
<1>6. ASSUME NEW p \in Orders, orders'[p].state = "sended"
      PROVE  \E l \in LinesOf(p)' : lines'[l].state = "pending"
  <2>1. LinesOf(p)' = LinesOf(p) /\ OrderCalm(p)
    BY <1>1 DEF LinesOf, CalmBody
  <2>2. CASE p = o
    <3>1. LinesOf(o) # {}
      BY <1>2, <2>1, <2>2 DEF OrderCalm
    <3>2. states # {}
      BY <3>1
    <3>3. PICK l \in LinesOf(o) : lines[l].state \notin {"received", "cancelled"}
      BY <1>3, <1>6, <2>2, <3>2
    <3>4. lines[l].state \in LineStates /\ lines[l].state # "deleted"
      BY RowsFacts DEF LinesOf, Line
    <3> QED
      BY <1>1, <2>1, <2>2, <3>3, <3>4 DEF LineStates
  <2>3. CASE p # o
    <3>1. OrderCalm(p) /\ orders[p].state = "sended"
      BY <1>3, <1>6, <2>1, <2>3
    <3>2. \A u \in Tabs : tabs[u].at = "closing" => tabs[u].order # p
      BY <1>1, <1>4, <2>3
    <3> QED
      BY <1>1, <2>1, <3>1, <3>2 DEF OrderCalm
  <2> QED
    BY <2>2, <2>3
<1>7. \A p \in Orders : OrderCalm(p)'
  BY <1>6 DEF OrderCalm
<1>8. \A obj \in Objects, k \in Amounts : Balanced(k, obj)'
  BY <1>1, <1>3, BalanceKept
<1> QED
  BY <1>4, <1>5, <1>7, <1>8 DEF CalmBody

\* A line of a draft, with its movement.
LEMMA CreateCalm ==
    ASSUME IInv, CalmBody, NEW t \in Tabs, CommitCreate(t)
    PROVE  CalmBody'
<1> DEFINE q == tabs[t]
           kind == orders[q.order].kind
           m == NewMove(MoveType(kind), q.obj, q.r)
           n == NewLine(q.order, q.obj, "pending", q.r, Len(moves) + 1)
<1>1. /\ tabs[t].at = "posted" /\ tabs[t].op = "create" /\ Done(t) /\ orders' = orders
      /\ moves' = Append(moves, m)
      /\ lines' = Append(lines, n)
  BY DEF CommitCreate, Committing
<1>2. orders[q.order].state = "draft" /\ q.r >= 1
  BY <1>1 DEF CalmBody, TabCalm, FreshRequest
<1>3. q.order \in Orders /\ q.obj \in Objects /\ q.r \in Int /\ kind \in AllKinds
  BY <1>1, PostedType, RowsFacts DEF IInv, Request
<1>4. /\ lines \in Seq(Line) /\ moves \in Seq(Move)
      /\ Len(lines) \in Nat /\ Len(moves) \in Nat
      /\ DOMAIN lines = 1 .. Len(lines)
  BY RowsFacts
<1>5. m \in Move /\ n \in Line
  <2>1. Len(moves) + 1 \in Nat /\ "pending" \in LineStates /\ MoveType(kind) \in MoveTypes
    BY <1>3, <1>4, MoveTypeType DEF LineStates
  <2> QED
    BY <1>3, <2>1, NewMoveType, NewLineType
<1>6. /\ n.state = "pending" /\ n.order = q.order /\ n.ordered = q.r /\ n.move = Len(moves) + 1
      /\ m = NewMove(MoveType(orders[n.order].kind), n.obj, n.ordered)
  BY DEF NewLine
<1> HIDE DEF m, n
<1>7. /\ lines' \in Seq(Line) /\ moves' \in Seq(Move)
      /\ Len(lines') = Len(lines) + 1 /\ Len(moves') = Len(moves) + 1
      /\ DOMAIN lines' = 1 .. Len(lines')
      /\ \A l \in 1 .. Len(lines) : lines'[l] = lines[l]
      /\ lines'[Len(lines) + 1] = n /\ \A i \in 1 .. Len(moves) : moves'[i] = moves[i]
  BY <1>1, <1>4, <1>5, AppendProperties, LenProperties
<1>8. /\ moves' = moves \o <<m>> /\ <<m>> \in Seq(Move)
      /\ lines' = lines \o <<n>> /\ <<n>> \in Seq(Line)
  <2>1. Append(moves, m) = moves \o <<m>> /\ Append(lines, n) = lines \o <<n>>
    BY <1>4, <1>5, AppendIsConcat
  <2>2. <<m>> \in Seq(Move) /\ <<n>> \in Seq(Line)
    BY <1>5
  <2> QED
    BY <1>1, <2>1, <2>2
<1>9. OneTab' /\ (\A u \in Tabs : TabCalm(u)') /\ \A u \in Tabs : u # t => tabs[u].at = "home"
  BY <1>1, DoneCalm DEF CalmBody
<1>10. LinesCalm'
  <2> SUFFICES ASSUME NEW l \in DOMAIN lines'
               PROVE  LineFits(lines'[l], orders[lines'[l].order], moves')
    BY <1>1 DEF LinesCalm
  <2>1. CASE l \in DOMAIN lines
    <3>1. /\ LineFits(lines[l], orders[lines[l].order], moves) /\ lines[l].move \in 0 .. Len(moves)
          /\ lines'[l] = lines[l]
      BY <1>4, <1>7, <2>1, RowsFacts DEF CalmBody, LinesCalm
    <3>2. Len(moves') \in Nat
      BY <1>4, <1>7
    <3> QED
      BY <1>4, <1>7, <3>1, <3>2, FitsMore
  <2>2. CASE l \notin DOMAIN lines
    <3>1. lines'[l] = n
      BY <1>4, <1>7, <2>2
    <3> QED
      BY <1>2, <1>6, <3>1 DEF LineFits
  <2> QED
    BY <2>1, <2>2
<1>11. \A o \in Orders : OrderCalm(o)'
  <2>1. \A o \in Orders : orders'[o].state = "sended" =>
          /\ orders[o].state = "sended"
          /\ \A l \in LinesOf(o) : l \in DOMAIN lines' /\ lines'[l] = lines[l]
    BY <1>1, <1>4, <1>7 DEF LinesOf
  <2> QED
    BY <1>1, <1>9, <2>1, OrdersKept
<1>12. ASSUME NEW obj \in Objects, NEW k \in Amounts PROVE Balanced(k, obj)'
  <2>1. /\ MovesWeight(k, obj, moves') = MovesWeight(k, obj, moves) + MovesWeight(k, obj, <<m>>)
        /\ LinesWeight(k, obj, orders, lines') =
             LinesWeight(k, obj, orders, lines) + LinesWeight(k, obj, orders, <<n>>)
    BY <1>4, <1>8, MovesConcat, LinesConcat
  <2>2. /\ MovesWeight(k, obj, <<m>>) = MoveWeight(k, obj, m)
        /\ LinesWeight(k, obj, orders, <<n>>) = LineWeight(k, obj, orders[n.order].kind, n)
    BY <1>5, MovesFew, LinesFew
  <2>3. LineWeight(k, obj, orders[n.order].kind, n) = MoveWeight(k, obj, m)
    BY <1>3, <1>5, <1>6, PendingWeight
  <2>4. Balanced(k, obj)
    BY DEF CalmBody
  <2> QED
    BY <1>1, <2>1, <2>2, <2>3, <2>4 DEF Balanced
<1> QED
  BY <1>9, <1>10, <1>11, <1>12 DEF CalmBody

\* What was read is what is edited: the line and its movement become what the
\* form asks for.
LEMMA EditCalm ==
    ASSUME IInv, CalmBody, NEW t \in Tabs, CommitEdit(t)
    PROVE  CalmBody'
<1> DEFINE q == tabs[t]
<1>1. q.at = "posted" /\ q.op = "edit" /\ Done(t) /\ orders' = orders
  BY DEF CommitEdit, Committing
<1>2. /\ lines \in Seq(Line) /\ moves \in Seq(Move)
      /\ Len(lines) \in Nat /\ Len(moves) \in Nat
      /\ DOMAIN lines = 1 .. Len(lines) /\ DOMAIN moves = 1 .. Len(moves)
      /\ \A l \in DOMAIN lines : lines[l] \in Line
      /\ \A m \in DOMAIN moves : moves[m] \in Move
  BY RowsFacts
<1>3. PICK row \in q.read, own \in q.backing :
        /\ lines' = [lines EXCEPT ![row.id].obj = Changed(row.line.obj, q.obj, @),
                                  ![row.id].ordered = Changed(row.line.ordered, q.r, @)]
        /\ moves' = [moves EXCEPT ![own.id].obj = Changed(own.move.obj, q.obj, @),
                                  ![own.id].qty = Changed(own.move.qty, q.r, @)]
  BY DEF CommitEdit
<1>4. q.order \in Orders /\ q.obj \in Objects /\ q.r \in Int /\ q.r >= 1
      /\ orders[q.order].state = "draft" /\ FreshRead(q)
  <2>1. q.order \in Orders /\ q.obj \in Objects /\ q.r \in Int
    BY <1>1, PostedType DEF IInv, Request
  <2>2. FreshRequest(q)
    BY <1>1 DEF CalmBody, TabCalm
  <2> QED
    BY <1>1, <2>1, <2>2 DEF FreshRequest
<1>5. /\ row.id \in DOMAIN lines /\ row.line = lines[row.id]
      /\ lines[row.id].order = q.order /\ lines[row.id].state # "deleted"
  BY <1>4 DEF FreshRead
<1>6. /\ lines[row.id].state = "pending" /\ lines[row.id].move # 0
      /\ moves[lines[row.id].move] = NewMove(MoveType(orders[q.order].kind),
                                             lines[row.id].obj, lines[row.id].ordered)
  <2>1. LineFits(lines[row.id], orders[q.order], moves) /\ LineOK(row.id)
    BY <1>5 DEF CalmBody, LinesCalm, IInv, LinesOK
  <2>2. lines[row.id].state = "pending"
    BY <1>4, <1>5, <2>1 DEF LineFits
  <2> QED
    BY <1>5, <2>1, <2>2 DEF LineOK
<1>7. own.id = lines[row.id].move /\ own.id \in DOMAIN moves /\ own.move = moves[own.id]
  <2>1. EditOK(row, own)
    BY <1>1, <1>3 DEF IInv, RequestOK
  <2>2. own.id = lines[row.id].move /\ own.id \in DOMAIN moves
    BY <1>2, <1>6, <2>1 DEF EditOK
  <2>3. own.move = moves[own.id]
    BY <1>3, <1>4 DEF FreshRead
  <2> QED
    BY <2>2, <2>3
<1> DEFINE line == [lines[row.id] EXCEPT !.obj = q.obj, !.ordered = q.r]
           move == [moves[own.id] EXCEPT !.obj = q.obj, !.qty = q.r]
<1>8. lines' = [lines EXCEPT ![row.id] = line] /\ moves' = [moves EXCEPT ![own.id] = move]
  <2>1. lines' = [lines EXCEPT ![row.id] = line]
    <3>1. /\ Changed(row.line.obj, q.obj, lines[row.id].obj) = q.obj
          /\ Changed(row.line.ordered, q.r, lines[row.id].ordered) = q.r
      BY <1>5 DEF Changed
    <3> QED
      BY <1>2, <1>3, <1>5, <3>1 DEF Line
  <2>2. moves' = [moves EXCEPT ![own.id] = move]
    <3>1. /\ Changed(own.move.obj, q.obj, moves[own.id].obj) = q.obj
          /\ Changed(own.move.qty, q.r, moves[own.id].qty) = q.r
      BY <1>7 DEF Changed
    <3> QED
      BY <1>2, <1>3, <1>7, <3>1 DEF Move
  <2> QED
    BY <2>1, <2>2
<1>9. line \in Line /\ move \in Move
  <2>1. line \in Line
    BY <1>2, <1>4, <1>5 DEF Line
  <2>2. move \in Move
    BY <1>2, <1>4, <1>7 DEF Move
  <2> QED
    BY <2>1, <2>2
<1>10. /\ line.state = "pending" /\ line.order = q.order /\ line.move = own.id
       /\ line.obj = q.obj /\ line.ordered = q.r
  BY <1>2, <1>5, <1>6, <1>7 DEF Line
<1>11. move = NewMove(MoveType(orders[q.order].kind), q.obj, q.r)
  <2>1. moves[own.id] \in Move /\ moves[own.id].type = MoveType(orders[q.order].kind)
    BY <1>2, <1>6, <1>7 DEF NewMove
  <2>2. move.type = MoveType(orders[q.order].kind) /\ move.obj = q.obj /\ move.qty = q.r
    BY <2>1 DEF Move
  <2> HIDE DEF move
  <2> QED
    BY <1>9, <2>2, MoveIsNew
<1> HIDE DEF line, move
<1>12. /\ lines' \in Seq(Line) /\ moves' \in Seq(Move)
       /\ DOMAIN lines' = DOMAIN lines /\ Len(moves') = Len(moves) /\ Len(lines') = Len(lines)
       /\ lines'[row.id] = line /\ moves'[own.id] = move
       /\ \A l \in DOMAIN lines : l # row.id => lines'[l] = lines[l]
       /\ \A m \in DOMAIN moves : m # own.id => moves'[m] = moves[m]
  <2>1. /\ lines' \in Seq(Line) /\ moves' \in Seq(Move)
        /\ Len(moves') = Len(moves) /\ Len(lines') = Len(lines)
    BY <1>2, <1>5, <1>7, <1>8, <1>9, ExceptSeq
  <2> QED
    BY <1>2, <1>5, <1>7, <1>8, <2>1
<1>13. OneTab' /\ (\A u \in Tabs : TabCalm(u)') /\ \A u \in Tabs : u # t => tabs[u].at = "home"
  BY <1>1, DoneCalm DEF CalmBody
<1>14. LinesCalm'
  <2> SUFFICES ASSUME NEW l \in DOMAIN lines
               PROVE  LineFits(lines'[l], orders[lines'[l].order], moves')
    BY <1>1, <1>12 DEF LinesCalm
  <2>1. CASE l = row.id
    BY <1>4, <1>10, <1>12, <2>1 DEF LineFits
  <2>2. CASE l # row.id
    <3>1. LineFits(lines[l], orders[lines[l].order], moves) /\ lines'[l] = lines[l]
      BY <1>12, <2>2 DEF CalmBody, LinesCalm
    <3>2. lines[l].move # own.id /\ lines[l].move \in 0 .. Len(moves)
      BY <1>5, <1>6, <1>7, <2>2, RowsFacts DEF IInv, LinesOK, LineOK
    <3>3. lines[l].move # 0 => moves'[lines[l].move] = moves[lines[l].move]
      BY <1>2, <1>12, <3>2
    <3> QED
      BY <3>1, <3>3 DEF LineFits
  <2> QED
    BY <2>1, <2>2
<1>15. \A o \in Orders : OrderCalm(o)'
  <2>1. \A o \in Orders : orders'[o].state = "sended" =>
          /\ orders[o].state = "sended"
          /\ \A l \in LinesOf(o) : l \in DOMAIN lines' /\ lines'[l] = lines[l]
    BY <1>1, <1>4, <1>5, <1>12 DEF LinesOf
  <2> QED
    BY <1>1, <1>13, <2>1, OrdersKept
<1>16. ASSUME NEW obj \in Objects, NEW k \in Amounts PROVE Balanced(k, obj)'
  <2> DEFINE kind == orders[q.order].kind
  <2>1. MovesWeight(k, obj, moves') = MovesWeight(k, obj, moves)
          - MoveWeight(k, obj, moves[own.id]) + MoveWeight(k, obj, move)
    <3> DEFINE ms == moves
               ns == moves'
               m == own.id
    <3>1. /\ ms \in Seq(Move) /\ ns \in Seq(Move) /\ Len(ns) = Len(ms) /\ ns[m] = move
          /\ m \in 1 .. Len(ms) /\ \A i \in 1 .. Len(ms) : i # m => ns[i] = ms[i]
      BY <1>2, <1>7, <1>12
    <3> HIDE DEF ms, ns, m
    <3>2. MovesWeight(k, obj, ns) = MovesWeight(k, obj, ms)
            - MoveWeight(k, obj, ms[m]) + MoveWeight(k, obj, ns[m])
      BY <3>1, MovesChanged
    <3> QED
      BY <3>1, <3>2 DEF ms, ns, m
  <2>2. LinesWeight(k, obj, orders, lines') = LinesWeight(k, obj, orders, lines)
          - LineWeight(k, obj, kind, lines[row.id]) + LineWeight(k, obj, kind, line)
    <3>1. LinesWeight(k, obj, orders, lines') = LinesWeight(k, obj, orders, lines)
            - LineWeight(k, obj, orders[lines[row.id].order].kind, lines[row.id])
            + LineWeight(k, obj, orders[lines'[row.id].order].kind, lines'[row.id])
      <4> DEFINE os == orders
                 ls == lines
                 ns == lines'
                 l == row.id
      <4>1. /\ ls \in Seq(Line) /\ ns \in Seq(Line) /\ Len(ns) = Len(ls)
            /\ l \in 1 .. Len(ls) /\ \A i \in 1 .. Len(ls) : i # l => ns[i] = ls[i]
        BY <1>2, <1>5, <1>12
      <4> HIDE DEF os, ls, ns, l
      <4>2. LinesWeight(k, obj, os, ns) = LinesWeight(k, obj, os, ls)
              - WeightOf(k, obj, os, ls[l]) + WeightOf(k, obj, os, ns[l])
        BY <4>1, LinesChanged
      <4> QED
        BY <4>2 DEF os, ls, ns, l, WeightOf
    <3> QED
      BY <1>5, <1>10, <1>12, <3>1
  <2>3. kind \in AllKinds
    BY <1>4, RowsFacts
  <2>4. LineWeight(k, obj, kind, lines[row.id]) = MoveWeight(k, obj, moves[own.id])
    <3>1. lines[row.id] \in Line
      BY <1>2, <1>5
    <3> QED
      BY <1>6, <1>7, <2>3, <3>1, PendingWeight
  <2>5. LineWeight(k, obj, kind, line) = MoveWeight(k, obj, move)
    BY <1>9, <1>10, <1>11, <2>3, PendingWeight
  <2>6. Balanced(k, obj)
    BY DEF CalmBody
  <2>7. Balanced(k, obj)' <=> MovesWeight(k, obj, moves') = LinesWeight(k, obj, orders, lines')
    BY <1>1 DEF Balanced
  <2> QED
    BY <2>1, <2>2, <2>4, <2>5, <2>6, <2>7 DEF Balanced
<1> QED
  BY <1>13, <1>14, <1>15, <1>16 DEF CalmBody

-----------------------------------------------------------------------------
\* Once the lines that were read weigh nothing any more, the movements and
\* their compensations weigh what is left.
LEMMA SettledBalance ==
    ASSUME NEW t \in Tabs, NEW ls, NEW obj \in Objects, NEW k \in Amounts,
           IInv, CalmBody, tabs[t].at = "posted", FreshRead(tabs[t]),
           \A l \in Ids(tabs[t].read) :
             ~(lines[l].state = "received" /\ orders[lines[l].order].kind = "RES"),
           ls \in Seq(Line), Len(ls) = Len(lines),
           \A l \in DOMAIN lines :
             IF l \in Ids(tabs[t].read) THEN LineWeight(k, obj, orders[ls[l].order].kind, ls[l]) = 0
                                        ELSE ls[l] = lines[l]
    PROVE  LinesWeight(k, obj, orders, ls)
             = MovesWeight(k, obj, moves \o Compensations(tabs[t].backing))
<1> DEFINE K == Ids(tabs[t].read)
           backing == tabs[t].backing
           comp == Compensations(backing)
<1>1. IsFiniteSet(backing) /\ comp \in Seq(Move)
  BY RequestCompensations DEF IInv, RequestOK
<1>2. K \in SUBSET DOMAIN lines
  BY DEF FreshRead, Ids
<1>3. backing = {[id |-> m, move |-> moves[m]] : m \in {lines[l].move : l \in K} \ {0}}
  BY DEF FreshRead
<1>4. \A l \in K : LineWeightAt(k, obj, l) =
        IF lines[l].move = 0 THEN 0 ELSE MoveWeight(k, obj, moves[lines[l].move])
  BY <1>2, LineWeighsItsMove DEF CalmBody
<1>5. \A l \in 1 .. Len(lines) : LineWeight(k, obj, orders[ls[l].order].kind, ls[l])
        = IF l \in K THEN 0 ELSE LineWeightAt(k, obj, l)
  BY RowsFacts DEF LineWeightAt
<1> HIDE DEF K, backing
<1>6. LinesWeight(k, obj, orders, ls)
        = LinesWeight(k, obj, orders, lines) + MovesWeight(k, obj, comp)
  BY <1>1, <1>2, <1>3, <1>4, <1>5, SettledWeight
<1>7. MovesWeight(k, obj, moves) = LinesWeight(k, obj, orders, lines)
  BY DEF CalmBody, Balanced
<1> HIDE DEF comp
<1>8. MovesWeight(k, obj, moves \o comp) = MovesWeight(k, obj, moves) + MovesWeight(k, obj, comp)
  BY <1>1, RowsFacts, MovesConcat
<1> QED
  BY <1>6, <1>7, <1>8 DEF comp, backing

\* Sequences with the same domain have the same length.
LEMMA SameLength ==
    ASSUME NEW S, NEW s \in Seq(S), NEW u \in Seq(S), DOMAIN u = DOMAIN s
    PROVE  Len(u) = Len(s)
<1> DEFINE a == Len(s)
           b == Len(u)
<1>1. a \in Nat /\ b \in Nat /\ 1 .. a = 1 .. b
  BY LenProperties
<1> HIDE DEF a, b
<1>2. ~(a < b)
  <2> SUFFICES ASSUME a < b PROVE FALSE
    OBVIOUS
  <2>1. b \in 1 .. b
    BY <1>1
  <2> QED
    BY <1>1, <2>1
<1>3. ~(b < a)
  <2> SUFFICES ASSUME b < a PROVE FALSE
    OBVIOUS
  <2>1. a \in 1 .. a
    BY <1>1
  <2> QED
    BY <1>1, <2>1
<1>4. a = b
  BY <1>1, <1>2, <1>3
<1> QED
  BY <1>4 DEF a, b

\* Lines of a draft, or of a return on its way, go with their movements.
LEMMA RemovalCalm ==
    ASSUME IInv, CalmBody, NEW t \in Tabs, CommitDelete(t) \/ CommitCancel(t)
    PROVE  CalmBody'
<1> DEFINE q == tabs[t]
           o == q.order
           K == Ids(q.read)
           comp == Compensations(q.backing)
<1>1. /\ q.at = "posted" /\ Done(t)
      /\ moves' = moves \o comp /\ lines' = Removed(q.read)
      /\ \/ q.op = "delete" /\ orders' = orders
         \/ q.op = "cancel" /\ orders' = [orders EXCEPT ![o].state = "deleted"]
  BY DEF CommitDelete, CommitCancel, Committing
<1>2. o \in Orders /\ FreshRequest(q) /\ FreshRead(q)
  <2>1. o \in Orders /\ FreshRequest(q)
    BY <1>1, PostedType DEF IInv, Request, CalmBody, TabCalm
  <2> QED
    BY <2>1 DEF FreshRequest
<1>3. /\ K \subseteq DOMAIN lines
      /\ \A l \in K : lines[l].order = o /\ lines[l].state # "deleted"
  BY <1>2 DEF FreshRead, Ids
<1>4. /\ orders[o].state \in {"draft", "sended"}
      /\ q.op = "delete" => orders[o].state = "draft"
      /\ q.op = "cancel" => K = LinesOf(o)
  BY <1>1, <1>2 DEF FreshRequest
<1>5. comp \in Seq(Move)
  BY <1>1, RequestCompensations
<1>6. /\ lines' \in Seq(Line) /\ Len(lines') = Len(lines) /\ DOMAIN lines' = DOMAIN lines
      /\ \A l \in DOMAIN lines :
           IF l \in K THEN /\ lines'[l].state = "deleted" /\ lines'[l].move = 0
                           /\ lines'[l].order = lines[l].order /\ lines'[l] \in Line
                      ELSE lines'[l] = lines[l]
  <2>1. lines' \in Seq(Line) /\ DOMAIN lines' = DOMAIN lines
    BY <1>1, RemovedType DEF IInv
  <2>2. Len(lines') = Len(lines) /\ \A l \in DOMAIN lines : lines[l] \in Line /\ lines'[l] \in Line
    <3>1. DOMAIN lines' = 1 .. Len(lines') /\ Len(lines') \in Nat
      BY <2>1, LenProperties
    <3>2. DOMAIN lines = 1 .. Len(lines) /\ Len(lines) \in Nat /\ \A l \in DOMAIN lines : lines[l] \in Line
      BY RowsFacts
    <3>3. \A l \in DOMAIN lines : lines'[l] \in Line
      BY <2>1, <3>1, ElementOfSeq
    <3>4. Len(lines') = Len(lines)
      BY <2>1, RowsFacts, SameLength
    <3> QED
      BY <3>2, <3>3, <3>4
  <2>3. \A l \in DOMAIN lines :
          lines'[l] = IF l \in K THEN [lines[l] EXCEPT !.state = "deleted", !.move = 0] ELSE lines[l]
    BY <1>1 DEF Removed
  <2> QED
    BY <2>1, <2>2, <2>3 DEF Line
<1> HIDE DEF comp
<1>7. /\ moves' \in Seq(Move) /\ Len(moves') \in Nat
      /\ \A i \in 1 .. Len(moves) : moves'[i] = moves[i]
  BY <1>1, <1>5, RowsFacts, ConcatProperties
<1>8. /\ \A p \in Orders : orders'[p].kind = orders[p].kind
      /\ \A p \in Orders : p # o => orders'[p] = orders[p]
      /\ q.op = "cancel" => orders'[o].state = "deleted"
      /\ q.op # "cancel" => orders'[o] = orders[o]
  BY <1>1, <1>2 DEF IInv, RowsOK, Row
<1>9. OneTab' /\ (\A u \in Tabs : TabCalm(u)') /\ \A u \in Tabs : u # t => tabs[u].at = "home"
  BY <1>1, DoneCalm DEF CalmBody
<1> HIDE DEF K
<1>10. LinesCalm'
  <2> SUFFICES ASSUME NEW l \in DOMAIN lines
               PROVE  LineFits(lines'[l], orders'[lines'[l].order], moves')
    BY <1>6 DEF LinesCalm
  <2>1. /\ LineFits(lines[l], orders[lines[l].order], moves)
        /\ lines[l].order \in Orders /\ lines[l].move \in 0 .. Len(moves)
    BY RowsFacts DEF CalmBody, LinesCalm
  <2>2. CASE l \in K
    <3>1. /\ lines'[l].state = "deleted" /\ lines'[l].move = 0 /\ lines'[l].order = o
      BY <1>3, <1>6, <2>2
    <3>2. orders'[o].state # "none"
      BY <1>4, <1>8
    <3> QED
      BY <3>1, <3>2 DEF LineFits
  <2>3. CASE l \notin K
    <3>1. lines'[l] = lines[l] /\ LineFits(lines[l], orders[lines[l].order], moves')
      BY <1>6, <1>7, <2>1, <2>3, RowsFacts, FitsMore
    <3>2. CASE lines[l].order # o \/ q.op # "cancel"
      BY <1>8, <2>1, <3>1, <3>2
    <3>3. CASE lines[l].order = o /\ q.op = "cancel"
      <4>1. lines[l].state = "deleted"
        BY <1>4, <2>3, <3>3 DEF LinesOf
      <4> QED
        BY <1>8, <3>1, <3>3, <4>1 DEF LineFits
    <3> QED
      BY <3>2, <3>3
  <2> QED
    BY <2>2, <2>3
<1>11. \A p \in Orders : OrderCalm(p)'
  <2>1. \A p \in Orders : orders'[p].state = "sended" =>
          /\ orders[p].state = "sended"
          /\ \A l \in LinesOf(p) : l \in DOMAIN lines' /\ lines'[l] = lines[l]
    <3> SUFFICES ASSUME NEW p \in Orders, orders'[p].state = "sended"
                 PROVE  /\ orders[p].state = "sended"
                        /\ \A l \in LinesOf(p) : l \in DOMAIN lines' /\ lines'[l] = lines[l]
      OBVIOUS
    <3>1. p # o
      BY <1>1, <1>4, <1>8
    <3> QED
      BY <1>3, <1>6, <1>8, <3>1 DEF LinesOf
  <2> QED
    BY <1>1, <1>9, <2>1, OrdersKept
<1>12. ASSUME NEW obj \in Objects, NEW k \in Amounts PROVE Balanced(k, obj)'
  <2>1. \A l \in K : ~(lines[l].state = "received" /\ orders[lines[l].order].kind = "RES")
    BY <1>3, <1>4 DEF CalmBody, LinesCalm, LineFits
  <2>2. \A l \in DOMAIN lines :
          IF l \in K THEN LineWeight(k, obj, orders[lines'[l].order].kind, lines'[l]) = 0
                     ELSE lines'[l] = lines[l]
    BY <1>6, SettledIsZero
  <2>3. LinesWeight(k, obj, orders, lines') = MovesWeight(k, obj, moves')
    BY <1>1, <1>2, <1>6, <2>1, <2>2, SettledBalance DEF K, comp
  <2>4. LinesWeight(k, obj, orders', lines') = LinesWeight(k, obj, orders, lines')
    BY <1>6, <1>8, LinesSameKinds
  <2> QED
    BY <2>3, <2>4 DEF Balanced
<1> QED
  BY <1>9, <1>10, <1>11, <1>12 DEF CalmBody

\* The reservations given back, and the order with them.
LEMMA ReturnCalm ==
    ASSUME IInv, CalmBody, NEW t \in Tabs, CommitReturn(t)
    PROVE  CalmBody'
<1> DEFINE q == tabs[t]
           o == q.order
           K == Ids(q.read)
           comp == Compensations(q.backing)
           New(l) == IF \E row \in q.read : row.id = l
                       THEN [lines[l] EXCEPT !.state = "received",
                               !.received = (CHOOSE row \in q.read : row.id = l).line.ordered]
                       ELSE lines[l]
<1>1. /\ q.at = "posted" /\ q.op = "return" /\ Done(t)
      /\ moves' = moves \o comp
      /\ lines' = [l \in DOMAIN lines |-> New(l)]
      /\ orders' = [orders EXCEPT ![o].state = "received"]
  BY DEF CommitReturn, Committing
<1>2. o \in Orders /\ FreshRequest(q) /\ FreshRead(q)
  <2>1. o \in Orders /\ FreshRequest(q)
    BY <1>1, PostedType DEF IInv, Request, CalmBody, TabCalm
  <2> QED
    BY <2>1 DEF FreshRequest
<1>3. /\ orders[o].state = "sended" /\ orders[o].kind = "RES"
      /\ K = {l \in LinesOf(o) : lines[l].state = "pending"}
  BY <1>1, <1>2 DEF FreshRequest
<1>4. K \subseteq DOMAIN lines /\ \A l \in K : lines[l].order = o /\ lines[l].state = "pending"
  BY <1>3 DEF LinesOf
<1>5. comp \in Seq(Move)
  BY <1>1, RequestCompensations
<1>6. ASSUME NEW l \in DOMAIN lines
      PROVE  /\ New(l) \in Line
             /\ IF l \in K THEN /\ New(l).state = "received" /\ New(l).order = lines[l].order
                           ELSE New(l) = lines[l]
  <2>1. lines[l] \in Line
    BY RowsFacts
  <2>2. l \in K <=> \E row \in q.read : row.id = l
    BY DEF Ids
  <2>3. CASE l \in K
    <3>1. \A row \in q.read : row.line.ordered \in Int
      BY <1>1, PostedType DEF IInv, Request, Line
    <3>2. (CHOOSE row \in q.read : row.id = l).line.ordered \in Int
      BY <2>2, <2>3, <3>1
    <3> QED
      BY <2>1, <2>2, <2>3, <3>2 DEF Line, LineStates
  <2>4. CASE l \notin K
    BY <2>1, <2>2, <2>4
  <2> QED
    BY <2>3, <2>4
<1> HIDE DEF New, comp, K
<1>7. /\ lines' \in Seq(Line) /\ Len(lines') = Len(lines) /\ DOMAIN lines' = DOMAIN lines
      /\ \A l \in DOMAIN lines :
           /\ lines'[l] \in Line
           /\ IF l \in K THEN lines'[l].state = "received" /\ lines'[l].order = lines[l].order
                         ELSE lines'[l] = lines[l]
  <2>1. lines' \in Seq(Line)
    BY <1>1, <1>6, RowsFacts, IsASeq
  <2>2. DOMAIN lines' = DOMAIN lines
    BY <1>1
  <2>3. Len(lines') = Len(lines)
    BY <2>1, <2>2, RowsFacts, SameLength
  <2> QED
    BY <1>1, <1>6, <2>1, <2>2, <2>3
<1>8. /\ moves' \in Seq(Move) /\ Len(moves') \in Nat
      /\ \A i \in 1 .. Len(moves) : moves'[i] = moves[i]
  BY <1>1, <1>5, RowsFacts, ConcatProperties
<1>9. /\ \A p \in Orders : orders'[p].kind = orders[p].kind
      /\ \A p \in Orders : p # o => orders'[p] = orders[p]
      /\ orders'[o].state = "received"
  BY <1>1, <1>2 DEF IInv, RowsOK, Row
<1>10. OneTab' /\ (\A u \in Tabs : TabCalm(u)') /\ \A u \in Tabs : u # t => tabs[u].at = "home"
  BY <1>1, DoneCalm DEF CalmBody
<1>11. LinesCalm'
  <2> SUFFICES ASSUME NEW l \in DOMAIN lines
               PROVE  LineFits(lines'[l], orders'[lines'[l].order], moves')
    BY <1>7 DEF LinesCalm
  <2>1. /\ LineFits(lines[l], orders[lines[l].order], moves)
        /\ lines[l].order \in Orders /\ lines[l].move \in 0 .. Len(moves)
    BY RowsFacts DEF CalmBody, LinesCalm
  <2>2. CASE l \in K
    <3>1. lines'[l].state = "received" /\ lines'[l].order = o /\ orders'[o].kind = "RES"
      BY <1>2, <1>3, <1>4, <1>7, <1>9, <2>2
    <3> QED
      BY <1>9, <3>1 DEF LineFits
  <2>3. CASE l \notin K
    <3>1. lines'[l] = lines[l] /\ LineFits(lines[l], orders[lines[l].order], moves')
      BY <1>7, <1>8, <2>1, <2>3, RowsFacts, FitsMore
    <3>2. CASE lines[l].order # o
      BY <1>9, <2>1, <3>1, <3>2
    <3>3. CASE lines[l].order = o
      <4>1. lines[l].state # "pending"
        BY <1>3, <2>3, <3>3 DEF LinesOf
      <4>2. orders'[o].kind = orders[o].kind
        BY <1>2, <1>9
      <4> QED
        BY <1>3, <1>9, <3>1, <3>3, <4>1, <4>2 DEF LineFits
    <3> QED
      BY <3>2, <3>3
  <2> QED
    BY <2>2, <2>3
<1>12. \A p \in Orders : OrderCalm(p)'
  <2>1. \A p \in Orders : orders'[p].state = "sended" =>
          /\ orders[p].state = "sended"
          /\ \A l \in LinesOf(p) : l \in DOMAIN lines' /\ lines'[l] = lines[l]
    <3> SUFFICES ASSUME NEW p \in Orders, orders'[p].state = "sended"
                 PROVE  /\ orders[p].state = "sended"
                        /\ \A l \in LinesOf(p) : l \in DOMAIN lines' /\ lines'[l] = lines[l]
      OBVIOUS
    <3>1. p # o
      BY <1>9
    <3> QED
      BY <1>4, <1>7, <1>9, <3>1 DEF LinesOf
  <2> QED
    BY <1>1, <1>10, <2>1, OrdersKept
<1>13. ASSUME NEW obj \in Objects, NEW k \in Amounts PROVE Balanced(k, obj)'
  <2>1. \A l \in K : ~(lines[l].state = "received" /\ orders[lines[l].order].kind = "RES")
    BY <1>4
  <2>2. \A l \in DOMAIN lines :
          IF l \in K THEN LineWeight(k, obj, orders[lines'[l].order].kind, lines'[l]) = 0
                     ELSE lines'[l] = lines[l]
    BY <1>3, <1>4, <1>7, SettledIsZero
  <2>3. LinesWeight(k, obj, orders, lines') = MovesWeight(k, obj, moves')
    BY <1>1, <1>2, <1>7, <2>1, <2>2, SettledBalance DEF K, comp
  <2>4. LinesWeight(k, obj, orders', lines') = LinesWeight(k, obj, orders, lines')
    BY <1>7, <1>9, LinesSameKinds
  <2> QED
    BY <2>3, <2>4 DEF Balanced
<1> QED
  BY <1>10, <1>11, <1>12, <1>13 DEF CalmBody

\* The movements of a reception weigh what came in or went out, and what is
\* left to come.
LEMMA ReceiptWeight ==
    ASSUME NEW k, NEW obj, NEW kind, NEW what, NEW r, NEW c, NEW rem, NEW ms,
           kind \in AllKinds, what \in Objects, r \in Nat, c \in Nat, rem \in Nat,
           ~(c > 0 /\ kind = "RET"), ms = MovesOfReceipt(kind, what, r, c, rem)
    PROVE  /\ r > 0 => /\ Len(ms) >= 1
                       /\ ms[1] = NewMove(IF kind = "RET" THEN "out" ELSE "in", what, r)
           /\ MovesWeight(k, obj, ms) =
                (IF r > 0
                   THEN MoveWeight(k, obj, NewMove(IF kind = "RET" THEN "out" ELSE "in", what, r))
                   ELSE 0)
                + (IF rem > 0 THEN MoveWeight(k, obj, NewMove(MoveType(kind), what, rem)) ELSE 0)
<1> DEFINE r1 == NewMove(IF kind = "RET" THEN "out" ELSE "in", what, r)
           p1 == NewMove(MoveType(kind), what, rem)
           rs == IF r > 0 THEN <<r1>> ELSE <<>>
           cs == <<>>
           ps == IF rem > 0 THEN <<p1>> ELSE <<>>
<1>1. r1 \in Move /\ p1 \in Move
  <2>1. MoveType(kind) \in MoveTypes /\ "in" \in MoveTypes /\ "out" \in MoveTypes
    BY MoveTypeType DEF MoveTypes
  <2>2. p1 \in Move
    BY <2>1, NewMoveType
  <2>3. r1 \in Move
    BY <2>1, NewMoveType
  <2> QED
    BY <2>2, <2>3
<1>2. ms = rs \o cs \o ps
  BY DEF MovesOfReceipt
<1> HIDE DEF r1, p1
<1>3. /\ rs \in Seq(Move) /\ Len(rs) = (IF r > 0 THEN 1 ELSE 0) /\ (r > 0 => rs[1] = r1)
      /\ MovesWeight(k, obj, rs) = IF r > 0 THEN MoveWeight(k, obj, r1) ELSE 0
  <2>1. rs \in Seq(Move) /\ Len(rs) = (IF r > 0 THEN 1 ELSE 0) /\ (r > 0 => rs[1] = r1)
    BY <1>1
  <2>2. CASE r > 0
    <3>1. rs = <<r1>>
      BY <2>2
    <3> HIDE DEF rs
    <3> QED
      BY <1>1, <2>1, <2>2, <3>1, MovesFew
  <2>3. CASE ~(r > 0)
    <3>1. rs = <<>>
      BY <2>3
    <3> HIDE DEF rs
    <3> QED
      BY <2>1, <2>3, <3>1, MovesFew
  <2> QED
    BY <2>1, <2>2, <2>3
<1>4. cs \in Seq(Move) /\ MovesWeight(k, obj, cs) = 0
  BY MovesFew
<1>5. /\ ps \in Seq(Move)
      /\ MovesWeight(k, obj, ps) = IF rem > 0 THEN MoveWeight(k, obj, p1) ELSE 0
  <2>1. ps \in Seq(Move)
    BY <1>1
  <2>2. CASE rem > 0
    <3>1. ps = <<p1>>
      BY <2>2
    <3> HIDE DEF ps
    <3> QED
      BY <1>1, <2>1, <2>2, <3>1, MovesFew
  <2>3. CASE ~(rem > 0)
    <3>1. ps = <<>>
      BY <2>3
    <3> HIDE DEF ps
    <3> QED
      BY <2>1, <2>3, <3>1, MovesFew
  <2> QED
    BY <2>1, <2>2, <2>3
<1> HIDE DEF rs, cs, ps
<1>6. /\ Len(ms) >= Len(rs) /\ \A i \in 1 .. Len(rs) : ms[i] = rs[i]
      /\ cs \o ps \in Seq(Move) /\ ms = rs \o (cs \o ps)
  BY <1>2, <1>3, <1>4, <1>5, Concat3
<1>7. /\ MovesWeight(k, obj, ms) = MovesWeight(k, obj, rs) + MovesWeight(k, obj, cs \o ps)
      /\ MovesWeight(k, obj, cs \o ps) = MovesWeight(k, obj, cs) + MovesWeight(k, obj, ps)
  <2>1. MovesWeight(k, obj, cs \o ps) = MovesWeight(k, obj, cs) + MovesWeight(k, obj, ps)
    BY <1>4, <1>5, MovesConcat
  <2> DEFINE rest == cs \o ps
  <2>2. rs \in Seq(Move) /\ rest \in Seq(Move) /\ ms = rs \o rest
    BY <1>3, <1>6
  <2> HIDE DEF rest
  <2>3. MovesWeight(k, obj, ms) = MovesWeight(k, obj, rs) + MovesWeight(k, obj, rest)
    BY <2>2, MovesConcat
  <2> QED
    BY <2>1, <2>3 DEF rest
<1>8. /\ MovesWeight(k, obj, rs) \in Int /\ MovesWeight(k, obj, ps) \in Int
  BY <1>3, <1>5, MovesWeightType
<1>9. r > 0 => Len(ms) >= 1 /\ ms[1] = r1
  BY <1>3, <1>6
<1>10. MovesWeight(k, obj, ms) = MovesWeight(k, obj, rs) + MovesWeight(k, obj, ps)
  BY <1>4, <1>7, <1>8
<1> QED
  BY <1>3, <1>5, <1>9, <1>10 DEF r1, p1

\* A part of the line is received, another is cancelled, the rest stays to come.
LEMMA ReceiveCalm ==
    ASSUME IInv, IInv', CalmBody, NEW t \in Tabs, CommitReceive(t)
    PROVE  CalmBody'
<1> DEFINE q == tabs[t]
           o == q.order
           kind == orders[o].kind
           comp == Compensations(q.backing)
           m == Len(moves) + Len(comp) + 1
           mc == IF q.r > 0 THEN m + 1 ELSE m
           mp == IF kind = "RET" /\ q.c > 0 THEN mc + 1 ELSE mc
<1>1. /\ q.at = "posted" /\ q.op = "receive" /\ orders' = orders
      /\ tabs' = [tabs EXCEPT ![t] = [at |-> "closing", order |-> o]]
  BY DEF CommitReceive, Committing
<1>2. o \in Orders /\ q.r \in Nat /\ q.c \in Nat /\ kind \in AllKinds /\ FreshRequest(q) /\ FreshRead(q)
  <2>1. o \in Orders /\ q.r \in Nat /\ q.c \in Nat /\ FreshRequest(q)
    BY <1>1, PostedType DEF IInv, Request, CalmBody, TabCalm
  <2> QED
    BY <2>1, RowsFacts DEF FreshRequest
<1>3. orders[o].state = "sended" /\ kind \in {"CMD", "RET"}
  BY <1>1, <1>2 DEF FreshRequest
<1>4. PICK l \in DOMAIN lines : /\ q.read = {[id |-> l, line |-> lines[l]]}
                                /\ lines[l].state = "pending"
                                /\ q.r + q.c \in 1 .. lines[l].ordered
                                /\ Sound(kind, lines[l].ordered, q.r, q.c)
  BY <1>1, <1>2 DEF FreshRequest
<1> DEFINE rem == lines[l].ordered - q.r - q.c
           what == lines[l].obj
           ms == MovesOfReceipt(kind, what, q.r, q.c, rem)
           got == ReceivedLine(lines[l], q.r, q.c, rem, m)
           lc == NewLine(o, what, "cancelled", q.c, IF kind = "RET" THEN mc ELSE 0)
           lp == NewLine(o, what, "pending", rem, mp)
           old == [lines EXCEPT ![l] = got]
           cs == IF q.c > 0 THEN <<lc>> ELSE <<>>
           ps == IF rem > 0 THEN <<lp>> ELSE <<>>
<1>5. moves' = moves \o comp \o ms /\ lines' = old \o cs \o ps
  <2>1. PICK row \in q.read :
          LET z == row.line.ordered - q.r - q.c IN
          /\ moves' = moves \o comp \o MovesOfReceipt(kind, row.line.obj, q.r, q.c, z)
          /\ lines' = [lines EXCEPT ![row.id] = ReceivedLine(lines[row.id], q.r, q.c, z, m)]
               \o (IF q.c > 0
                     THEN <<NewLine(o, row.line.obj, "cancelled", q.c,
                                    IF kind = "RET" THEN mc ELSE 0)>>
                     ELSE <<>>)
               \o (IF z > 0
                     THEN <<NewLine(o, row.line.obj, "pending", z, mp)>>
                     ELSE <<>>)
    BY DEF CommitReceive
  <2>2. row = [id |-> l, line |-> lines[l]]
    BY <1>4
  <2>3. row.id = l /\ row.line = lines[l]
    BY <2>2
  <2> QED
    BY <2>1, <2>3
<1>6. /\ lines[l] \in Line /\ lines[l].order = o /\ what \in Objects /\ lines[l].ordered \in Int
      /\ Ids(q.read) = {l}
  <2>1. Ids(q.read) = {l}
    BY <1>4 DEF Ids
  <2>2. lines[l] \in Line /\ what \in Objects /\ lines[l].ordered \in Int
    BY RowsFacts DEF Line
  <2>3. [id |-> l, line |-> lines[l]].line.order = o
    BY <1>2, <1>4 DEF FreshRead
  <2> QED
    BY <2>1, <2>2, <2>3
<1>7. /\ rem \in Nat /\ ~(q.c > 0 /\ kind = "RET")
      /\ q.r = 0 => rem = 0
  BY <1>2, <1>4, <1>6 DEF Sound
<1>8. comp \in Seq(Move) /\ Len(comp) \in Nat /\ ms \in Seq(Move) /\ Len(ms) \in Nat
  <2>1. comp \in Seq(Move) /\ Len(comp) \in Nat
    BY <1>1, RequestCompensations, LenProperties
  <2> HIDE DEF rem
  <2>2. ms = MovesOfReceipt(kind, what, q.r, q.c, rem)
    OBVIOUS
  <2>3. kind \in AllKinds /\ what \in Objects /\ q.r \in Nat /\ q.c \in Nat /\ rem \in Int
    BY <1>2, <1>6, <1>7
  <2> HIDE DEF ms, kind, what, q
  <2>4. ms \in Seq(Move)
    BY <2>2, <2>3, ReceiptType
  <2> QED
    BY <2>1, <2>4, LenProperties
<1> DEFINE r1 == NewMove(IF kind = "RET" THEN "out" ELSE "in", what, q.r)
           p1 == NewMove(MoveType(kind), what, rem)
<1>9. /\ q.r > 0 => Len(ms) >= 1 /\ ms[1] = r1
      /\ \A k, obj : MovesWeight(k, obj, ms) = (IF q.r > 0 THEN MoveWeight(k, obj, r1) ELSE 0)
                                               + (IF rem > 0 THEN MoveWeight(k, obj, p1) ELSE 0)
  <2> HIDE DEF rem
  <2>1. ms = MovesOfReceipt(kind, what, q.r, q.c, rem)
    OBVIOUS
  <2>2. kind \in AllKinds /\ what \in Objects /\ q.r \in Nat /\ q.c \in Nat /\ rem \in Nat
        /\ ~(q.c > 0 /\ kind = "RET")
    BY <1>2, <1>6, <1>7
  <2> HIDE DEF ms, kind, what, q
  <2>3. ASSUME NEW k, NEW obj
        PROVE  /\ q.r > 0 => Len(ms) >= 1 /\ ms[1] = r1
               /\ MovesWeight(k, obj, ms) = (IF q.r > 0 THEN MoveWeight(k, obj, r1) ELSE 0)
                                            + (IF rem > 0 THEN MoveWeight(k, obj, p1) ELSE 0)
    BY <2>1, <2>2, ReceiptWeight
  <2> QED
    BY <2>3
<1> HIDE DEF rem, ms, comp
<1>10. /\ moves \in Seq(Move) /\ lines \in Seq(Line) /\ Len(lines) \in Nat /\ Len(moves) \in Nat
       /\ DOMAIN lines = 1 .. Len(lines)
  BY RowsFacts
<1>11. /\ moves' \in Seq(Move) /\ Len(moves') = Len(moves) + Len(comp) + Len(ms)
       /\ \A i \in 1 .. Len(moves) : moves'[i] = moves[i]
       /\ \A i \in 1 .. Len(ms) : moves'[Len(moves) + Len(comp) + i] = ms[i]
       /\ moves \o comp \in Seq(Move)
  <2>1. /\ moves' \in Seq(Move) /\ Len(moves') = Len(moves) + Len(comp) + Len(ms)
        /\ \A i \in 1 .. Len(moves) : moves'[i] = moves[i]
        /\ \A i \in 1 .. Len(ms) : moves'[Len(moves) + Len(comp) + i] = ms[i]
    BY <1>5, <1>8, <1>10, Concat3
  <2> QED
    BY <1>8, <1>10, <2>1, ConcatProperties
<1>12. m \in Nat /\ mc \in Nat /\ mp \in Nat /\ m # 0 /\ (q.r > 0 => moves'[m] = r1)
  <2>1. m \in Nat /\ mc \in Nat /\ mp \in Nat /\ m # 0
    BY <1>8, <1>10
  <2>2. ASSUME q.r > 0 PROVE moves'[m] = r1
    <3>1. 1 \in 1 .. Len(ms) /\ ms[1] = r1
      BY <1>8, <1>9, <2>2
    <3> QED
      BY <1>11, <3>1
  <2> QED
    BY <2>1, <2>2
<1> HIDE DEF m, mc, mp
<1>13. /\ got \in Line /\ got.order = o
       /\ \/ /\ q.r > 0 /\ got.state = "received" /\ got.obj = what
             /\ got.received = q.r /\ got.move = m
          \/ q.r = 0 /\ got.state = "cancelled" /\ got.move = 0
  <2>1. got = IF q.r > 0 THEN [lines[l] EXCEPT !.state = "received", !.received = q.r, !.move = m]
                         ELSE [lines[l] EXCEPT !.state = "cancelled", !.move = 0]
    BY <1>2, <1>7 DEF ReceivedLine
  <2>2. got \in Line
    <3>1. rem \in Int /\ m \in Nat /\ got = ReceivedLine(lines[l], q.r, q.c, rem, m)
      BY <1>7, <1>12
    <3> HIDE DEF got
    <3> QED
      BY <1>2, <1>6, <3>1, ReceivedLineType
  <2>3. CASE q.r > 0
    BY <1>6, <2>1, <2>2, <2>3 DEF Line
  <2>4. CASE q.r = 0
    BY <1>6, <2>1, <2>2, <2>4 DEF Line
  <2> QED
    BY <1>2, <2>3, <2>4
<1>14. /\ q.c > 0 => lc \in Line /\ lc.state = "cancelled" /\ lc.move = 0 /\ lc.order = o
       /\ rem > 0 => /\ lp \in Line /\ lp.state = "pending" /\ lp.ordered = rem
                     /\ lp.order = o /\ lp.obj = what
  <2>1. (q.c > 0 => lc \in Line) /\ (rem > 0 => lp \in Line)
    BY <1>2, <1>6, <1>7, <1>12, NewLineType DEF LineStates
  <2> QED
    BY <1>7, <2>1 DEF NewLine
<1> HIDE DEF got, lc, lp
<1>15. /\ old \in Seq(Line) /\ Len(old) = Len(lines)
       /\ \A i \in 1 .. Len(lines) : old[i] = IF i = l THEN got ELSE lines[i]
  BY <1>10, <1>13, ExceptSeq
<1>16. /\ cs \in Seq(Line) /\ Len(cs) = (IF q.c > 0 THEN 1 ELSE 0) /\ (q.c > 0 => cs[1] = lc)
       /\ ps \in Seq(Line) /\ Len(ps) = (IF rem > 0 THEN 1 ELSE 0) /\ (rem > 0 => ps[1] = lp)
  BY <1>14
<1>17. \A k, obj, os : /\ LinesWeight(k, obj, os, cs) = IF q.c > 0 THEN WeightOf(k, obj, os, lc) ELSE 0
                       /\ LinesWeight(k, obj, os, ps) = IF rem > 0 THEN WeightOf(k, obj, os, lp) ELSE 0
  <2> SUFFICES ASSUME NEW k, NEW obj, NEW os
               PROVE  /\ LinesWeight(k, obj, os, cs) = IF q.c > 0 THEN WeightOf(k, obj, os, lc) ELSE 0
                      /\ LinesWeight(k, obj, os, ps) = IF rem > 0 THEN WeightOf(k, obj, os, lp) ELSE 0
    OBVIOUS
  <2>1. /\ LinesWeight(k, obj, os, <<>>) = 0
        /\ q.c > 0 => LinesWeight(k, obj, os, <<lc>>) = WeightOf(k, obj, os, lc)
        /\ rem > 0 => LinesWeight(k, obj, os, <<lp>>) = WeightOf(k, obj, os, lp)
    BY <1>14, LinesFew DEF WeightOf
  <2> QED
    BY <2>1
<1> HIDE DEF old, cs, ps
<1>18. /\ lines' \in Seq(Line) /\ Len(lines') = Len(lines) + Len(cs) + Len(ps)
       /\ DOMAIN lines' = 1 .. Len(lines') /\ Len(lines') \in Nat
       /\ \A i \in 1 .. Len(lines) : lines'[i] = IF i = l THEN got ELSE lines[i]
       /\ \A i \in 1 .. Len(cs) : lines'[Len(lines) + i] = cs[i]
       /\ \A i \in 1 .. Len(ps) : lines'[Len(lines) + Len(cs) + i] = ps[i]
       /\ cs \o ps \in Seq(Line) /\ lines' = old \o (cs \o ps)
       /\ DOMAIN lines \subseteq DOMAIN lines'
  <2>1. /\ lines' \in Seq(Line) /\ Len(lines') = Len(old) + Len(cs) + Len(ps)
        /\ \A i \in 1 .. Len(old) : lines'[i] = old[i]
        /\ \A i \in 1 .. Len(cs) : lines'[Len(old) + i] = cs[i]
        /\ \A i \in 1 .. Len(ps) : lines'[Len(old) + Len(cs) + i] = ps[i]
        /\ cs \o ps \in Seq(Line) /\ lines' = old \o (cs \o ps)
    <3>1. /\ old \in Seq(Line) /\ cs \in Seq(Line) /\ ps \in Seq(Line)
          /\ lines' = old \o cs \o ps
      BY <1>5, <1>15, <1>16
    <3> QED
      BY <3>1, Concat3
  <2>2. /\ DOMAIN lines' = 1 .. Len(lines') /\ Len(lines') \in Nat
        /\ Len(cs) \in Nat /\ Len(ps) \in Nat /\ Len(old) = Len(lines)
    BY <1>15, <1>16, <2>1, LenProperties
  <2>3. DOMAIN lines \subseteq DOMAIN lines'
    BY <1>10, <2>1, <2>2
  <2> QED
    BY <1>15, <2>1, <2>2, <2>3
<1>19. /\ OneTab' /\ tabs'[t] = [at |-> "closing", order |-> o]
       /\ \A u \in Tabs : u # t => tabs[u].at = "home" /\ tabs'[u].at = "home"
  BY <1>1, AloneAtWork DEF CalmBody
<1>20. \A u \in Tabs : TabCalm(u)'
  BY <1>1, <1>3, <1>19 DEF TabCalm
<1>21. LinesCalm'
  <2> SUFFICES ASSUME NEW i \in DOMAIN lines'
               PROVE  LineFits(lines'[i], orders[lines'[i].order], moves')
    BY <1>1 DEF LinesCalm
  <2>1. CASE i \in DOMAIN lines /\ i # l
    <3>1. /\ LineFits(lines[i], orders[lines[i].order], moves) /\ lines[i].move \in 0 .. Len(moves)
          /\ lines'[i] = lines[i]
      BY <1>10, <1>18, <2>1, RowsFacts DEF CalmBody, LinesCalm
    <3>2. Len(moves') \in Nat
      BY <1>11, LenProperties
    <3> QED
      BY <1>10, <1>11, <3>1, <3>2, FitsMore
  <2>2. CASE i = l
    <3>1. lines'[i] = got
      BY <1>10, <1>18, <2>2
    <3>2. LineFits(got, orders[o], moves')
      <4>1. CASE q.r > 0
        <5>1. /\ got.state = "received" /\ got.obj = what /\ got.received = q.r /\ got.move = m
              /\ moves'[m] = r1 /\ m # 0
          BY <1>12, <1>13, <4>1
        <5> QED
          BY <1>3, <5>1 DEF LineFits
      <4>2. CASE ~(q.r > 0)
        BY <1>3, <1>13, <4>2 DEF LineFits
      <4> QED
        BY <4>1, <4>2
    <3> QED
      BY <1>13, <3>1, <3>2
  <2>3. CASE i \notin DOMAIN lines
    <3>1. \/ q.c > 0 /\ lines'[i] = lc
          \/ rem > 0 /\ lines'[i] = lp
      <4> DEFINE a == Len(lines)
                 b == Len(cs)
                 d == Len(ps)
      <4>1. a \in Nat /\ b \in {0, 1} /\ d \in {0, 1} /\ i \in 1 .. a + b + d /\ i \notin 1 .. a
        BY <1>10, <1>16, <1>18, <2>3
      <4>2. /\ \A j \in 1 .. b : lines'[a + j] = cs[j]
            /\ \A j \in 1 .. d : lines'[a + b + j] = ps[j]
        BY <1>18
      <4>3. (b = 1 => q.c > 0 /\ cs[1] = lc) /\ (d = 1 => rem > 0 /\ ps[1] = lp)
        BY <1>16
      <4> HIDE DEF a, b, d
      <4>4. (b = 1 /\ i = a + 1) \/ (d = 1 /\ i = a + b + 1)
        BY <4>1
      <4> QED
        BY <4>2, <4>3, <4>4
    <3>2. CASE q.c > 0 /\ lines'[i] = lc
      BY <1>3, <1>14, <3>2 DEF LineFits
    <3>3. CASE rem > 0 /\ lines'[i] = lp
      <4>1. lp.ordered >= 1
        BY <1>7, <1>14, <3>3
      <4> QED
        BY <1>3, <1>14, <3>3, <4>1 DEF LineFits
    <3> QED
      BY <3>1, <3>2, <3>3
  <2> QED
    BY <2>1, <2>2, <2>3
<1>22. ASSUME NEW p \in Orders PROVE OrderCalm(p)'
  <2>1. CASE p = o
    <3>1. l \in LinesOf(p)'
      <4>1. l \in DOMAIN lines' /\ lines'[l] = got
        BY <1>10, <1>18
      <4> QED
        BY <1>13, <2>1, <4>1 DEF LinesOf
    <3>2. tabs'[t].at = "closing" /\ tabs'[t].order = o
      BY <1>19
    <3> QED
      BY <2>1, <3>1, <3>2 DEF OrderCalm
  <2>2. CASE p # o
    <3> SUFFICES ASSUME orders[p].state = "sended"
                 PROVE  \E i \in LinesOf(p)' : lines'[i].state = "pending"
      BY <1>1 DEF OrderCalm
    <3>1. PICK i \in LinesOf(p) : lines[i].state = "pending"
      BY <1>1, <1>19 DEF CalmBody, OrderCalm
    <3>2. i \in DOMAIN lines' /\ lines'[i] = lines[i]
      <4>1. i \in DOMAIN lines /\ i # l
        BY <1>6, <2>2, <3>1 DEF LinesOf
      <4> QED
        BY <1>10, <1>18, <4>1
    <3> QED
      BY <3>1, <3>2 DEF LinesOf
  <2> QED
    BY <2>1, <2>2
<1>23. ASSUME NEW obj \in Objects, NEW k \in Amounts PROVE Balanced(k, obj)'
  <2> DEFINE zero == [lines[l] EXCEPT !.state = "cancelled", !.move = 0]
             z == [lines EXCEPT ![l] = zero]
  <2>1. zero \in Line /\ zero.state = "cancelled" /\ zero.order = o
    BY <1>6 DEF Line, LineStates
  <2> HIDE DEF zero
  <2>2. /\ z \in Seq(Line) /\ Len(z) = Len(lines)
        /\ \A i \in 1 .. Len(lines) : z[i] = IF i = l THEN zero ELSE lines[i]
    BY <1>10, <2>1, ExceptSeq
  <2> HIDE DEF z
  <2>3. WeightOf(k, obj, orders, zero) = 0
    BY <2>1, SettledIsZero DEF WeightOf
  <2>4. LinesWeight(k, obj, orders, z) = MovesWeight(k, obj, moves \o comp)
    <3>1. \A i \in Ids(tabs[t].read) :
            ~(lines[i].state = "received" /\ orders[lines[i].order].kind = "RES")
      BY <1>4, <1>6
    <3>2. \A i \in DOMAIN lines :
            IF i \in Ids(tabs[t].read) THEN LineWeight(k, obj, orders[z[i].order].kind, z[i]) = 0
                                       ELSE z[i] = lines[i]
      BY <1>6, <1>10, <2>2, <2>3 DEF WeightOf
    <3> QED
      BY <1>1, <1>2, <2>2, <3>1, <3>2, SettledBalance DEF comp
  <2>5. LinesWeight(k, obj, orders, old)
          = LinesWeight(k, obj, orders, z) + WeightOf(k, obj, orders, got)
    <3>1. l \in 1 .. Len(z) /\ z[l] = zero /\ old[l] = got
          /\ Len(old) = Len(z) /\ \A i \in 1 .. Len(z) : i # l => old[i] = z[i]
      BY <1>10, <1>15, <2>2
    <3> DEFINE os == orders
    <3> HIDE DEF os
    <3>2. LinesWeight(k, obj, os, old)
            = LinesWeight(k, obj, os, z) - WeightOf(k, obj, os, z[l]) + WeightOf(k, obj, os, old[l])
      BY <1>15, <2>2, <3>1, LinesChanged
    <3>3. LinesWeight(k, obj, os, z) \in Int
      BY <2>2, LinesWeightType
    <3> QED
      BY <2>3, <3>1, <3>2, <3>3 DEF os
  <2>6. WeightOf(k, obj, orders, got) = IF q.r > 0 THEN MoveWeight(k, obj, r1) ELSE 0
    <3>1. CASE q.r > 0
      <4>1. got.state = "received" /\ got.obj = what /\ got.received = q.r
        BY <1>13, <3>1
      <4>2. LineWeight(k, obj, kind, got) = MoveWeight(k, obj, r1)
        BY <1>3, <1>13, <4>1, ReceivedWeight
      <4> QED
        BY <1>13, <3>1, <4>2 DEF WeightOf
    <3>2. CASE ~(q.r > 0)
      <4>1. got.state = "cancelled"
        BY <1>13, <3>2
      <4> QED
        BY <1>13, <3>2, <4>1, SettledIsZero DEF WeightOf
    <3> QED
      BY <3>1, <3>2
  <2>7. LinesWeight(k, obj, orders, cs) = 0
    BY <1>14, <1>17, SettledIsZero DEF WeightOf
  <2>8. LinesWeight(k, obj, orders, ps) = IF rem > 0 THEN MoveWeight(k, obj, p1) ELSE 0
    <3>1. CASE rem > 0
      <4>1. LineWeight(k, obj, kind, lp) = MoveWeight(k, obj, p1)
        BY <1>2, <1>14, <3>1, PendingWeight
      <4> QED
        BY <1>14, <1>17, <3>1, <4>1 DEF WeightOf
    <3>2. CASE ~(rem > 0)
      BY <1>17, <3>2
    <3> QED
      BY <3>1, <3>2
  <2>9. /\ LinesWeight(k, obj, orders, lines')
             = LinesWeight(k, obj, orders, old) + LinesWeight(k, obj, orders, cs \o ps)
        /\ LinesWeight(k, obj, orders, cs \o ps)
             = LinesWeight(k, obj, orders, cs) + LinesWeight(k, obj, orders, ps)
    <3> DEFINE rest == cs \o ps
               os == orders
    <3>1. old \in Seq(Line) /\ rest \in Seq(Line) /\ lines' = old \o rest
      BY <1>15, <1>18
    <3>2. cs \in Seq(Line) /\ ps \in Seq(Line) /\ rest = cs \o ps
      BY <1>16
    <3> HIDE DEF rest, os
    <3>3. LinesWeight(k, obj, os, lines') = LinesWeight(k, obj, os, old) + LinesWeight(k, obj, os, rest)
      BY <3>1, LinesConcat
    <3>4. LinesWeight(k, obj, os, rest) = LinesWeight(k, obj, os, cs) + LinesWeight(k, obj, os, ps)
      BY <3>2, LinesConcat
    <3> QED
      BY <3>3, <3>4 DEF rest, os
  <2>10. MovesWeight(k, obj, moves') = MovesWeight(k, obj, moves \o comp) + MovesWeight(k, obj, ms)
    BY <1>5, <1>8, <1>11, MovesConcat
  <2>11. MovesWeight(k, obj, moves \o comp) \in Int /\ LinesWeight(k, obj, orders, ps) \in Int
         /\ WeightOf(k, obj, orders, got) \in Int
    <3>1. MovesWeight(k, obj, moves \o comp) \in Int
      BY <1>11, MovesWeightType
    <3>2. LinesWeight(k, obj, orders, ps) \in Int
      BY <1>16, LinesWeightType
    <3> QED
      BY <1>13, <3>1, <3>2, WeightType DEF WeightOf
  <2>12. LinesWeight(k, obj, orders, lines') = MovesWeight(k, obj, moves')
    BY <1>9, <2>4, <2>5, <2>6, <2>7, <2>8, <2>9, <2>10, <2>11
  <2> QED
    BY <1>1, <2>12 DEF Balanced
<1> QED
  BY <1>19, <1>20, <1>21, <1>22, <1>23 DEF CalmBody

-----------------------------------------------------------------------------
\* No order, no line, no movement: nothing weighs anything.
LEMMA CalmInit == Init => CalmBody
<1> SUFFICES ASSUME Init PROVE CalmBody
  OBVIOUS
<1>1. lines = <<>> /\ moves = <<>> /\ \A t \in Tabs : tabs[t].at = "home"
  BY DEF Init
<1>2. \A obj \in Objects, k \in Amounts : Balanced(k, obj)
  BY <1>1, MovesFew, LinesFew DEF Balanced
<1>3. \A o \in Orders : orders[o].state # "sended"
  BY DEF Init
<1> QED
  BY <1>1, <1>2, <1>3 DEF CalmBody, OneTab, LinesCalm, TabCalm, OrderCalm

\* A step that changes nothing.
LEMMA StutterCalm ==
    ASSUME IInv, CalmBody, UNCHANGED vars
    PROVE  CalmBody'
<1>1. lines' = lines /\ moves' = moves /\ orders' = orders /\ tabs' = tabs
  BY DEF vars
<1>2. /\ \A o : LinesOf(o)' = LinesOf(o)
      /\ \A obj, qty : Allowed(obj, qty)' = Allowed(obj, qty)
  <2>1. \A o : LinesOf(o)' = LinesOf(o)
    BY <1>1 DEF LinesOf
  <2>2. \A obj, qty : Allowed(obj, qty)' = Allowed(obj, qty)
    BY <1>1, AllowedKept
  <2> QED
    BY <2>1, <2>2
<1>3. OneTab' /\ LinesCalm'
  BY <1>1 DEF CalmBody, OneTab, LinesCalm
<1>4. ASSUME NEW u \in Tabs PROVE TabCalm(u)'
  <2>1. TabCalm(u)
    BY DEF CalmBody
  <2>2. FreshRead(tabs[u]) => FreshRead(tabs[u])'
    BY <1>1 DEF FreshRead
  <2>3. FreshRequest(tabs[u]) => FreshRequest(tabs[u])'
    BY <1>1, <1>2, <2>2 DEF FreshRequest
  <2> QED
    BY <1>1, <2>1, <2>3 DEF TabCalm
<1>5. \A o \in Orders : OrderCalm(o)'
  BY <1>1, <1>2 DEF CalmBody, OrderCalm
<1>6. \A obj \in Objects, k \in Amounts : Balanced(k, obj)'
  BY <1>1, BalanceKept
<1> QED
  BY <1>3, <1>4, <1>5, <1>6 DEF CalmBody

\* CalmInv is kept by every step.
LEMMA CalmStep ==
    ASSUME IInv, IInv', CalmInv, [Next]_vars
    PROVE  CalmInv'
<1> SUFFICES ASSUME calm, CalmBody PROVE CalmBody'
  <2>1. calm' = calm
    BY DEF Next, vars
  <2> QED
    BY <2>1 DEF CalmInv
<1>1. CASE UNCHANGED vars
  BY <1>1, StutterCalm
<1>2. ASSUME NEW t \in Tabs, Browse(t) \/ Submit(t) \/ Serve(t) \/ Crash(t) PROVE CalmBody'
  <2>1. ~Crash(t)
    BY DEF Crash
  <2>2. CASE Serve(t)
    BY <2>2, CreateCalm, EditCalm, RemovalCalm, ConfirmCalm, ReceiveCalm, ReturnCalm,
       FailCalm, CloseCalm DEF Serve
  <2> QED
    BY <1>2, <2>1, <2>2, BrowseCalm, SubmitCalm
<1> QED
  BY <1>1, <1>2 DEF Next

\* With one careful tab at a time, CalmBody holds in every state.
THEOREM CalmInductive == Spec => []CalmInv
<1>1. Init => CalmInv
  BY CalmInit DEF CalmInv
<1>2. IInv /\ IInv' /\ CalmInv /\ [Next]_vars => CalmInv'
  BY CalmStep
<1> QED
  BY <1>1, <1>2, Inductive, PTL DEF Spec

-----------------------------------------------------------------------------
(* The sums of the stock and of the lines, as weights.                     *)

TotalOf(ms, type, obj) ==
    Sum([m \in DOMAIN ms |-> ms[m].qty], {m \in DOMAIN ms : ms[m].type = type /\ ms[m].obj = obj})

\* What the movements of one type add up to, as a sum over all movements.
LEMMA TotalWhere ==
    ASSUME NEW ms, NEW type, NEW obj, ms \in Seq(Move)
    PROVE  /\ TotalOf(ms, type, obj) =
                Sum([m \in 1 .. Len(ms) |-> IF ms[m].type = type /\ ms[m].obj = obj
                                              THEN ms[m].qty ELSE 0], 1 .. Len(ms))
           /\ TotalOf(ms, type, obj) \in Int
<1> DEFINE S == 1 .. Len(ms)
           f == [m \in S |-> ms[m].qty]
           T == {m \in S : ms[m].type = type /\ ms[m].obj = obj}
           g == [m \in S |-> IF ms[m].type = type /\ ms[m].obj = obj THEN ms[m].qty ELSE 0]
<1>1. DOMAIN ms = S /\ IsFiniteSet(S) /\ \A m \in S : ms[m] \in Move
  BY LenProperties, ElementOfSeq, IntervalFinite
<1>2. \A m \in S : f[m] \in Int /\ g[m] = IF m \in T THEN f[m] ELSE 0
  BY <1>1 DEF Move
<1>3. T \in SUBSET S
  OBVIOUS
<1>4. TotalOf(ms, type, obj) = Sum(f, T)
  <2>1. /\ [m \in DOMAIN ms |-> ms[m].qty] = f
        /\ {m \in DOMAIN ms : ms[m].type = type /\ ms[m].obj = obj} = T
    BY <1>1
  <2> QED
    BY <2>1, Zenon DEF TotalOf
<1>5. IsFiniteSet(T)
  BY <1>1, <1>3, FS_Subset
<1> HIDE DEF f, g, T
<1>6. Sum(g, S) = Sum(f, T)
  <2> HIDE DEF S
  <2> QED
    BY <1>1, <1>2, <1>3, SumWhere
<1>7. Sum(f, T) \in Int
  BY <1>2, <1>3, <1>5, SumType
<1> QED
  BY <1>4, <1>6, <1>7 DEF g

\* The weights of the movements are the totals the stock is computed from.
LEMMA WeightIsTotal ==
    ASSUME NEW ms, NEW obj, ms \in Seq(Move)
    PROVE  /\ MovesWeight("stock", obj, ms) = TotalOf(ms, "in", obj)
                - TotalOf(ms, "out", obj) - TotalOf(ms, "reserved", obj)
           /\ MovesWeight("expected", obj, ms) = TotalOf(ms, "pending", obj)
<1> DEFINE S == 1 .. Len(ms)
           part(type) == [m \in S |-> IF ms[m].type = type /\ ms[m].obj = obj THEN ms[m].qty ELSE 0]
           i == part("in")
           o == part("out")
           r == part("reserved")
           p == part("pending")
           w == [m \in S |-> MoveWeight("stock", obj, ms[m])]
           e == [m \in S |-> MoveWeight("expected", obj, ms[m])]
           left == [m \in S |-> o[m] + r[m]]
<1>1. IsFiniteSet(S) /\ \A m \in S : ms[m] \in Move
  BY LenProperties, ElementOfSeq, IntervalFinite
<1>2. \A m \in S : /\ ms[m].qty \in Int /\ ms[m].type \in {"pending", "in", "out", "reserved"}
                   /\ w[m] \in Int
  BY <1>1, WeightType DEF Move, MoveTypes
<1>3. \A m \in S : /\ i[m] \in Int /\ o[m] \in Int /\ r[m] \in Int /\ p[m] \in Int
                   /\ left[m] \in Int /\ left[m] = o[m] + r[m]
  BY <1>2
<1>4. \A m \in S : i[m] = w[m] + left[m]
  BY <1>2 DEF MoveWeight
<1>5. e = p
  BY <1>2 DEF MoveWeight
<1>6. /\ TotalOf(ms, "in", obj) = Sum(i, S) /\ TotalOf(ms, "out", obj) = Sum(o, S)
      /\ TotalOf(ms, "reserved", obj) = Sum(r, S) /\ TotalOf(ms, "pending", obj) = Sum(p, S)
  <2>1. TotalOf(ms, "in", obj) = Sum(i, S)
    BY TotalWhere
  <2>2. TotalOf(ms, "out", obj) = Sum(o, S)
    BY TotalWhere
  <2>3. TotalOf(ms, "reserved", obj) = Sum(r, S)
    BY TotalWhere
  <2>4. TotalOf(ms, "pending", obj) = Sum(p, S)
    BY TotalWhere
  <2> QED
    BY <2>1, <2>2, <2>3, <2>4
<1>7. MovesWeight("stock", obj, ms) = Sum(w, S) /\ MovesWeight("expected", obj, ms) = Sum(e, S)
  BY DEF MovesWeight
<1> HIDE DEF S, i, o, r, p, w, e, left, part
<1>8. Sum(i, S) = Sum(w, S) + Sum(left, S)
  BY <1>1, <1>2, <1>3, <1>4, SumOfSums
<1>9. Sum(left, S) = Sum(o, S) + Sum(r, S)
  BY <1>1, <1>3, SumOfSums
<1>10. Sum(w, S) \in Int /\ Sum(o, S) \in Int /\ Sum(r, S) \in Int
  BY <1>1, <1>2, <1>3, SumType
<1> QED
  BY <1>5, <1>6, <1>7, <1>8, <1>9, <1>10

\* What some of the lines ordered, or received, as a sum over all lines.
LEMMA LinesWhere ==
    ASSUME NEW T, NEW S, lines \in Seq(Line), DOMAIN lines = S, IsFiniteSet(S), T \in SUBSET S
    PROVE  /\ Ordered(T) = Sum([l \in S |-> IF l \in T THEN lines[l].ordered ELSE 0], S)
           /\ Received(T) = Sum([l \in S |-> IF l \in T THEN lines[l].received ELSE 0], S)
<1> DEFINE fo == [l \in S |-> lines[l].ordered]
           fr == [l \in S |-> lines[l].received]
           go == [l \in S |-> IF l \in T THEN lines[l].ordered ELSE 0]
           gr == [l \in S |-> IF l \in T THEN lines[l].received ELSE 0]
<1>1. \A l \in S : lines[l] \in Line
  BY ElementOfSeq
<1>2. /\ \A l \in S : fo[l] \in Int /\ go[l] = IF l \in T THEN fo[l] ELSE 0
      /\ \A l \in S : fr[l] \in Int /\ gr[l] = IF l \in T THEN fr[l] ELSE 0
  BY <1>1 DEF Line
<1>3. Ordered(T) = Sum(fo, T) /\ Received(T) = Sum(fr, T)
  BY Zenon DEF Ordered, Received, Sum
<1> HIDE DEF fo, fr, go, gr
<1>4. Sum(fo, T) = Sum(go, S)
  BY <1>2, RowsWhere
<1>5. Sum(fr, T) = Sum(gr, S)
  BY <1>2, RowsWhere
<1> QED
  BY <1>3, <1>4, <1>5 DEF go, gr

\* The weights of the lines are what the orders received, sent back or reserved,
\* and what they still wait for.
LEMMA WeightIsLines ==
    ASSUME NEW obj, IInv
    PROVE  /\ LinesWeight("stock", obj, orders, lines) =
                Received(Those("CMD", "received", obj)) - Received(Those("RET", "received", obj))
                  - Ordered(Those("RET", "pending", obj)) - Ordered(Those("RES", "pending", obj))
           /\ LinesWeight("expected", obj, orders, lines) = Ordered(Those("CMD", "pending", obj))
<1> DEFINE S == 1 .. Len(lines)
           rec(T) == [l \in S |-> IF l \in T THEN lines[l].received ELSE 0]
           ord(T) == [l \in S |-> IF l \in T THEN lines[l].ordered ELSE 0]
           A == Those("CMD", "received", obj)
           B == Those("RET", "received", obj)
           C == Those("RET", "pending", obj)
           D == Those("RES", "pending", obj)
           E == Those("CMD", "pending", obj)
           a == rec(A)
           b == rec(B)
           c == ord(C)
           d == ord(D)
           e == ord(E)
           w == [l \in S |-> LineWeight("stock", obj, orders[lines[l].order].kind, lines[l])]
           x == [l \in S |-> LineWeight("expected", obj, orders[lines[l].order].kind, lines[l])]
           cd == [l \in S |-> c[l] + d[l]]
           bcd == [l \in S |-> b[l] + cd[l]]
<1>1. /\ lines \in Seq(Line) /\ DOMAIN lines = S /\ IsFiniteSet(S)
      /\ \A l \in S : lines[l] \in Line /\ orders[lines[l].order].kind \in AllKinds
  BY RowsFacts, IntervalFinite
<1>2. A \subseteq S /\ B \subseteq S /\ C \subseteq S /\ D \subseteq S /\ E \subseteq S
  BY <1>1 DEF Those
<1>3. /\ Received(A) = Sum(a, S) /\ Received(B) = Sum(b, S) /\ Ordered(C) = Sum(c, S)
      /\ Ordered(D) = Sum(d, S) /\ Ordered(E) = Sum(e, S)
  <2> HIDE DEF A, B, C, D, E, S
  <2>1. Received(A) = Sum(a, S)
    BY <1>1, <1>2, LinesWhere
  <2>2. Received(B) = Sum(b, S)
    BY <1>1, <1>2, LinesWhere
  <2>3. Ordered(C) = Sum(c, S)
    BY <1>1, <1>2, LinesWhere
  <2>4. Ordered(D) = Sum(d, S)
    BY <1>1, <1>2, LinesWhere
  <2>5. Ordered(E) = Sum(e, S)
    BY <1>1, <1>2, LinesWhere
  <2> QED
    BY <2>1, <2>2, <2>3, <2>4, <2>5
<1>4. \A l \in S : /\ a[l] \in Int /\ b[l] \in Int /\ c[l] \in Int /\ d[l] \in Int /\ e[l] \in Int
                   /\ w[l] \in Int /\ cd[l] \in Int /\ cd[l] = c[l] + d[l]
                   /\ bcd[l] \in Int /\ bcd[l] = b[l] + cd[l]
  <2> SUFFICES ASSUME NEW l \in S
               PROVE  /\ a[l] \in Int /\ b[l] \in Int /\ c[l] \in Int /\ d[l] \in Int /\ e[l] \in Int
                      /\ w[l] \in Int /\ cd[l] \in Int /\ cd[l] = c[l] + d[l]
                      /\ bcd[l] \in Int /\ bcd[l] = b[l] + cd[l]
    OBVIOUS
  <2>1. lines[l].ordered \in Int /\ lines[l].received \in Int
    BY <1>1 DEF Line
  <2>2. a[l] \in Int /\ b[l] \in Int /\ c[l] \in Int /\ d[l] \in Int /\ e[l] \in Int
    BY <2>1
  <2>3. w[l] \in Int
    BY <1>1, WeightType
  <2>4. cd[l] = c[l] + d[l] /\ bcd[l] = b[l] + cd[l]
    OBVIOUS
  <2> HIDE DEF a, b, c, d, e, w, cd, bcd
  <2> QED
    BY <2>2, <2>3, <2>4
<1>5. \A l \in S : a[l] = w[l] + bcd[l] /\ x[l] = e[l]
  <2> SUFFICES ASSUME NEW l \in S PROVE a[l] = w[l] + bcd[l] /\ x[l] = e[l]
    OBVIOUS
  <2> DEFINE k == orders[lines[l].order].kind
             n == lines[l]
  <2>1. /\ n.ordered \in Int /\ n.received \in Int /\ n.state \in LineStates
        /\ k \in {"CMD", "RET", "RES"} /\ l \in DOMAIN lines
    BY <1>1 DEF Line, AllKinds
  <2>2. /\ a[l] = IF k = "CMD" /\ n.state = "received" /\ n.obj = obj THEN n.received ELSE 0
        /\ b[l] = IF k = "RET" /\ n.state = "received" /\ n.obj = obj THEN n.received ELSE 0
        /\ c[l] = IF k = "RET" /\ n.state = "pending" /\ n.obj = obj THEN n.ordered ELSE 0
        /\ d[l] = IF k = "RES" /\ n.state = "pending" /\ n.obj = obj THEN n.ordered ELSE 0
        /\ e[l] = IF k = "CMD" /\ n.state = "pending" /\ n.obj = obj THEN n.ordered ELSE 0
    BY <2>1 DEF Those
  <2>3. /\ w[l] = LineWeight("stock", obj, k, n) /\ x[l] = LineWeight("expected", obj, k, n)
        /\ bcd[l] = b[l] + (c[l] + d[l])
    OBVIOUS
  <2> HIDE DEF a, b, c, d, e, w, x, cd, bcd, k, n
  <2> QED
    BY <2>1, <2>2, <2>3 DEF LineWeight
<1>6. /\ LinesWeight("stock", obj, orders, lines) = Sum(w, S)
      /\ LinesWeight("expected", obj, orders, lines) = Sum(x, S)
  BY DEF LinesWeight
<1> HIDE DEF S, A, B, C, D, E, a, b, c, d, e, w, x, cd, bcd
<1>7. Sum(a, S) = Sum(w, S) + Sum(bcd, S)
  BY <1>1, <1>4, <1>5, SumOfSums
<1>8. Sum(bcd, S) = Sum(b, S) + Sum(cd, S)
  BY <1>1, <1>4, SumOfSums
<1>9. Sum(cd, S) = Sum(c, S) + Sum(d, S)
  BY <1>1, <1>4, SumOfSums
<1>10. Sum(x, S) = Sum(e, S)
  BY <1>1, <1>4, <1>5, SumSame
<1>11. Sum(w, S) \in Int /\ Sum(b, S) \in Int /\ Sum(c, S) \in Int /\ Sum(d, S) \in Int
  BY <1>1, <1>4, SumType
<1> DEFINE sa == Sum(a, S)
           sb == Sum(b, S)
           sc == Sum(c, S)
           sd == Sum(d, S)
           sw == Sum(w, S)
<1>12. /\ sa = sw + (sb + (sc + sd)) /\ sw \in Int /\ sb \in Int /\ sc \in Int /\ sd \in Int
  BY <1>7, <1>8, <1>9, <1>11
<1> HIDE DEF sa, sb, sc, sd, sw
<1>13. sw = sa - sb - sc - sd
  BY <1>12
<1> QED
  BY <1>3, <1>6, <1>10, <1>13 DEF sa, sb, sc, sd, sw, A, B, C, D, E

\* What lines of a kind and a state add up to is an integer.
LEMMA SumsOfLinesType ==
    ASSUME IInv
    PROVE  \A kind, state, obj : /\ Ordered(Those(kind, state, obj)) \in Int
                                 /\ Received(Those(kind, state, obj)) \in Int
<1> SUFFICES ASSUME NEW kind, NEW state, NEW obj
             PROVE  /\ Ordered(Those(kind, state, obj)) \in Int
                    /\ Received(Those(kind, state, obj)) \in Int
  OBVIOUS
<1> DEFINE T == Those(kind, state, obj)
           fo == [l \in DOMAIN lines |-> lines[l].ordered]
           fr == [l \in DOMAIN lines |-> lines[l].received]
<1>1. T \in SUBSET DOMAIN lines
  BY DEF Those
<1>2. IsFiniteSet(T)
  BY <1>1, RowsFacts, IntervalFinite, FS_Subset
<1>3. \A l \in T : fo[l] \in Int /\ fr[l] \in Int
  BY <1>1, RowsFacts DEF Line
<1>4. Ordered(T) = Sum(fo, T) /\ Received(T) = Sum(fr, T)
  BY DEF Ordered, Received, Sum
<1> HIDE DEF T, fo, fr
<1>5. Sum(fo, T) \in Int /\ Sum(fr, T) \in Int
  BY <1>2, <1>3, SumType
<1> QED
  BY <1>4, <1>5 DEF T

\* The same after a step.
LEMMA SumsOfLinesTypeNext ==
    ASSUME NEW kind, NEW state, NEW obj
    PROVE  IInv' => Ordered(Those(kind, state, obj))' \in Int /\ Received(Those(kind, state, obj))' \in Int
<1> DEFINE Integral == Ordered(Those(kind, state, obj)) \in Int /\ Received(Those(kind, state, obj)) \in Int
<1>1. IInv => Integral
  BY SumsOfLinesType
<1> HIDE DEF Integral
<1>2. IInv' => Integral'
  BY <1>1, PTL
<1> QED
  BY <1>2 DEF Integral

\* The stock, and what is expected on top of it, as weights.
LEMMA StockIsWeight ==
    ASSUME NEW obj, moves \in Seq(Move)
    PROVE  /\ Stock(obj) = Initial(obj) + MovesWeight("stock", obj, moves)
           /\ TheoreticalStock(obj) - Stock(obj) = MovesWeight("expected", obj, moves)
           /\ Stock(obj) \in Int
<1>1. \A type : Total(type, obj) = TotalOf(moves, type, obj)
  BY Zenon DEF Total, TotalOf, Sum
<1>2. \A type : TotalOf(moves, type, obj) \in Int
  BY TotalWhere
<1>3. Initial(obj) \in Int
  BY OrdersAssumption DEF Initial
<1>4. /\ MovesWeight("stock", obj, moves) = TotalOf(moves, "in", obj)
           - TotalOf(moves, "out", obj) - TotalOf(moves, "reserved", obj)
      /\ MovesWeight("expected", obj, moves) = TotalOf(moves, "pending", obj)
  BY WeightIsTotal
<1>5. /\ Stock(obj) = Initial(obj) + TotalOf(moves, "in", obj)
           - TotalOf(moves, "out", obj) - TotalOf(moves, "reserved", obj)
      /\ TheoreticalStock(obj) = Stock(obj) + TotalOf(moves, "pending", obj)
  BY <1>1 DEF Stock, TheoreticalStock
<1> QED
  BY <1>2, <1>3, <1>4, <1>5

\* Movements and lines that weigh the same explain each other.
LEMMA StockOfCalm ==
    ASSUME IInv, CalmBody, NEW obj \in Objects
    PROVE  Stock(obj) = StockOfLines(obj) /\ PendingIsOrdered(obj)
<1>1. \A k \in Amounts : MovesWeight(k, obj, moves) = LinesWeight(k, obj, orders, lines)
  BY DEF CalmBody, Balanced
<1>2. /\ MovesWeight("stock", obj, moves) = LinesWeight("stock", obj, orders, lines)
      /\ MovesWeight("expected", obj, moves) = LinesWeight("expected", obj, orders, lines)
  BY <1>1 DEF Amounts
<1>3. /\ Stock(obj) = Initial(obj) + MovesWeight("stock", obj, moves)
      /\ TheoreticalStock(obj) - Stock(obj) = MovesWeight("expected", obj, moves)
  BY StockIsWeight DEF IInv, RowsOK
<1>4. PendingIsOrdered(obj)
  BY <1>2, <1>3, WeightIsLines DEF PendingIsOrdered
<1>5. Stock(obj) = StockOfLines(obj)
  <2> DEFINE ra == Received(Those("CMD", "received", obj))
             rb == Received(Those("RET", "received", obj))
             oc == Ordered(Those("RET", "pending", obj))
             od == Ordered(Those("RES", "pending", obj))
  <2>1. ra \in Int /\ rb \in Int /\ oc \in Int /\ od \in Int /\ Initial(obj) \in Int
    BY SumsOfLinesType, OrdersAssumption DEF Initial
  <2>2. Stock(obj) = Initial(obj) + (ra - rb - oc - od)
    BY <1>2, <1>3, WeightIsLines
  <2>3. StockOfLines(obj) = Initial(obj) + ra - rb - oc - od
    BY DEF StockOfLines
  <2> HIDE DEF ra, rb, oc, od
  <2> QED
    BY <2>1, <2>2, <2>3
<1> QED
  BY <1>4, <1>5

\* With one careful tab at a time, the stock and what is expected on top of it
\* are what the lines of the orders say.
THEOREM StockExplained == Spec => []StockIsExplained
<1>1. IInv /\ CalmInv => StockIsExplained
  BY StockOfCalm DEF CalmInv, StockIsExplained
<1> QED
  BY <1>1, Inductive, CalmInductive, PTL

\* With one careful tab at a time, an order is open as long as it waits for
\* something.
THEOREM OpenWhileWaiting == Spec => []OpenOrdersWait
<1>1. IInv /\ CalmInv => OpenOrdersWait
  <2> SUFFICES ASSUME IInv, CalmBody
               PROVE  /\ \A l \in DOMAIN lines : lines[l].state = "pending" =>
                           orders[lines[l].order].state \in {"draft", "sended"}
                      /\ \A o \in Orders : orders[o].state = "sended" =>
                           \/ \E l \in LinesOf(o) : lines[l].state = "pending"
                           \/ \E t \in Tabs : tabs[t].at = "closing" /\ tabs[t].order = o
    BY DEF CalmInv, OpenOrdersWait
  <2>1. \A l \in DOMAIN lines : lines[l].state = "pending" =>
          orders[lines[l].order].state \in {"draft", "sended"}
    BY DEF CalmBody, LinesCalm, LineFits
  <2>2. \A o \in Orders : OrderCalm(o)
    BY DEF CalmBody
  <2> QED
    BY <2>1, <2>2 DEF OrderCalm
<1> QED
  BY <1>1, Inductive, CalmInductive, PTL

-----------------------------------------------------------------------------
(* What is reserved is covered: over any commit but the creation of a      *)
(* reservation, what the suppliers delivered does not decrease and what is *)
(* reserved does not grow; and a reservation takes at most the stock.      *)

\* No line has received less than nothing.
Positive == \A l \in DOMAIN lines : lines[l].received >= 0

\* What was delivered stays so.
Delivered ==
    /\ \A o \in Orders : orders'[o].kind = orders[o].kind
    /\ DOMAIN lines \subseteq DOMAIN lines'
    /\ \A l \in DOMAIN lines' : lines'[l].received >= 0
    /\ \A l \in DOMAIN lines :
         lines[l].state = "received" /\ orders[lines[l].order].kind = "CMD" => lines'[l] = lines[l]

\* The lines that reserve obj did so before the step.
ReservesNoMore(obj) ==
    \A l \in DOMAIN lines' :
      lines'[l].state = "pending" /\ orders'[lines'[l].order].kind = "RES" /\ lines'[l].obj = obj =>
        l \in DOMAIN lines /\ lines'[l] = lines[l]

Moderate == Delivered /\ \A obj : ReservesNoMore(obj)

\* A step that leaves the lines.
LEMMA SameLinesModerate ==
    ASSUME Positive, lines' = lines, \A o \in Orders : orders'[o].kind = orders[o].kind
    PROVE  Moderate
BY DEF Positive, Moderate, Delivered, ReservesNoMore

\* Only lines of supplier orders and returns are edited, and in a draft.
LEMMA EditModerate ==
    ASSUME IInv, CalmBody, Positive, NEW t \in Tabs, CommitEdit(t)
    PROVE  Moderate
<1> DEFINE q == tabs[t]
<1>1. q.at = "posted" /\ q.op = "edit" /\ orders' = orders
  BY DEF CommitEdit, Committing
<1>2. FreshRequest(q) /\ q.order \in Orders
  BY <1>1, PostedType DEF CalmBody, TabCalm, IInv, Request
<1>3. orders[q.order].state = "draft" /\ orders[q.order].kind # "RES"
      /\ FreshRead(q)
  BY <1>1, <1>2 DEF FreshRequest
<1>4. PICK row \in q.read : \E a, b :
        lines' = [lines EXCEPT ![row.id].obj = a, ![row.id].ordered = b]
  BY DEF CommitEdit
<1>5. PICK a, b : lines' = [lines EXCEPT ![row.id].obj = a, ![row.id].ordered = b]
  BY <1>4
<1>6. row.id \in DOMAIN lines /\ lines[row.id].order = q.order /\ lines[row.id].state # "deleted"
  BY <1>3 DEF FreshRead
<1>7. lines[row.id].state = "pending"
  BY <1>3, <1>6 DEF CalmBody, LinesCalm, LineFits, RowsFacts
<1>8. lines[row.id] \in Line /\ DOMAIN lines' = DOMAIN lines
  BY <1>5, <1>6, RowsFacts
<1>9. /\ lines'[row.id].received = lines[row.id].received /\ lines'[row.id].order = q.order
      /\ \A l \in DOMAIN lines : l # row.id => lines'[l] = lines[l]
  BY <1>5, <1>6, <1>8 DEF Line
<1>10. Delivered
  BY <1>1, <1>6, <1>7, <1>8, <1>9 DEF Delivered, Positive
<1>11. ASSUME NEW obj PROVE ReservesNoMore(obj)
  BY <1>1, <1>3, <1>8, <1>9 DEF ReservesNoMore
<1> QED
  BY <1>10, <1>11 DEF Moderate

\* The lines that go were not received from a supplier.
LEMMA RemovalModerate ==
    ASSUME IInv, CalmBody, Positive, NEW t \in Tabs, CommitDelete(t) \/ CommitCancel(t)
    PROVE  Moderate
<1> DEFINE q == tabs[t]
           o == q.order
           K == Ids(q.read)
<1>1. /\ q.at = "posted" /\ lines' = Removed(q.read)
      /\ \/ q.op = "delete" /\ orders' = orders
         \/ q.op = "cancel" /\ orders' = [orders EXCEPT ![o].state = "deleted"]
  BY DEF CommitDelete, CommitCancel, Committing
<1>2. FreshRequest(q) /\ o \in Orders
  BY <1>1, PostedType DEF CalmBody, TabCalm, IInv, Request
<1>3. /\ FreshRead(q)
      /\ orders[o].state = "draft" \/ (orders[o].state = "sended" /\ orders[o].kind = "RET")
  BY <1>1, <1>2 DEF FreshRequest
<1>4. \A l \in K : l \in DOMAIN lines /\ lines[l].order = o /\ lines[l].state # "deleted"
  BY <1>3 DEF FreshRead, Ids
<1>5. \A p \in Orders : orders'[p].kind = orders[p].kind
  BY <1>1, <1>2, RowsFacts DEF IInv, RowsOK, Row
<1>6. /\ DOMAIN lines' = DOMAIN lines
      /\ \A l \in DOMAIN lines :
           lines'[l] = IF l \in K THEN [lines[l] EXCEPT !.state = "deleted", !.move = 0] ELSE lines[l]
  BY <1>1 DEF Removed
<1>7. \A l \in DOMAIN lines : IF l \in K THEN /\ lines'[l].state = "deleted"
                                               /\ lines'[l].received = lines[l].received
                                         ELSE lines'[l] = lines[l]
  BY <1>6, RowsFacts DEF Line
<1>8. \A l \in K : ~(lines[l].state = "received" /\ orders[lines[l].order].kind = "CMD")
  BY <1>3, <1>4 DEF CalmBody, LinesCalm, LineFits
<1> HIDE DEF K
<1>9. Delivered
  BY <1>5, <1>6, <1>7, <1>8 DEF Delivered, Positive
<1>10. ASSUME NEW obj PROVE ReservesNoMore(obj)
  BY <1>6, <1>7 DEF ReservesNoMore
<1> QED
  BY <1>9, <1>10 DEF Moderate

\* The lines of a reservation that is given back are settled.
LEMMA ReturnModerate ==
    ASSUME IInv, CalmBody, Positive, NEW t \in Tabs, CommitReturn(t)
    PROVE  Moderate
<1> DEFINE q == tabs[t]
           o == q.order
           K == Ids(q.read)
           New(l) == IF \E row \in q.read : row.id = l
                       THEN [lines[l] EXCEPT !.state = "received",
                               !.received = (CHOOSE row \in q.read : row.id = l).line.ordered]
                       ELSE lines[l]
<1>1. /\ q.at = "posted" /\ q.op = "return" /\ lines' = [l \in DOMAIN lines |-> New(l)]
      /\ orders' = [orders EXCEPT ![o].state = "received"]
  BY DEF CommitReturn, Committing
<1>2. FreshRequest(q) /\ o \in Orders
  BY <1>1, PostedType DEF CalmBody, TabCalm, IInv, Request
<1>3. /\ orders[o].kind = "RES" /\ FreshRead(q)
      /\ K = {l \in LinesOf(o) : lines[l].state = "pending"}
  BY <1>1, <1>2 DEF FreshRequest
<1>4. \A p \in Orders : orders'[p].kind = orders[p].kind
  BY <1>1, <1>2 DEF IInv, RowsOK, Row
<1>5. \A l \in DOMAIN lines : l \in K <=> \E row \in q.read : row.id = l
  BY DEF Ids
<1>6. ASSUME NEW l \in DOMAIN lines
      PROVE  IF l \in K THEN New(l).state = "received" /\ New(l).received >= 0
                             /\ lines[l].state = "pending"
                        ELSE New(l) = lines[l]
  <2>1. CASE l \in K
    <3>1. PICK row \in q.read : row.id = l /\ row = CHOOSE x \in q.read : x.id = l
      BY <1>5, <2>1
    <3>2. row.line = lines[l] /\ lines[l] \in Line
      BY <1>3, <3>1, RowsFacts DEF FreshRead
    <3>3. lines[l].state = "pending"
      BY <1>3, <2>1
    <3>4. lines[l].ordered >= 1 /\ lines[l].ordered \in Int
      BY <3>2, <3>3 DEF CalmBody, LinesCalm, LineFits, Line
    <3>5. New(l) = [lines[l] EXCEPT !.state = "received", !.received = lines[l].ordered]
      BY <3>1, <3>2
    <3> HIDE DEF New
    <3>6. New(l).state = "received" /\ New(l).received = lines[l].ordered
      BY <3>2, <3>5 DEF Line
    <3> QED
      BY <2>1, <3>3, <3>4, <3>6
  <2>2. CASE l \notin K
    BY <1>5, <2>2
  <2> QED
    BY <2>1, <2>2
<1>7. DOMAIN lines' = DOMAIN lines /\ \A l \in DOMAIN lines : lines'[l] = New(l)
  BY <1>1
<1> HIDE DEF New, K
<1>8. Delivered
  BY <1>4, <1>6, <1>7 DEF Delivered, Positive
<1>9. ASSUME NEW obj PROVE ReservesNoMore(obj)
  BY <1>6, <1>7 DEF ReservesNoMore
<1> QED
  BY <1>8, <1>9 DEF Moderate

\* What stands behind s in s \o u \o v is of u or of v.
LEMMA Behind ==
    ASSUME NEW s \in Seq(Line), NEW u \in Seq(Line), NEW v \in Seq(Line),
           NEW i \in DOMAIN (s \o u \o v), i \notin 1 .. Len(s)
    PROVE  \/ \E j \in 1 .. Len(u) : (s \o u \o v)[i] = u[j]
           \/ \E j \in 1 .. Len(v) : (s \o u \o v)[i] = v[j]
<1> DEFINE a == Len(s)
           b == Len(u)
           c == Len(v)
           w == s \o u \o v
<1>1. /\ a \in Nat /\ b \in Nat /\ c \in Nat /\ w \in Seq(Line) /\ Len(w) = a + b + c
      /\ \A k \in 1 .. b : w[a + k] = u[k]
      /\ \A k \in 1 .. c : w[a + b + k] = v[k]
  BY Concat3
<1>2. i \in 1 .. a + b + c
  BY <1>1, LenProperties
<1> HIDE DEF a, b, c, w
<1>3. CASE i <= a + b
  <2>1. i - a \in 1 .. b /\ a + (i - a) = i
    BY <1>1, <1>2, <1>3 DEF a
  <2> QED
    BY <1>1, <2>1 DEF b, w
<1>4. CASE i > a + b
  <2>1. i - (a + b) \in 1 .. c /\ a + b + (i - (a + b)) = i
    BY <1>1, <1>2, <1>4
  <2> QED
    BY <1>1, <2>1 DEF c, w
<1> QED
  BY <1>1, <1>2, <1>3, <1>4 DEF b, c, w

\* A reception adds to what was delivered and reserves nothing.
LEMMA ReceiveModerate ==
    ASSUME IInv, IInv', CalmBody, Positive, NEW t \in Tabs, CommitReceive(t)
    PROVE  Moderate
<1> DEFINE q == tabs[t]
           o == q.order
<1>1. q.at = "posted" /\ q.op = "receive" /\ orders' = orders
  BY DEF CommitReceive, Committing
<1>2. o \in Orders /\ q.r \in Nat /\ q.c \in Nat /\ FreshRequest(q)
  BY <1>1, PostedType DEF IInv, Request, CalmBody, TabCalm
<1>3. orders[o].kind # "RES" /\ FreshRead(q)
  BY <1>1, <1>2 DEF FreshRequest
<1>4. PICK l \in DOMAIN lines : q.read = {[id |-> l, line |-> lines[l]]} /\ lines[l].state = "pending"
  BY <1>1, <1>2 DEF FreshRequest
<1> DEFINE Fresh == {x \in Line : x.order = o /\ x.received >= 0}
<1>5. PICK rem, m, mc, mp, what :
        lines' = [lines EXCEPT ![l] = ReceivedLine(lines[l], q.r, q.c, rem, m)]
             \o (IF q.c > 0 THEN <<NewLine(o, what, "cancelled", q.c, mc)>> ELSE <<>>)
             \o (IF rem > 0 THEN <<NewLine(o, what, "pending", rem, mp)>> ELSE <<>>)
        /\ rem \in Int /\ m \in Nat /\ mc \in Nat /\ mp \in Nat /\ what \in Objects
  <2>1. PICK row \in q.read :
          LET rem == row.line.ordered - q.r - q.c
              kind == orders[o].kind
              comp == Compensations(q.backing)
              m    == Len(moves) + Len(comp) + 1
              mc   == IF q.r > 0 THEN m + 1 ELSE m
              mp   == IF kind = "RET" /\ q.c > 0 THEN mc + 1 ELSE mc
          IN  lines' = [lines EXCEPT ![row.id] = ReceivedLine(lines[row.id], q.r, q.c, rem, m)]
               \o (IF q.c > 0 THEN <<NewLine(o, row.line.obj, "cancelled", q.c,
                                             IF kind = "RET" THEN mc ELSE 0)>> ELSE <<>>)
               \o (IF rem > 0 THEN <<NewLine(o, row.line.obj, "pending", rem, mp)>> ELSE <<>>)
    BY DEF CommitReceive
  <2>2. row = [id |-> l, line |-> lines[l]]
    BY <1>4
  <2>3. row.id = l /\ row.line = lines[l] /\ lines[l] \in Line
    BY <2>2, RowsFacts
  <2>4. Len(Compensations(q.backing)) \in Nat /\ Len(moves) \in Nat
    BY <1>1, RequestCompensations, RowsFacts, LenProperties
  <2> DEFINE rem == row.line.ordered - q.r - q.c
             kind == orders[o].kind
             m == Len(moves) + Len(Compensations(q.backing)) + 1
             mc == IF q.r > 0 THEN m + 1 ELSE m
             mp == IF kind = "RET" /\ q.c > 0 THEN mc + 1 ELSE mc
             md == IF kind = "RET" THEN mc ELSE 0
             what == row.line.obj
  <2>5. rem \in Int /\ what \in Objects
    BY <1>2, <2>3 DEF Line
  <2>6. m \in Nat /\ mc \in Nat /\ mp \in Nat /\ md \in Nat
    BY <2>4
  <2>7. lines' = [lines EXCEPT ![l] = ReceivedLine(lines[l], q.r, q.c, rem, m)]
             \o (IF q.c > 0 THEN <<NewLine(o, what, "cancelled", q.c, md)>> ELSE <<>>)
             \o (IF rem > 0 THEN <<NewLine(o, what, "pending", rem, mp)>> ELSE <<>>)
    BY <2>1, <2>3
  <2> HIDE DEF rem, m, mc, mp, md, what
  <2> QED
    BY <2>5, <2>6, <2>7
<1> DEFINE got == ReceivedLine(lines[l], q.r, q.c, rem, m)
           old == [lines EXCEPT ![l] = got]
           lc == NewLine(o, what, "cancelled", q.c, mc)
           lp == NewLine(o, what, "pending", rem, mp)
           cs == IF q.c > 0 THEN <<lc>> ELSE <<>>
           ps == IF rem > 0 THEN <<lp>> ELSE <<>>
<1>6. /\ lines[l] \in Line /\ lines[l].order = o /\ lines[l].received >= 0
      /\ lines \in Seq(Line) /\ DOMAIN lines = 1 .. Len(lines) /\ Len(lines) \in Nat
  <2>1. [id |-> l, line |-> lines[l]].line.order = o
    BY <1>3, <1>4 DEF FreshRead
  <2> QED
    BY <2>1, RowsFacts DEF Positive
<1>7. got \in Line /\ got.order = o /\ got.received >= 0
  <2>1. got \in Line
    <3>1. rem \in Int /\ m \in Nat /\ got = ReceivedLine(lines[l], q.r, q.c, rem, m)
      BY <1>5
    <3> HIDE DEF got
    <3> QED
      BY <1>2, <1>6, <3>1, ReceivedLineType
  <2>2. got.order = o /\ (got.received = q.r \/ got.received = lines[l].received)
    BY <1>6 DEF ReceivedLine, Line
  <2> QED
    BY <1>2, <1>6, <2>1, <2>2
<1>8. lc \in Fresh /\ lp \in Fresh
  <2>1. lc \in Line /\ lp \in Line
    BY <1>2, <1>5, NewLineType DEF LineStates
  <2> QED
    BY <2>1 DEF NewLine
<1>9. old \in Seq(Line) /\ Len(old) = Len(lines)
      /\ \A i \in 1 .. Len(lines) : old[i] = IF i = l THEN got ELSE lines[i]
  <2> HIDE DEF got
  <2> QED
    BY <1>6, <1>7, ExceptSeq
<1>10. lines' = old \o cs \o ps
  BY <1>5
<1> HIDE DEF got, lc, lp
<1>11. cs \in Seq(Fresh) /\ ps \in Seq(Fresh)
  <2> HIDE DEF Fresh
  <2> QED
    BY <1>8
<1>12. cs \in Seq(Line) /\ ps \in Seq(Line)
  BY <1>8
<1> HIDE DEF old, cs, ps
<1>13. /\ Len(lines') = Len(old) + Len(cs) + Len(ps) /\ lines' \in Seq(Line)
       /\ \A i \in 1 .. Len(old) : lines'[i] = old[i]
       /\ \A i \in 1 .. Len(cs) : lines'[Len(old) + i] = cs[i]
       /\ \A i \in 1 .. Len(ps) : lines'[Len(old) + Len(cs) + i] = ps[i]
  <2>1. old \in Seq(Line) /\ cs \in Seq(Line) /\ ps \in Seq(Line) /\ lines' = old \o cs \o ps
    BY <1>9, <1>10, <1>12
  <2> HIDE DEF Fresh, q, o
  <2> QED
    BY <2>1, Concat3
<1>14. Len(cs) \in Nat /\ Len(ps) \in Nat /\ DOMAIN lines' = 1 .. Len(lines')
  BY <1>12, <1>13, LenProperties
<1>15. /\ \A i \in 1 .. Len(cs) : cs[i] \in Fresh
       /\ \A i \in 1 .. Len(ps) : ps[i] \in Fresh
  <2> HIDE DEF Fresh
  <2> QED
    BY <1>11, ElementOfSeq
<1>16. ASSUME NEW i \in DOMAIN lines', i \notin DOMAIN lines
       PROVE  lines'[i].order = o /\ lines'[i].received >= 0
  <2>1. (\E j \in 1 .. Len(cs) : lines'[i] = cs[j]) \/ (\E j \in 1 .. Len(ps) : lines'[i] = ps[j])
    <3>1. old \in Seq(Line) /\ cs \in Seq(Line) /\ ps \in Seq(Line)
      BY <1>9, <1>12
    <3>2. i \in DOMAIN (old \o cs \o ps) /\ i \notin 1 .. Len(old)
      BY <1>6, <1>9, <1>10, <1>16
    <3> HIDE DEF Fresh, q, o
    <3>3. \/ \E j \in 1 .. Len(cs) : (old \o cs \o ps)[i] = cs[j]
          \/ \E j \in 1 .. Len(ps) : (old \o cs \o ps)[i] = ps[j]
      BY <3>1, <3>2, Behind
    <3> QED
      BY <1>10, <3>3
  <2> QED
    BY <1>15, <2>1
<1>17. /\ DOMAIN lines \subseteq DOMAIN lines'
       /\ \A i \in DOMAIN lines : lines'[i] = IF i = l THEN got ELSE lines[i]
  BY <1>6, <1>9, <1>13, <1>14
<1>18. Delivered
  BY <1>1, <1>4, <1>7, <1>16, <1>17 DEF Delivered, Positive
<1>19. ASSUME NEW obj PROVE ReservesNoMore(obj)
  BY <1>1, <1>3, <1>7, <1>16, <1>17 DEF ReservesNoMore
<1> QED
  BY <1>18, <1>19 DEF Moderate
----------------------------------------------------------------------------

\* A new line was not delivered yet, and reserves only when its order is a
\* reservation.
LEMMA CreateModerate ==
    ASSUME IInv, CalmBody, Positive, NEW t \in Tabs, CommitCreate(t)
    PROVE  /\ Delivered
           /\ \A obj : orders[tabs[t].order].kind # "RES" \/ obj # tabs[t].obj => ReservesNoMore(obj)
           /\ DOMAIN lines' = DOMAIN lines \union {Len(lines) + 1}
           /\ \A l \in DOMAIN lines : lines'[l] = lines[l]
           /\ lines'[Len(lines) + 1].ordered = tabs[t].r
           /\ Len(lines) + 1 \notin DOMAIN lines /\ orders' = orders
           /\ tabs[t].at = "posted" /\ tabs[t].op = "create"
           /\ tabs[t].obj \in Objects /\ tabs[t].r \in Nat /\ FreshRequest(tabs[t])
<1> DEFINE q == tabs[t]
           n == NewLine(q.order, q.obj, "pending", q.r, Len(moves) + 1)
<1>1. /\ q.at = "posted" /\ q.op = "create" /\ orders' = orders
      /\ lines' = Append(lines, n)
  BY DEF CommitCreate, Committing
<1>2. q.order \in Orders /\ q.obj \in Objects /\ q.r \in Nat /\ FreshRequest(q)
  BY <1>1, PostedType DEF IInv, Request, CalmBody, TabCalm
<1>3. lines \in Seq(Line) /\ Len(lines) \in Nat /\ DOMAIN lines = 1 .. Len(lines) /\ Len(moves) \in Nat
  BY RowsFacts
<1>4. n \in Line
  <2>1. Len(moves) + 1 \in Nat /\ "pending" \in LineStates /\ q.r \in Int
    BY <1>2, <1>3 DEF LineStates
  <2> HIDE DEF q
  <2> QED
    BY <1>2, <2>1, NewLineType
<1>5. n.received = 0 /\ n.ordered = q.r /\ n.order = q.order /\ n.obj = q.obj
  BY DEF NewLine
<1> HIDE DEF n
<1>6. /\ Len(lines') = Len(lines) + 1 /\ lines' \in Seq(Line) /\ DOMAIN lines' = 1 .. Len(lines')
      /\ \A l \in 1 .. Len(lines) : lines'[l] = lines[l]
      /\ lines'[Len(lines) + 1] = n
  BY <1>1, <1>3, <1>4, AppendProperties, LenProperties
<1>7. /\ DOMAIN lines' = DOMAIN lines \union {Len(lines) + 1}
      /\ Len(lines) + 1 \notin DOMAIN lines
      /\ \A l \in DOMAIN lines : lines'[l] = lines[l]
  BY <1>3, <1>6
<1>8. Delivered
  BY <1>1, <1>5, <1>6, <1>7 DEF Delivered, Positive
<1>9. ASSUME NEW obj, orders[q.order].kind # "RES" \/ obj # q.obj PROVE ReservesNoMore(obj)
  BY <1>1, <1>5, <1>6, <1>7, <1>9 DEF ReservesNoMore
<1> QED
  BY <1>1, <1>2, <1>5, <1>6, <1>7, <1>8, <1>9

\* A step that keeps what was delivered keeps its sum, or adds to it.
LEMMA DeliveredGrows ==
    ASSUME IInv, IInv', Positive, Delivered, NEW obj
    PROVE  Received(Those("CMD", "received", obj)) <= Received(Those("CMD", "received", obj))'
<1> DEFINE S == Those("CMD", "received", obj)
           T == Those("CMD", "received", obj)'
           f == [l \in DOMAIN lines |-> lines[l].received]
           g == [l \in DOMAIN lines' |-> lines'[l].received]
<1>1. /\ DOMAIN lines = 1 .. Len(lines) /\ \A l \in DOMAIN lines : lines[l].received \in Int
      /\ \A l \in DOMAIN lines : lines[l].order \in Orders
  BY RowsFacts DEF Line
<1>2. /\ IsFiniteSet(DOMAIN lines') /\ \A l \in DOMAIN lines' : lines'[l].received \in Int
  <2>1. lines' \in Seq(Line)
    BY DEF IInv, RowsOK
  <2>2. DOMAIN lines' = 1 .. Len(lines') /\ Len(lines') \in Nat
    BY <2>1, LenProperties
  <2>3. \A l \in DOMAIN lines' : lines'[l] \in Line
    BY <2>1, <2>2, ElementOfSeq
  <2> QED
    BY <2>2, <2>3, IntervalFinite DEF Line
<1>3. S \subseteq DOMAIN lines /\ T \subseteq DOMAIN lines' /\ S \subseteq T
  BY <1>1 DEF Those, Delivered
<1>4. IsFiniteSet(T)
  BY <1>2, <1>3, FS_Subset
<1>5. /\ \A x \in S : f[x] \in Int /\ g[x] = f[x]
      /\ \A x \in T : g[x] \in Int /\ g[x] >= 0
  BY <1>1, <1>2, <1>3 DEF Those, Delivered
<1>6. Received(S) = Sum(f, S) /\ Received(Those("CMD", "received", obj))' = Sum(g, T)
  BY DEF Received, Sum
<1> HIDE DEF S, T, f, g
<1>7. Sum(f, S) <= Sum(g, T)
  <2>1. (\A x \in S : f[x] <= g[x]) /\ \A x \in T \ S : g[x] >= 0
    BY <1>3, <1>5
  <2> QED
    BY <1>3, <1>4, <1>5, <2>1, SumGrows
<1> QED
  BY <1>6, <1>7 DEF S

\* A step that reserves no more of obj keeps what is reserved of it, or frees some.
LEMMA ReservedShrinks ==
    ASSUME IInv, IInv', CalmBody, NEW obj, ReservesNoMore(obj), \A o \in Orders : orders'[o].kind = orders[o].kind
    PROVE  /\ Ordered(Those("RES", "pending", obj))' <= Ordered(Those("RES", "pending", obj))
           /\ Those("RES", "pending", obj)' \subseteq Those("RES", "pending", obj)
<1> DEFINE S == Those("RES", "pending", obj)'
           T == Those("RES", "pending", obj)
           f == [l \in DOMAIN lines' |-> lines'[l].ordered]
           g == [l \in DOMAIN lines |-> lines[l].ordered]
<1>1. /\ IsFiniteSet(DOMAIN lines) /\ \A l \in DOMAIN lines : lines[l].ordered \in Int
      /\ \A l \in DOMAIN lines : lines[l].order \in Orders
  BY RowsFacts, IntervalFinite DEF Line
<1>2. S \subseteq T /\ T \subseteq DOMAIN lines /\ S \subseteq DOMAIN lines'
      /\ \A l \in S : lines'[l] = lines[l]
  BY <1>1 DEF Those, ReservesNoMore
<1>3. IsFiniteSet(T)
  BY <1>1, <1>2, FS_Subset
<1>4. /\ \A x \in S : f[x] \in Int /\ f[x] = g[x]
      /\ \A x \in T : g[x] \in Int /\ g[x] >= 0
  BY <1>1, <1>2 DEF Those, CalmBody, LinesCalm, LineFits
<1>5. Ordered(Those("RES", "pending", obj))' = Sum(f, S) /\ Ordered(T) = Sum(g, T)
  BY DEF Ordered, Sum
<1> HIDE DEF S, T, f, g
<1>6. Sum(f, S) <= Sum(g, T)
  <2>1. (\A x \in S : f[x] <= g[x]) /\ \A x \in T \ S : g[x] >= 0
    BY <1>2, <1>4
  <2> QED
    BY <1>2, <1>3, <1>4, <2>1, SumGrows
<1> QED
  BY <1>2, <1>5, <1>6 DEF S, T

CoveredObj(obj) ==
    IF obj \in Counted
      THEN Ordered(Those("RES", "pending", obj))
             <= InitialStock + Received(Those("CMD", "received", obj))
      ELSE Cardinality(Those("RES", "pending", obj)) <= 1

Covered == Positive /\ \A obj \in Objects : CoveredObj(obj)

\* A step that keeps what was delivered and reserves no more of obj leaves it covered.
LEMMA CoveredKept ==
    ASSUME IInv, IInv', CalmBody, Covered, Delivered, NEW obj \in Objects, ReservesNoMore(obj)
    PROVE  CoveredObj(obj)'
<1> DEFINE r == Received(Those("CMD", "received", obj))
           d == Ordered(Those("RES", "pending", obj))
           T == Those("RES", "pending", obj)
<1>1. r \in Int /\ d \in Int /\ r' \in Int /\ d' \in Int
  BY SumsOfLinesType, SumsOfLinesTypeNext
<1>2. r <= r' /\ d' <= d /\ T' \subseteq T
  BY DeliveredGrows, ReservedShrinks DEF Covered, Delivered
<1>3. CoveredObj(obj) /\ InitialStock \in Int
  BY OrdersAssumption DEF Covered
<1>4. IsFiniteSet(T)
  <2>1. IsFiniteSet(DOMAIN lines) /\ T \subseteq DOMAIN lines
    BY RowsFacts, IntervalFinite DEF Those
  <2> QED
    BY <2>1, FS_Subset
<1>5. Cardinality(T') <= Cardinality(T) /\ Cardinality(T') \in Nat /\ Cardinality(T) \in Nat
  <2> HIDE DEF T
  <2> QED
    BY <1>2, <1>4, FS_Subset, FS_CardinalityType
<1>6. CASE obj \in Counted
  <2>1. d <= InitialStock + r
    BY <1>3, <1>6 DEF CoveredObj
  <2>2. d' <= InitialStock + r'
    <3>1. InitialStock \in Int /\ r <= r' /\ d' <= d
      BY <1>2, <1>3
    <3>2. \A a, b, c, e, i \in Int : a <= b /\ b <= i + c /\ c <= e => a <= i + e
      OBVIOUS
    <3> QED
      BY <1>1, <2>1, <3>1, <3>2
  <2> QED
    BY <1>6, <2>2 DEF CoveredObj
<1>7. CASE obj \notin Counted
  <2>1. Cardinality(T) <= 1
    BY <1>3, <1>7 DEF CoveredObj
  <2>2. Cardinality(T') <= 1
    <3> HIDE DEF T
    <3> QED
      BY <1>5, <2>1
  <2> QED
    BY <1>7, <2>2 DEF CoveredObj
<1> QED
  BY <1>6, <1>7

\* What the lines of a kind and a state received is not negative, nor is what
\* the pending ones ordered.
LEMMA SumsOfLinesNat ==
    ASSUME IInv, CalmBody, Positive, NEW kind, NEW obj
    PROVE  /\ Received(Those(kind, "received", obj)) \in Nat
           /\ Ordered(Those(kind, "pending", obj)) \in Nat
<1> DEFINE S == Those(kind, "received", obj)
           T == Those(kind, "pending", obj)
           f == [l \in DOMAIN lines |-> lines[l].received]
           g == [l \in DOMAIN lines |-> lines[l].ordered]
<1>1. /\ IsFiniteSet(DOMAIN lines)
      /\ \A l \in DOMAIN lines : lines[l].ordered \in Int /\ lines[l].received \in Int
  BY RowsFacts, IntervalFinite DEF Line
<1>2. S \subseteq DOMAIN lines /\ T \subseteq DOMAIN lines
  BY DEF Those
<1>3. IsFiniteSet(S) /\ IsFiniteSet(T)
  BY <1>1, <1>2, FS_Subset
<1>4. (\A l \in S : f[l] \in Nat) /\ \A l \in T : g[l] \in Nat
  BY <1>1, <1>2 DEF Those, CalmBody, LinesCalm, LineFits, Positive
<1>5. Received(S) = Sum(f, S) /\ Ordered(T) = Sum(g, T)
  BY DEF Received, Ordered, Sum
<1> HIDE DEF S, T, f, g
<1>6. Sum(f, S) \in Nat /\ Sum(g, T) \in Nat
  BY <1>3, <1>4, SumNat
<1> QED
  BY <1>5, <1>6 DEF S, T

\* A reservation line takes at most what is available of a counted object, and
\* of another object it is the first one.
LEMMA ReservationCovered ==
    ASSUME IInv, IInv', CalmBody, Covered, NEW t \in Tabs, CommitCreate(t),
           orders[tabs[t].order].kind = "RES", NEW obj, obj = tabs[t].obj
    PROVE  CoveredObj(obj)'
<1> DEFINE q == tabs[t]
           n == Len(lines) + 1
           T == Those("RES", "pending", obj)
           r == Received(Those("CMD", "received", obj))
           d == Ordered(T)
<1>1. /\ Delivered /\ DOMAIN lines' = DOMAIN lines \union {n}
      /\ \A l \in DOMAIN lines : lines'[l] = lines[l]
      /\ lines'[n].ordered = q.r /\ n \notin DOMAIN lines /\ orders' = orders
      /\ obj \in Objects /\ q.r \in Nat
  BY CreateModerate DEF Covered
<1>2. Allowed(obj, q.r) /\ q.r >= 1
  BY CreateModerate DEF Covered, FreshRequest
<1>3. T' \subseteq T \union {n} /\ T \subseteq DOMAIN lines
  BY <1>1 DEF Those
<1>4. CASE obj \notin Counted
  <2>1. Available(obj) = 0
    BY <1>4 DEF Available
  <2>2. ~HasHistory(obj)
    BY <1>1, <1>2, <2>1 DEF Allowed
  <2>3. T = {}
    <3> SUFFICES ASSUME NEW l \in T PROVE FALSE
      OBVIOUS
    <3>1. l \in DOMAIN lines /\ lines[l].state = "pending" /\ lines[l].obj = obj
      BY DEF Those
    <3>2. /\ lines[l].move \in 0 .. Len(moves) /\ lines[l].move # 0
          /\ moves[lines[l].move] =
               NewMove(MoveType(orders[lines[l].order].kind), lines[l].obj, lines[l].ordered)
      BY <3>1 DEF IInv, LinesOK, LineOK
    <3>3. lines[l].move \in DOMAIN moves
      BY <3>2, RowsFacts
    <3>4. moves[lines[l].move].obj = obj
      BY <3>1, <3>2 DEF NewMove
    <3> QED
      BY <2>2, <3>3, <3>4 DEF HasHistory
  <2>4. T' \subseteq {n}
    BY <1>3, <2>3
  <2> HIDE DEF T, n
  <2>5. Cardinality(T') <= 1
    <3>1. IsFiniteSet({n}) /\ Cardinality({n}) = 1
      BY FS_Singleton
    <3> QED
      BY <2>4, <3>1, FS_Subset
  <2> QED
    BY <1>4, <2>5 DEF CoveredObj, T
<1>5. CASE obj \in Counted
  <2>1. HasHistory(obj) /\ Available(obj) = Max({Stock(obj), 0})
    BY <1>5 DEF HasHistory, Available
  <2>2. Stock(obj) = StockOfLines(obj) /\ Stock(obj) \in Int
    BY <1>1, StockOfCalm, StockIsWeight DEF IInv, RowsOK
  <2>3. q.r <= Stock(obj)
    <3> DEFINE s == Stock(obj)
    <3>1. Max({s, 0}) \in {s, 0}
      <4>1. \E x \in {s, 0} : \A y \in {s, 0} : x >= y
        BY <2>2
      <4> QED
        BY <4>1 DEF Max
    <3>2. q.r <= Max({s, 0})
      BY <1>2, <2>1 DEF Allowed
    <3>3. s \in Int /\ q.r \in Int /\ q.r >= 1
      BY <1>1, <1>2, <2>2
    <3> HIDE DEF s, q
    <3>4. q.r <= s
      BY <3>1, <3>2, <3>3
    <3> QED
      BY <3>4 DEF s
  <2> DEFINE rb == Received(Those("RET", "received", obj))
             oc == Ordered(Those("RET", "pending", obj))
  <2>4. r \in Nat /\ rb \in Nat /\ oc \in Nat /\ d \in Nat /\ InitialStock \in Nat
    BY SumsOfLinesNat, OrdersAssumption DEF Covered
  <2>5. StockOfLines(obj) = InitialStock + r - rb - oc - d
    BY <1>5 DEF StockOfLines, Initial
  <2>6. r' \in Int /\ d' \in Int /\ r <= r'
    BY <1>1, SumsOfLinesTypeNext, DeliveredGrows DEF Covered
  <2>7. d' <= d + q.r
    <3> DEFINE U == T \union {n}
               f == [l \in DOMAIN lines' |-> lines'[l].ordered]
               g == [l \in DOMAIN lines |-> lines[l].ordered]
    <3>1. /\ IsFiniteSet(DOMAIN lines) /\ \A l \in DOMAIN lines : lines[l].ordered \in Int
      BY RowsFacts, IntervalFinite DEF Line
    <3>2. IsFiniteSet(T) /\ n \notin T
      BY <1>1, <1>3, <3>1, FS_Subset
    <3>3. (\A l \in T : g[l] \in Int /\ f[l] = g[l] /\ f[l] >= 0) /\ f[n] = q.r
      BY <1>1, <3>1 DEF Those, CalmBody, LinesCalm, LineFits
    <3>4. d = Sum(g, T) /\ d' = Sum(f, T')
      BY DEF Ordered, Sum
    <3> HIDE DEF T, d, f, g, n
    <3>5. Sum(f, T \union {n}) = Sum(f, T) + f[n]
      BY <1>1, <3>2, <3>3, SumAdd
    <3>6. Sum(f, T) = Sum(g, T)
      BY <3>2, <3>3, SumSame
    <3>7. Sum(f, T') <= Sum(f, T \union {n})
      <4>1. IsFiniteSet(T \union {n})
        BY <3>2, FS_AddElement
      <4>2. \A x \in T \union {n} : f[x] \in Int /\ f[x] >= 0 /\ f[x] <= f[x]
        BY <1>1, <3>3
      <4> QED
        BY <1>3, <4>1, <4>2, SumGrows
    <3> QED
      BY <3>3, <3>4, <3>5, <3>6, <3>7
  <2>8. d' <= InitialStock + r'
    <3>1. q.r \in Int /\ q.r <= InitialStock + r - rb - oc - d
      BY <1>1, <2>2, <2>3, <2>5
    <3>2. d + q.r <= InitialStock + r
      BY <2>4, <3>1
    <3>3. \A a, b, c, e, i \in Int : a <= b /\ b <= i + c /\ c <= e => a <= i + e
      OBVIOUS
    <3> QED
      BY <2>4, <2>6, <2>7, <3>1, <3>2, <3>3
  <2> QED
    BY <1>5, <2>8 DEF CoveredObj
<1> QED
  BY <1>4, <1>5

\* Covered is kept by every step of a careful tab.
LEMMA CoveredStep ==
    ASSUME IInv, IInv', CalmBody, calm, Covered, [Next]_vars
    PROVE  Covered'
<1>1. ASSUME Delivered, \A obj \in Objects : CoveredObj(obj)' PROVE Covered'
  BY <1>1 DEF Covered, Positive, Delivered
<1>2. ASSUME Moderate PROVE Covered'
  BY <1>1, <1>2, CoveredKept DEF Moderate
<1>3. Positive
  BY DEF Covered
<1>4. CASE UNCHANGED vars
  BY <1>2, <1>3, <1>4, SameLinesModerate DEF vars
<1>5. ASSUME NEW t \in Tabs, Browse(t) PROVE Covered'
  <2>1. lines' = lines /\ \A o \in Orders : orders'[o].kind = orders[o].kind
    BY <1>5 DEF Browse, CreateOrder, OpenPage, ClosePage, db, IInv, RowsOK, Row
  <2> QED
    BY <1>2, <1>3, <2>1, SameLinesModerate
<1>6. ASSUME NEW t \in Tabs, Submit(t) PROVE Covered'
  <2>1. UNCHANGED db
    BY <1>6 DEF Submit, PostConfirm, PostCancel, PostReturn, PostCreate, PostDelete, PostEdit,
                PostReceive, Post
  <2> QED
    BY <1>2, <1>3, <2>1, SameLinesModerate DEF db
<1>7. ASSUME NEW t \in Tabs, CommitCreate(t) PROVE Covered'
  <2>1. Delivered
    BY <1>3, <1>7, CreateModerate
  <2>2. ASSUME NEW obj \in Objects PROVE CoveredObj(obj)'
    <3>1. CASE orders[tabs[t].order].kind = "RES" /\ obj = tabs[t].obj
      BY <1>7, <3>1, ReservationCovered
    <3>2. CASE orders[tabs[t].order].kind # "RES" \/ obj # tabs[t].obj
      BY <1>3, <1>7, <2>1, <3>2, CreateModerate, CoveredKept
    <3> QED
      BY <3>1, <3>2
  <2> QED
    BY <1>1, <2>1, <2>2
<1>8. ASSUME NEW t \in Tabs, CommitConfirm(t) \/ Fail(t) \/ Close(t) PROVE Covered'
  <2>1. lines' = lines
    BY <1>8 DEF CommitConfirm, Fail, Close, db
  <2>2. ASSUME NEW o \in Orders PROVE orders'[o].kind = orders[o].kind
    <3>1. orders \in [Orders -> Row]
      BY DEF IInv, RowsOK
    <3>2. orders' = orders \/ \E x, y : orders' = [orders EXCEPT ![x].state = y]
      BY <1>8 DEF CommitConfirm, Fail, Close, db
    <3> QED
      BY <3>1, <3>2 DEF Row
  <2> QED
    BY <1>2, <1>3, <2>1, <2>2, SameLinesModerate
<1>9. ASSUME NEW t \in Tabs, Serve(t) PROVE Covered'
  BY <1>2, <1>3, <1>7, <1>8, <1>9, EditModerate, RemovalModerate, ReceiveModerate, ReturnModerate
     DEF Serve
<1>10. ASSUME NEW t \in Tabs PROVE ~Crash(t)
  BY DEF Crash
<1> QED
  BY <1>4, <1>5, <1>6, <1>9, <1>10 DEF Next

\* With one careful tab at a time, what is reserved of a counted object is
\* covered by its inventory and its deliveries, and an object that was never
\* counted has one reservation at most (_validate_reservation_quantity).
THEOREM ReservedIsCovered == Spec => []ReservationsAreCovered
<1> DEFINE J == calm => Covered
<1>1. Init => J
  <2> SUFFICES ASSUME Init PROVE Covered
    OBVIOUS
  <2>1. lines = <<>> /\ DOMAIN lines = {}
    BY DEF Init
  <2>2. \A kind, state, obj : Those(kind, state, obj) = {}
    BY <2>1 DEF Those
  <2>3. \A obj : /\ Ordered(Those("RES", "pending", obj)) = 0
                 /\ Received(Those("CMD", "received", obj)) = 0
    BY <2>2, SumEmpty DEF Ordered, Received, Sum
  <2>4. Cardinality({}) = 0 /\ InitialStock \in Nat
    BY FS_EmptySet, OrdersAssumption
  <2>5. \A obj : CoveredObj(obj)
    BY <2>2, <2>3, <2>4 DEF CoveredObj
  <2> QED
    BY <2>1, <2>5 DEF Covered, Positive
<1>2. IInv /\ IInv' /\ CalmInv /\ J /\ [Next]_vars => J'
  <2>1. [Next]_vars => calm' = calm
    BY DEF Next, vars
  <2> QED
    BY <2>1, CoveredStep DEF CalmInv
<1>3. J => ReservationsAreCovered
  BY DEF Covered, CoveredObj, ReservationsAreCovered
<1> HIDE DEF J
<1> QED
  BY <1>1, <1>2, <1>3, Inductive, CalmInductive, PTL DEF Spec
=============================================================================
