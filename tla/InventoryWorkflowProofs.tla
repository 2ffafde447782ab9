----------------------- MODULE InventoryWorkflowProofs -----------------------
(***************************************************************************)
(* Proofs about InventoryWorkflow, for any books, tabs and quantities:     *)
(*   - TypeOK, whatever is interleaved;                                    *)
(*   - StockIsShelf, when nothing is moved during an inventory and the     *)
(*     operators are careful, failed commits and any number of inventories *)
(*     at a time included;                                                 *)
(*   - FailuresAreTrue: a page told of a failure has its own commit rolled *)
(*     back, when no other commit has met it.                              *)
(***************************************************************************)
EXTENDS InventoryWorkflow, TLAPS

\* What the inventory of tab t knows is still on the shelves.
CountOK(t) ==
    tabs[t].at = "counted" =>
      /\ \A o \in tabs[t].scanned : tabs[t].count[o] = shelf[o]
      /\ tabs[t].complete => \A o \in Objects \ tabs[t].scanned : shelf[o] = 0
Exact(lines) == \A o \in lines.of : lines.real[o] = shelf[o]
LinesOK(t) ==
    /\ tabs[t].at = "prepared" => Exact(tabs[t].lines)
    /\ threads[t].at \in {"starting", "applying"} => Exact(threads[t].lines)

IInv == StockIsShelf /\ \A t \in Tabs : CountOK(t) /\ LinesOK(t)

-----------------------------------------------------------------------------
(* Type correctness.                                                       *)

\* A movement keeps the sums of an object well typed.
LEMMA RecordType ==
    ASSUME NEW sums \in Sums, NEW qty \in Int,
           NEW type \in {"inventory", "in", "out", "reserved", "pending"}
    PROVE  Record(sums, type, qty) \in Sums
BY DEF Record, Inventoried, Sums

\* Both stocks are numbers.
LEMMA StockType ==
    ASSUME TypeOK, NEW o \in Objects
    PROVE  Stock(o) \in Int /\ TheoreticalStock(o) \in Int
BY DEF TypeOK, Stock, TheoreticalStock, Sums

\* Settling an object leaves what was counted.
LEMMA SettleType ==
    ASSUME NEW sums \in Sums, NEW th \in Int, NEW real \in Int
    PROVE  Settle(sums, th, real) = Inventoried(real) /\ Inventoried(real) \in Sums
BY DEF Settle, Record, Inventoried, Sums

\* Types, at the start.
LEMMA InitType == Init => TypeOK
<1> SUFFICES ASSUME Init PROVE TypeOK
  OBVIOUS
<1>1. ledger \in [Objects -> Sums]
  BY InventoryAssumption DEF Init, Inventoried, Sums
<1>2. tabs \in [Tabs -> Tab] /\ threads \in [Tabs -> Thread]
  BY DEF Init, Tab, Thread
<1> QED
  BY <1>1, <1>2, InventoryAssumption DEF Init, TypeOK

\* The movements of the shop keep the types.
LEMMA TradeType ==
    ASSUME TypeOK, NEW o \in Objects, Trade(o)
    PROVE  TypeOK'
<1>0. ledger[o] \in Sums /\ ledger[o].inventory \in Int
  BY DEF TypeOK, Sums
<1>1. CASE OrderCopy(o)
  <2>1. Record(ledger[o], "pending", 1) \in Sums
    BY <1>0, RecordType
  <2> QED
    BY <1>1, <2>1 DEF OrderCopy, TypeOK
<1>2. CASE ReceiveCopy(o)
  <2>1. Record(Record(ledger[o], "pending", -1), "in", 1) \in Sums
    BY <1>0, RecordType
  <2> QED
    BY <1>2, <2>1 DEF ReceiveCopy, TypeOK
<1>3. CASE ReserveCopy(o)
  <2>1. Record(ledger[o], "reserved", 1) \in Sums
    BY <1>0, RecordType
  <2> QED
    BY <1>3, <2>1 DEF ReserveCopy, TypeOK
<1>4. CASE ReleaseCopy(o)
  <2>1. Record(ledger[o], "reserved", -1) \in Sums
    BY <1>0, RecordType
  <2> QED
    BY <1>4, <2>1 DEF ReleaseCopy, TypeOK
<1>5. CASE SendBackCopy(o)
  <2>1. Record(ledger[o], "out", 1) \in Sums
    BY <1>0, RecordType
  <2> QED
    BY <1>5, <2>1 DEF SendBackCopy, TypeOK
<1>6. CASE LoseCopy(o)
  BY <1>6 DEF LoseCopy, TypeOK
<1>7. CASE CorrectPrice(o)
  <2>1. Record(ledger[o], "inventory", ledger[o].inventory) \in Sums
    BY <1>0, RecordType
  <2> QED
    BY <1>7, <2>1 DEF CorrectPrice, TypeOK, shop
<1> QED
  BY <1>1, <1>2, <1>3, <1>4, <1>5, <1>6, <1>7 DEF Trade

\* So do the pages of the inventory.
LEMMA PageType ==
    ASSUME TypeOK, NEW t \in Tabs, Page(t)
    PROVE  TypeOK'
<1> USE DEF stock, shop, Goto
<1>1. ASSUME NEW S \in SUBSET Objects, NEW complete \in BOOLEAN, Count(t, S, complete)
      PROVE  TypeOK'
  <2>1. [at |-> "counted", complete |-> complete, scanned |-> S, count |-> shelf] \in Tab
    BY DEF TypeOK, Tab
  <2> QED
    BY <1>1, <2>1 DEF Count, TypeOK
<1>2. CASE Prepare(t)
  <2> DEFINE q == tabs[t]
             of == IF q.complete THEN Objects ELSE q.scanned
             th == [o \in Objects |-> TheoreticalStock(o)]
             real == [o \in Objects |-> IF o \in q.scanned THEN q.count[o] ELSE Unscanned(o)]
  <2>1. q.scanned \in SUBSET Objects /\ q.count \in [Objects -> Nat]
    BY <1>2 DEF Prepare, TypeOK, Tab
  <2>2. th \in [Objects -> Int] /\ real \in [Objects -> Int] /\ of \in SUBSET Objects
    BY <2>1, StockType DEF Unscanned
  <2>3. [at |-> "prepared", lines |-> [of |-> of, th |-> th, real |-> real]] \in Tab
    BY <2>2 DEF Tab, Lines
  <2> QED
    BY <1>2, <2>3 DEF Prepare, TypeOK
<1>3. CASE StartCommit(t)
  <2>1. tabs[t].lines \in Lines
    BY <1>3 DEF StartCommit, TypeOK, Tab
  <2>2. [at |-> "starting", ok |-> FALSE, lines |-> tabs[t].lines] \in Thread
    BY <2>1 DEF Thread
  <2>3. [at |-> "polling"] \in Tab
    BY DEF Tab
  <2> QED
    BY <1>3, <2>2, <2>3 DEF StartCommit, TypeOK
<1>4. CASE Poll(t) \/ Leave(t)
  <2>1. \A p \in {"home", "success", "failed"} : [at |-> p] \in Tab
    BY DEF Tab
  <2> QED
    BY <1>4, <2>1 DEF Poll, Leave, TypeOK
<1> QED
  BY <1>1, <1>2, <1>3, <1>4 DEF Page

\* So do the threads that commit.
LEMMA ThreadType ==
    ASSUME TypeOK, NEW t \in Tabs, WriteRunning(t) \/ Finish(t)
    PROVE  TypeOK'
<1> USE DEF stock, shop
<1>0. threads[t] \in Thread
  BY DEF TypeOK
<1>1. CASE WriteRunning(t)
  <2>1. [threads[t] EXCEPT !.at = "applying"] \in Thread
    BY <1>0, <1>1 DEF WriteRunning, Thread
  <2> QED
    BY <1>1, <2>1 DEF WriteRunning, TypeOK
<1>2. CASE Apply(t)
  <2> DEFINE lines == threads[t].lines
  <2>1. lines \in Lines
    BY <1>0, <1>2 DEF Apply, Thread
  <2>2. \A o \in Objects : Settle(ledger[o], lines.th[o], lines.real[o]) \in Sums
    BY <2>1, SettleType DEF TypeOK, Lines
  <2>3. ledger' \in [Objects -> Sums]
    BY <1>2, <2>2 DEF Apply, TypeOK
  <2>4. [at |-> "removing", ok |-> TRUE] \in Thread
    BY DEF Thread
  <2>5. lost' \in [Objects -> Nat]
    BY <1>2 DEF Apply, TypeOK
  <2> QED
    BY <1>2, <2>3, <2>4, <2>5 DEF Apply, TypeOK
<1>3. CASE Rollback(t)
  <2>1. [at |-> "removing", ok |-> FALSE] \in Thread
    BY DEF Thread
  <2> QED
    BY <1>3, <2>1 DEF Rollback, TypeOK
<1>4. CASE RemoveStatus(t) \/ ReportError(t)
  <2>1. \A p \in {"idle", "reporting"} : [threads[t] EXCEPT !.at = p] \in Thread
    BY <1>0, <1>4 DEF RemoveStatus, ReportError, Thread
  <2> QED
    BY <1>4, <2>1 DEF RemoveStatus, ReportError, TypeOK
<1> QED
  BY <1>1, <1>2, <1>3, <1>4 DEF Finish

\* Type correctness, whatever is interleaved.
THEOREM TypeCorrect == Spec => []TypeOK
<1>1. TypeOK /\ [Next]_vars => TypeOK'
  <2> SUFFICES ASSUME TypeOK, [Next]_vars PROVE TypeOK'
    OBVIOUS
  <2>1. CASE UNCHANGED vars
    BY <2>1 DEF vars, TypeOK
  <2> QED
    BY <2>1, TradeType, PageType, ThreadType DEF Next
<1> QED
  BY InitType, <1>1, PTL DEF Spec

-----------------------------------------------------------------------------
(* The stock, when the shop is closed during inventories.                  *)

\* What an inventory writes about the books that it counted exactly.
LEMMA InventoriedStock ==
    ASSUME TypeOK, NEW o \in Objects, NEW qty \in Int, ledger[o]' = Inventoried(qty)
    PROVE  Stock(o)' = qty
BY DEF Stock, Inventoried

\* The inductive invariant, at the start.
LEMMA InitInv == Init => IInv
<1> SUFFICES ASSUME Init PROVE IInv
  OBVIOUS
<1>1. ASSUME NEW o \in Objects PROVE Stock(o) = shelf[o] + lost[o]
  <2>1. ledger[o] = Inventoried(InitialStock) /\ shelf[o] = InitialStock /\ lost[o] = 0
    BY DEF Init
  <2> QED
    BY <2>1, InventoryAssumption DEF Stock, Inventoried
<1>2. \A t \in Tabs : CountOK(t) /\ LinesOK(t)
  BY DEF Init, CountOK, LinesOK
<1> QED
  BY <1>1, <1>2 DEF IInv, StockIsShelf

\* Steps that leave the shelves and, of what an inventory knows, the rest.
LEMMA Remembered ==
    ASSUME IInv, UNCHANGED shelf, NEW u \in Tabs,
           \A t \in Tabs \ {u} : tabs'[t] = tabs[t] /\ threads'[t] = threads[t],
           CountOK(u)', LinesOK(u)'
    PROVE  \A t \in Tabs : CountOK(t)' /\ LinesOK(t)'
BY DEF IInv, CountOK, LinesOK, Exact

\* A trade that moves a copy finds no inventory in progress.
LEMMA TradeInv ==
    ASSUME Closed, Careful, TypeOK, IInv, NEW o \in Objects, Trade(o)
    PROVE  IInv'
<1>0. /\ ledger[o] \in Sums /\ shelf[o] \in Nat /\ lost[o] \in Nat
      /\ Stock(o) = shelf[o] + lost[o]
  BY DEF TypeOK, IInv, StockIsShelf
<1>1. \A x \in Objects \ {o} : UNCHANGED <<ledger[x], shelf[x], lost[x]>>
  <2>1. CASE OrderCopy(o) \/ ReceiveCopy(o) \/ ReserveCopy(o)
    BY <2>1 DEF OrderCopy, ReceiveCopy, ReserveCopy, TypeOK
  <2>2. CASE ReleaseCopy(o) \/ SendBackCopy(o) \/ LoseCopy(o)
    BY <2>2 DEF ReleaseCopy, SendBackCopy, LoseCopy, TypeOK
  <2>3. CASE CorrectPrice(o)
    BY <2>3 DEF CorrectPrice, shop, TypeOK
  <2> QED
    BY <2>1, <2>2, <2>3 DEF Trade
<1>2. Stock(o)' = shelf'[o] + lost'[o]
  <2>1. CASE OrderCopy(o)
    <3>1. ledger[o]' = Record(ledger[o], "pending", 1)
      BY <2>1 DEF OrderCopy, TypeOK
    <3>2. /\ ledger[o]'.inventory = ledger[o].inventory /\ ledger[o]'.in = ledger[o].in
          /\ ledger[o]'.out = ledger[o].out /\ ledger[o]'.reserved = ledger[o].reserved
      BY <1>0, <3>1 DEF Record, Sums
    <3>3. shelf' = shelf /\ lost' = lost
      BY <2>1 DEF OrderCopy
    <3> QED
      BY <1>0, <3>2, <3>3 DEF Stock, Sums
  <2>2. CASE ReceiveCopy(o)
    <3>1. ledger[o]' = Record(Record(ledger[o], "pending", -1), "in", 1)
      BY <2>2 DEF ReceiveCopy, TypeOK
    <3>2. /\ ledger[o]'.in = ledger[o].in + 1
          /\ ledger[o]'.inventory = ledger[o].inventory
          /\ ledger[o]'.out = ledger[o].out /\ ledger[o]'.reserved = ledger[o].reserved
      BY <1>0, <3>1 DEF Record, Sums
    <3>3. shelf'[o] = shelf[o] + 1 /\ lost'[o] = lost[o]
      BY <2>2 DEF ReceiveCopy, TypeOK
    <3> QED
      BY <1>0, <3>2, <3>3 DEF Stock, Sums
  <2>3. CASE ReserveCopy(o)
    <3>1. ledger[o]' = Record(ledger[o], "reserved", 1)
      BY <2>3 DEF ReserveCopy, TypeOK
    <3>2. /\ ledger[o]'.reserved = ledger[o].reserved + 1
          /\ ledger[o]'.inventory = ledger[o].inventory
          /\ ledger[o]'.in = ledger[o].in /\ ledger[o]'.out = ledger[o].out
      BY <1>0, <3>1 DEF Record, Sums
    <3>3. shelf'[o] = shelf[o] - 1 /\ lost'[o] = lost[o]
      BY <2>3 DEF ReserveCopy, TypeOK
    <3> QED
      BY <1>0, <3>2, <3>3 DEF Stock, Sums
  <2>4. CASE ReleaseCopy(o)
    <3>1. ledger[o]' = Record(ledger[o], "reserved", -1)
      BY <2>4 DEF ReleaseCopy, TypeOK
    <3>2. /\ ledger[o]'.reserved = ledger[o].reserved - 1
          /\ ledger[o]'.inventory = ledger[o].inventory
          /\ ledger[o]'.in = ledger[o].in /\ ledger[o]'.out = ledger[o].out
      BY <1>0, <3>1 DEF Record, Sums
    <3>3. shelf'[o] = shelf[o] + 1 /\ lost'[o] = lost[o]
      BY <2>4 DEF ReleaseCopy, TypeOK
    <3> QED
      BY <1>0, <3>2, <3>3 DEF Stock, Sums
  <2>5. CASE SendBackCopy(o)
    <3>1. ledger[o]' = Record(ledger[o], "out", 1)
      BY <2>5 DEF SendBackCopy, TypeOK
    <3>2. /\ ledger[o]'.out = ledger[o].out + 1
          /\ ledger[o]'.inventory = ledger[o].inventory
          /\ ledger[o]'.in = ledger[o].in /\ ledger[o]'.reserved = ledger[o].reserved
      BY <1>0, <3>1 DEF Record, Sums
    <3>3. shelf'[o] = shelf[o] - 1 /\ lost'[o] = lost[o]
      BY <2>5 DEF SendBackCopy, TypeOK
    <3> QED
      BY <1>0, <3>2, <3>3 DEF Stock, Sums
  <2>6. CASE LoseCopy(o)
    <3>1. ledger' = ledger /\ shelf'[o] = shelf[o] - 1 /\ lost'[o] = lost[o] + 1
      BY <2>6 DEF LoseCopy, TypeOK
    <3>2. Stock(o)' = Stock(o)
      BY <3>1 DEF Stock
    <3> QED
      BY <1>0, <3>1, <3>2
  <2>7. CASE CorrectPrice(o)
    <3>1. ledger[o]' = Inventoried(ledger[o].inventory) /\ ledger[o].inventory = Stock(o)
      BY <2>7 DEF CorrectPrice, Unmoved, Record, TypeOK
    <3>2. Stock(o)' = Stock(o)
      BY <1>0, <3>1, InventoriedStock DEF Sums
    <3> QED
      BY <1>0, <2>7, <3>2 DEF CorrectPrice, shop
  <2> QED
    BY <2>1, <2>2, <2>3, <2>4, <2>5, <2>6, <2>7 DEF Trade
<1>3. StockIsShelf'
  <2>1. \A x \in Objects \ {o} : Stock(x)' = Stock(x)
    BY <1>1 DEF Stock
  <2> QED
    BY <1>1, <1>2, <2>1 DEF IInv, StockIsShelf
<1>4. \A t \in Tabs : CountOK(t)' /\ LinesOK(t)'
  <2>1. CASE OrderCopy(o) \/ CorrectPrice(o)
    BY <2>1 DEF OrderCopy, CorrectPrice, shop, IInv, CountOK, LinesOK, Exact
  <2>2. CASE ReceiveCopy(o) \/ ReserveCopy(o) \/ ReleaseCopy(o) \/ SendBackCopy(o) \/ LoseCopy(o)
    <3>1. ~InventoryInProgress /\ UNCHANGED <<tabs, threads>>
      BY <2>2 DEF ReceiveCopy, ReserveCopy, ReleaseCopy, SendBackCopy, LoseCopy, Open
    <3> QED
      BY <3>1 DEF InventoryInProgress, CountOK, LinesOK
  <2> QED
    BY <2>1, <2>2 DEF Trade
<1> QED
  BY <1>3, <1>4 DEF IInv

\* The pages keep the inductive invariant while the shop is closed.
LEMMA PageInv ==
    ASSUME Closed, Careful, TypeOK, IInv, NEW t \in Tabs, Page(t)
    PROVE  IInv'
<1> USE DEF stock, shop, Goto
<1>1. UNCHANGED stock /\ \A u \in Tabs \ {t} : tabs'[u] = tabs[u] /\ threads'[u] = threads[u]
  BY DEF Page, Count, Prepare, StartCommit, Poll, Leave, TypeOK
<1>2. StockIsShelf'
  BY <1>1 DEF IInv, StockIsShelf, Stock
<1>3. CountOK(t) /\ LinesOK(t)
  BY DEF IInv
<1>4. CountOK(t)' /\ LinesOK(t)'
  <2>1. ASSUME NEW S \in SUBSET Objects, NEW complete \in BOOLEAN, Count(t, S, complete)
        PROVE  CountOK(t)' /\ LinesOK(t)'
    BY <1>3, <2>1 DEF Count, CountOK, LinesOK, Exact, TypeOK
  <2>2. CASE Prepare(t)
    <3> DEFINE q == tabs[t]
               of == IF q.complete THEN Objects ELSE q.scanned
               real == [o \in Objects |-> IF o \in q.scanned THEN q.count[o] ELSE Unscanned(o)]
    <3>1. /\ tabs'[t].at = "prepared"
          /\ tabs'[t].lines.of = of /\ tabs'[t].lines.real = real
      BY <2>2 DEF Prepare, TypeOK
    <3>2. q.scanned \subseteq Objects /\ q.at = "counted" /\ q.complete \in BOOLEAN
      BY <2>2 DEF Prepare, TypeOK, Tab
    <3>3. ASSUME NEW o \in of PROVE real[o] = shelf[o]
      <4>1. CASE o \in q.scanned
        BY <1>3, <3>2, <4>1 DEF CountOK
      <4>2. CASE o \notin q.scanned
        <5>1. q.complete /\ o \in Objects \ q.scanned
          BY <3>2, <3>3, <4>2
        <5>2. TheoreticalStock(o) >= 0 /\ TheoreticalStock(o) \in Int
          BY <2>2, <5>1, StockType DEF Prepare
        <5>3. Unscanned(o) = 0
          BY <5>2 DEF Unscanned
        <5>4. shelf[o] = 0
          BY <1>3, <3>2, <5>1 DEF CountOK
        <5> QED
          BY <5>1, <5>3, <5>4
      <4> QED
        BY <4>1, <4>2
    <3> QED
      BY <1>1, <1>3, <2>2, <3>1, <3>3 DEF Prepare, CountOK, LinesOK, Exact
  <2>3. CASE StartCommit(t)
    <3>1. Exact(tabs[t].lines)
      BY <1>3, <2>3 DEF StartCommit, LinesOK
    <3> QED
      BY <1>1, <2>3, <3>1 DEF StartCommit, CountOK, LinesOK, Exact, TypeOK
  <2>4. CASE Poll(t) \/ Leave(t)
    BY <1>1, <1>3, <2>4 DEF Poll, Leave, CountOK, LinesOK, Exact, TypeOK
  <2> QED
    BY <2>1, <2>2, <2>3, <2>4 DEF Page
<1> QED
  BY <1>1, <1>2, <1>4, Remembered DEF IInv

\* The threads settle what is on the shelf.
LEMMA ThreadInv ==
    ASSUME Closed, Careful, TypeOK, IInv, NEW t \in Tabs, WriteRunning(t) \/ Finish(t)
    PROVE  IInv'
<1> USE DEF stock, shop
<1>1. UNCHANGED shelf /\ \A u \in Tabs \ {t} : tabs'[u] = tabs[u] /\ threads'[u] = threads[u]
  BY DEF WriteRunning, Finish, Apply, Rollback, RemoveStatus, ReportError, TypeOK
<1>2. CountOK(t) /\ LinesOK(t)
  BY DEF IInv
<1>3. CountOK(t)' /\ LinesOK(t)'
  <2>1. tabs'[t] = tabs[t] /\ shelf' = shelf
    BY <1>1 DEF WriteRunning, Finish, Apply, Rollback, RemoveStatus, ReportError
  <2>2. CASE WriteRunning(t)
    <3>1. threads[t].at \in {"starting", "applying"} /\ threads'[t].lines = threads[t].lines
      BY <2>2 DEF WriteRunning, TypeOK, Thread
    <3> QED
      BY <1>2, <2>1, <3>1 DEF CountOK, LinesOK, Exact
  <2>3. CASE Finish(t)
    <3>1. threads'[t].at \notin {"starting", "applying"}
      <4>1. CASE Apply(t) \/ Rollback(t)
        BY <4>1 DEF Apply, Rollback, TypeOK
      <4>2. CASE RemoveStatus(t)
        <5>1. threads'[t] = [threads[t] EXCEPT !.at = IF threads[t].ok THEN "idle" ELSE "reporting"]
          BY <4>2 DEF RemoveStatus, TypeOK
        <5>2. threads[t] \in Thread /\ threads[t].at = "removing"
          BY <4>2 DEF RemoveStatus, TypeOK
        <5>3. CASE threads[t].ok
          BY <5>1, <5>2, <5>3 DEF Thread
        <5>4. CASE ~threads[t].ok
          BY <5>1, <5>2, <5>4 DEF Thread
        <5> QED
          BY <5>3, <5>4
      <4>3. CASE ReportError(t)
        BY <4>3 DEF ReportError, TypeOK, Thread
      <4> QED
        BY <2>3, <4>1, <4>2, <4>3 DEF Finish
    <3> QED
      BY <1>2, <2>1, <3>1 DEF CountOK, LinesOK, Exact
  <2> QED
    BY <2>2, <2>3
<1>4. StockIsShelf'
  <2>1. CASE Apply(t)
    <3> DEFINE lines == threads[t].lines
    <3>1. lines \in Lines /\ Exact(lines)
      BY <1>2, <2>1 DEF Apply, LinesOK, TypeOK, Thread
    <3>2. ASSUME NEW o \in Objects PROVE Stock(o)' = shelf'[o] + lost'[o]
      <4>1. CASE o \in lines.of
        <5>1. lines.th[o] \in Int /\ lines.real[o] \in Int /\ lines.real[o] = shelf[o]
          BY <3>1, <4>1 DEF Lines, Exact
        <5>2. ledger[o]' = Inventoried(shelf[o]) /\ lost'[o] = 0
          BY <2>1, <4>1, <5>1, SettleType DEF Apply, TypeOK
        <5> QED
          BY <1>1, <5>1, <5>2, InventoriedStock
      <4>2. CASE o \notin lines.of
        <5>1. UNCHANGED <<ledger[o], shelf[o], lost[o]>>
          BY <2>1, <4>2 DEF Apply
        <5> QED
          BY <5>1 DEF IInv, StockIsShelf, Stock
      <4> QED
        BY <4>1, <4>2
    <3> QED
      BY <3>2 DEF StockIsShelf
  <2>2. CASE WriteRunning(t) \/ Rollback(t) \/ RemoveStatus(t) \/ ReportError(t)
    BY <2>2 DEF WriteRunning, Rollback, RemoveStatus, ReportError, IInv, StockIsShelf, Stock
  <2> QED
    BY <2>1, <2>2 DEF Finish
<1> QED
  BY <1>1, <1>3, <1>4, Remembered DEF IInv

\* With the shop closed during inventories and careful operators, the stock
\* is what stands on the shelves, up to the losses that no inventory saw.
THEOREM StockSafe ==
    ASSUME Closed, Careful
    PROVE  Spec => []StockIsShelf
<1>1. TypeOK /\ IInv /\ [Next]_vars => IInv'
  <2> SUFFICES ASSUME TypeOK, IInv, [Next]_vars PROVE IInv'
    OBVIOUS
  <2>1. CASE UNCHANGED vars
    BY <2>1 DEF vars, IInv, StockIsShelf, Stock, CountOK, LinesOK, Exact
  <2> QED
    BY <2>1, TradeInv, PageInv, ThreadInv DEF Next
<1>2. IInv => StockIsShelf
  BY DEF IInv
<1> QED
  BY InitInv, <1>1, <1>2, TypeCorrect, PTL DEF Spec

-----------------------------------------------------------------------------
(* What a page is told of a failure.                                       *)

\* A commit that met no other is the only one to write the status file, which
\* then follows its steps.
ReportOK(t) ==
    alone[t] =>
      /\ \A u \in Tabs \ {t} : threads[u].at = "idle"
      /\ threads[t].at \in {"applying", "removing"} => status = "running"
      /\ threads[t].at = "reporting" => status = "none" /\ threads[t].ok = FALSE
      /\ threads[t].at = "idle" => (status = "error" => threads[t].ok = FALSE)
RInv == \A t \in Tabs : ReportOK(t)

\* The shop and the pages leave the status file and the threads as they are,
\* but for the commit that a page starts.
LEMMA PageReport ==
    ASSUME TypeOK, RInv, NEW t \in Tabs, Page(t)
    PROVE  RInv'
<1>1. CASE StartCommit(t)
  <2>1. /\ threads' = [threads EXCEPT ![t] = [at |-> "starting", ok |-> FALSE, lines |-> tabs[t].lines]]
        /\ alone' = [u \in Tabs |-> u = t /\ \A v \in Tabs : threads[v].at = "idle"]
    BY <1>1 DEF StartCommit
  <2>2. threads'[t].at = "starting" /\ \A u \in Tabs \ {t} : threads'[u] = threads[u]
    BY <2>1 DEF TypeOK
  <2>3. alone'[t] => \A u \in Tabs \ {t} : threads[u].at = "idle"
    BY <2>1
  <2>4. \A u \in Tabs \ {t} : ~alone'[u]
    BY <2>1
  <2> QED
    BY <2>2, <2>3, <2>4 DEF RInv, ReportOK
<1>2. CASE ~StartCommit(t)
  <2>1. UNCHANGED <<threads, status, alone>>
    BY <1>2 DEF Page, Count, Prepare, Poll, Leave
  <2> QED
    BY <2>1 DEF RInv, ReportOK
<1> QED
  BY <1>1, <1>2

\* A thread at work is the only one that a commit alone lets be.
LEMMA ThreadReport ==
    ASSUME TypeOK, RInv, NEW t \in Tabs, WriteRunning(t) \/ Finish(t)
    PROVE  RInv'
<1>1. threads[t].at # "idle" /\ alone' = alone
  BY DEF WriteRunning, Finish, Apply, Rollback, RemoveStatus, ReportError
<1>2. \A u \in Tabs \ {t} : ~alone[u]
  BY <1>1 DEF RInv, ReportOK
<1>3. \A u \in Tabs \ {t} : threads'[u] = threads[u]
  BY DEF WriteRunning, Finish, Apply, Rollback, RemoveStatus, ReportError, TypeOK
<1>4. threads[t] \in Thread /\ ReportOK(t)
  BY DEF TypeOK, RInv
<1>5. ReportOK(t)'
  <2>1. CASE WriteRunning(t)
    <3>1. threads'[t].at = "applying" /\ status' = "running"
      BY <1>4, <2>1 DEF WriteRunning, TypeOK, Thread
    <3> QED
      BY <1>1, <1>3, <1>4, <3>1 DEF ReportOK
  <2>2. CASE Apply(t) \/ Rollback(t)
    <3>1. threads'[t].at = "removing" /\ threads[t].at = "applying" /\ status' = status
      BY <2>2 DEF Apply, Rollback, TypeOK
    <3> QED
      BY <1>1, <1>3, <1>4, <3>1 DEF ReportOK
  <2>3. CASE RemoveStatus(t)
    <3>1. /\ threads'[t] = [threads[t] EXCEPT !.at = IF threads[t].ok THEN "idle" ELSE "reporting"]
          /\ threads[t].at = "removing" /\ status' = "none"
      BY <2>3 DEF RemoveStatus, TypeOK
    <3>2. PICK b \in BOOLEAN : threads[t].ok = b
      BY <1>4, <3>1 DEF Thread
    <3>3. CASE b = TRUE
      <4>1. threads'[t].at = "idle"
        BY <1>4, <3>1, <3>2, <3>3 DEF Thread
      <4> QED
        BY <1>1, <1>3, <1>4, <3>1, <4>1 DEF ReportOK
    <3>4. CASE b = FALSE
      <4>1. threads'[t].at = "reporting" /\ threads'[t].ok = FALSE
        BY <1>4, <3>1, <3>2, <3>4 DEF Thread
      <4> QED
        BY <1>1, <1>3, <1>4, <3>1, <4>1 DEF ReportOK
    <3> QED
      BY <3>3, <3>4
  <2>4. CASE ReportError(t)
    <3>1. /\ threads'[t].at = "idle" /\ threads[t].at = "reporting"
          /\ threads'[t].ok = threads[t].ok
      BY <1>4, <2>4 DEF ReportError, TypeOK, Thread
    <3> QED
      BY <1>1, <1>3, <1>4, <3>1 DEF ReportOK
  <2> QED
    BY <2>1, <2>2, <2>3, <2>4 DEF Finish
<1> QED
  BY <1>1, <1>2, <1>5 DEF RInv, ReportOK

\* A page whose commit met no other is told of a failure only when its own
\* transaction is over and was rolled back: the second half of
\* CommitsAreReported, whatever the shop and the other tabs do.
THEOREM FailuresAreTrue ==
    Spec => [][\A t \in Tabs : tabs[t].at = "polling" /\ tabs'[t].at = "failed" /\ alone[t]
                               => RolledBack(t)]_vars
<1> DEFINE Told == \A t \in Tabs : tabs[t].at = "polling" /\ tabs'[t].at = "failed" /\ alone[t]
                                   => RolledBack(t)
<1>1. Init => RInv
  BY DEF Init, RInv, ReportOK
<1>2. TypeOK /\ RInv /\ [Next]_vars => RInv'
  <2> SUFFICES ASSUME TypeOK, RInv, [Next]_vars PROVE RInv'
    OBVIOUS
  <2>1. CASE UNCHANGED vars
    BY <2>1 DEF vars, RInv, ReportOK
  <2>2. ASSUME NEW o \in Objects, Trade(o) PROVE RInv'
    <3>1. UNCHANGED <<threads, status, alone>>
      BY <2>2 DEF Trade, OrderCopy, ReceiveCopy, ReserveCopy, ReleaseCopy, SendBackCopy,
                  LoseCopy, CorrectPrice
    <3> QED
      BY <3>1 DEF RInv, ReportOK
  <2> QED
    BY <2>1, <2>2, PageReport, ThreadReport DEF Next
<1>3. TypeOK /\ RInv /\ [Next]_vars => [Told]_vars
  <2> SUFFICES ASSUME TypeOK, RInv, Next, NEW t \in Tabs,
                      tabs[t].at = "polling", tabs'[t].at = "failed", alone[t]
               PROVE  RolledBack(t)
    OBVIOUS
  <2>1. tabs' # tabs
    OBVIOUS
  <2>2. PICK u \in Tabs : Page(u)
    BY <2>1 DEF Next, Trade, OrderCopy, ReceiveCopy, ReserveCopy, ReleaseCopy, SendBackCopy,
                LoseCopy, CorrectPrice, WriteRunning, Finish, Apply, Rollback, RemoveStatus,
                ReportError
  <2>3. u = t
    BY <2>2 DEF Page, Count, Prepare, StartCommit, Poll, Leave, Goto, TypeOK
  <2>4. Poll(t) /\ status = "error" /\ threads[t].at # "starting"
    BY <2>2, <2>3 DEF Page, Count, Prepare, StartCommit, Poll, Leave, Goto, TypeOK
  <2>5. threads[t] \in Thread /\ ReportOK(t)
    BY DEF TypeOK, RInv
  <2>6. threads[t].at = "idle"
    BY <2>4, <2>5 DEF ReportOK, Thread
  <2> QED
    BY <2>4, <2>5, <2>6 DEF ReportOK, RolledBack
<1> QED
  BY TypeCorrect, <1>1, <1>2, <1>3, PTL DEF Spec
=============================================================================
