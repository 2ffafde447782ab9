---------------------- MODULE DilicomReferentialProofs ----------------------
(***************************************************************************)
(* Proofs about DilicomReferential, for any books, tabs and tasks:         *)
(*   - TypeOK and DirectionKept, whatever is interleaved (KInv);           *)
(*   - StatusIsTrue and OneRowPerEan, when nothing is interleaved and no   *)
(*     notice is imported, crashes and failed uploads included (SInv).     *)
(*                                                                         *)
(* And about Catalogue, which imports what Dilicom returns, for any        *)
(* products, suppliers, rates, prices, tabs and bounds (CatalogueInv):     *)
(*   - PricesAreSound: the two prices of a product agree, and in a calm    *)
(*     behaviour its periods do not overlap;                               *)
(*   - BatchIsWhole and FuturePricesKept;                                  *)
(*   - SuppliersFollowTheirLines, through the invariant LinesInv.          *)
(* The rows of a notice go into a history by a fold, whose values are      *)
(* reached by a least counterexample.                                      *)
(***************************************************************************)
EXTENDS DilicomReferential, Catalogue, Sums, SequenceTheorems, FiniteSetTheorems, TLAPS

\* What a request still knows of the row it changes: it had one direction, or
\* it is to be inserted by an addition.
Fresh(q) ==
    q.at = "toggling" =>
      IF q.id = 0 THEN q.create /\ ~q.was.create /\ ~q.was.delete
                  ELSE OneDirection(q.was)
RequestOK(t) == Fresh(tabs[t])

KInv == TypeOK /\ DirectionKept /\ \A t \in Tabs : RequestOK(t)

-----------------------------------------------------------------------------
\* The table of rows by number.
LEMMA RowsDomain ==
    ASSUME rows \in Seq(Row)
    PROVE  Len(rows) \in Nat /\ DOMAIN rows = 1 .. Len(rows)
             /\ \A i \in DOMAIN rows : rows[i] \in Row
BY LenProperties, ElementOfSeq

\* A toggle makes a row.
LEMMA ToggledType ==
    ASSUME NEW now \in Row, NEW was \in Row, NEW create \in BOOLEAN
    PROVE  Toggled(now, was, create) \in Row
BY DEF Toggled, Changed, Row

\* The invariant of any interleaving, at the start.
LEMMA InitK == Init => KInv
<1> SUFFICES ASSUME Init PROVE KInv
  OBVIOUS
<1>1. TypeOK
  BY DEF Init, TypeOK, Tab, Task
<1>2. DirectionKept
  BY DEF Init, DirectionKept
<1>3. \A t \in Tabs : RequestOK(t)
  BY DEF Init, RequestOK, Fresh
<1> QED
  BY <1>1, <1>2, <1>3 DEF KInv

\* Steps that leave the rows and the requests that are being served.
LEMMA Untouched ==
    ASSUME KInv, TypeOK', UNCHANGED rows,
           \A t \in Tabs : tabs'[t].at = "toggling" => tabs'[t] = tabs[t]
    PROVE  KInv'
<1>1. DirectionKept'
  BY DEF KInv, DirectionKept
<1>2. \A t \in Tabs : RequestOK(t)'
  BY DEF KInv, RequestOK, Fresh
<1> QED
  BY <1>1, <1>2 DEF KInv

-----------------------------------------------------------------------------
\* Opening and leaving the modal changes no row.
LEMMA ModalK ==
    ASSUME KInv, NEW t \in Tabs,
           (\E e \in Eans : OpenModal(t, e)) \/ CloseModal(t) \/ AbortToggle(t)
    PROVE  KInv'
<1>1. UNCHANGED rows /\ UNCHANGED known /\ UNCHANGED tasks
  BY DEF OpenModal, CloseModal, AbortToggle
<1>2. PICK m \in Tab : m.at # "toggling" /\ tabs' = [tabs EXCEPT ![t] = m]
  <2>1. CASE \E e \in Eans : OpenModal(t, e)
    <3>1. PICK e \in Eans, create \in BOOLEAN :
            tabs' = [tabs EXCEPT ![t] = [at |-> "modal", ean |-> e, create |-> create]]
      BY <2>1 DEF OpenModal
    <3>2. [at |-> "modal", ean |-> e, create |-> create] \in Tab
      BY DEF Tab
    <3> QED
      BY <3>1, <3>2
  <2>2. CASE CloseModal(t) \/ AbortToggle(t)
    <3>1. [at |-> "home"] \in Tab
      BY DEF Tab
    <3> QED
      BY <2>2, <3>1 DEF CloseModal, AbortToggle
  <2> QED
    BY <2>1, <2>2
<1>3. TypeOK'
  BY <1>1, <1>2 DEF KInv, TypeOK
<1> QED
  BY <1>1, <1>2, <1>3, Untouched DEF KInv, TypeOK

\* The request that is sent has read a row of one direction.
LEMMA SubmitK ==
    ASSUME KInv, NEW t \in Tabs, Submit(t)
    PROVE  KInv'
<1> DEFINE m == tabs[t]
<1>0. TypeOK /\ m.at = "modal" /\ UNCHANGED <<rows, known, tasks>>
  BY DEF KInv, Submit
<1>1. m \in Tab
  BY <1>0 DEF TypeOK
<1>2. m.ean \in Eans /\ m.create \in BOOLEAN
  BY <1>0, <1>1 DEF Tab
<1>3. PICK q \in Tab : tabs' = [tabs EXCEPT ![t] = q] /\ Fresh(q)
  <2>1. CASE \E i \in RowsOf(m.ean) :
               tabs' = [tabs EXCEPT ![t] = [at |-> "toggling", id |-> i,
                                            was |-> rows[i], create |-> m.create]]
    <3>1. PICK i \in RowsOf(m.ean) :
               tabs' = [tabs EXCEPT ![t] = [at |-> "toggling", id |-> i,
                                            was |-> rows[i], create |-> m.create]]
      BY <2>1
    <3>2. i \in DOMAIN rows /\ i \in Nat /\ i # 0 /\ rows[i] \in Row
      BY <1>0, RowsDomain DEF RowsOf, TypeOK
    <3>3. OneDirection(rows[i])
      BY <3>2 DEF KInv, DirectionKept
    <3>4. [at |-> "toggling", id |-> i, was |-> rows[i], create |-> m.create] \in Tab
      BY <1>2, <3>2 DEF Tab
    <3>5. Fresh([at |-> "toggling", id |-> i, was |-> rows[i], create |-> m.create])
      BY <3>2, <3>3 DEF Fresh
    <3> QED
      BY <3>1, <3>4, <3>5
  <2>2. CASE m.create /\ tabs' = [tabs EXCEPT ![t] = [at |-> "toggling", id |-> 0,
                                                      was |-> NewRow(m.ean), create |-> TRUE]]
    <3>1. NewRow(m.ean) \in Row
      BY <1>2 DEF NewRow, Row
    <3>2. [at |-> "toggling", id |-> 0, was |-> NewRow(m.ean), create |-> TRUE] \in Tab
      BY <3>1 DEF Tab
    <3>3. Fresh([at |-> "toggling", id |-> 0, was |-> NewRow(m.ean), create |-> TRUE])
      BY DEF Fresh, NewRow
    <3> QED
      BY <2>2, <3>2, <3>3
  <2>3. CASE tabs' = [tabs EXCEPT ![t] = [at |-> "home"]]
    <3>1. [at |-> "home"] \in Tab
      BY DEF Tab
    <3>2. Fresh([at |-> "home"])
      BY DEF Fresh
    <3> QED
      BY <2>3, <3>1, <3>2
  <2> QED
    BY <1>2, <2>1, <2>2, <2>3 DEF Submit
<1>4. TypeOK'
  BY <1>0, <1>3 DEF TypeOK
<1>5. DirectionKept'
  BY <1>0 DEF KInv, DirectionKept
<1>6. \A u \in Tabs : RequestOK(u)'
  BY <1>0, <1>3 DEF KInv, TypeOK, RequestOK
<1> QED
  BY <1>4, <1>5, <1>6 DEF KInv

\* A toggle of a row with one direction leaves one direction, even when the
\* row was toggled since it was read.
LEMMA ToggledDirection ==
    ASSUME NEW now \in Row, NEW was \in Row, NEW create \in BOOLEAN,
           OneDirection(now), OneDirection(was)
    PROVE  OneDirection(Toggled(now, was, create))
BY DEF OneDirection, Toggled, Changed, Row

\* A toggle that is committed leaves one direction, whoever has written since.
LEMMA CommitToggleK ==
    ASSUME KInv, NEW t \in Tabs, CommitToggle(t)
    PROVE  KInv'
<1> DEFINE q == tabs[t]
<1>0. TypeOK /\ q.at = "toggling" /\ UNCHANGED <<known, tasks>>
  BY DEF KInv, CommitToggle
<1>1. q.id \in Nat /\ q.was \in Row /\ q.create \in BOOLEAN
  BY <1>0 DEF TypeOK, Tab
<1>2. tabs' = [tabs EXCEPT ![t] = [at |-> "home"]] /\ tabs' \in [Tabs -> Tab]
  <2>1. [at |-> "home"] \in Tab
    BY DEF Tab
  <2> QED
    BY <1>0, <2>1 DEF TypeOK, CommitToggle
<1>3. RequestOK(t)
  BY DEF KInv
<1>4. rows' \in Seq(Row) /\ DirectionKept'
  <2>1. CASE q.id = 0
    <3> DEFINE new == Toggled(q.was, q.was, q.create)
    <3>1. rows' = Append(rows, new) /\ new \in Row
      BY <1>1, <2>1, ToggledType DEF CommitToggle
    <3>2. OneDirection(new)
      BY <1>0, <1>1, <1>3, <2>1 DEF RequestOK, Fresh, OneDirection, Toggled, Changed, Row
    <3>3. rows' \in Seq(Row) /\ Len(rows') = Len(rows) + 1
            /\ \A i \in 1 .. Len(rows') :
                 rows'[i] = IF i = Len(rows) + 1 THEN new ELSE rows[i]
      BY <1>0, <3>1, AppendProperties DEF TypeOK
    <3>4. \A i \in 1 .. Len(rows') : OneDirection(rows'[i])
      BY <1>0, <3>2, <3>3, RowsDomain DEF TypeOK, KInv, DirectionKept
    <3> QED
      BY <3>3, <3>4, LenProperties DEF DirectionKept
  <2>2. CASE q.id # 0
    <3>1. rows' = [rows EXCEPT ![q.id] = Toggled(rows[q.id], q.was, q.create)]
      BY <2>2 DEF CommitToggle
    <3>2. \A i \in DOMAIN rows : Toggled(rows[i], q.was, q.create) \in Row
      BY <1>0, <1>1, ToggledType, RowsDomain DEF TypeOK
    <3>3. rows' = [i \in 1 .. Len(rows) |->
                     IF i = q.id THEN Toggled(rows[i], q.was, q.create) ELSE rows[i]]
      BY <1>0, <3>1, RowsDomain DEF TypeOK
    <3>4. DOMAIN rows' = DOMAIN rows /\ rows' \in Seq(Row)
      BY <1>0, <3>3, <3>2, RowsDomain, IsASeq DEF TypeOK
    <3>5. OneDirection(q.was)
      BY <1>0, <1>3, <2>2 DEF RequestOK, Fresh
    <3>6. \A i \in DOMAIN rows : OneDirection(rows'[i])
      BY <1>0, <1>1, <3>3, <3>5, ToggledDirection, RowsDomain
         DEF TypeOK, KInv, DirectionKept
    <3> QED
      BY <3>4, <3>6 DEF DirectionKept
  <2> QED
    BY <2>1, <2>2
<1>5. TypeOK'
  BY <1>0, <1>2, <1>4 DEF TypeOK
<1>6. \A u \in Tabs : RequestOK(u)'
  BY <1>0, <1>2 DEF KInv, TypeOK, RequestOK, Fresh
<1> QED
  BY <1>4, <1>5, <1>6 DEF KInv

-----------------------------------------------------------------------------
\* The tasks that read change no row.
LEMMA TaskReadK ==
    ASSUME KInv, NEW k \in Tasks,
           ReadUnsynced(k) \/ Upload(k) \/ AbortTask(k) \/ \E e \in Eans : ReadNotice(k, e)
    PROVE  KInv'
<1>0. TypeOK /\ UNCHANGED <<rows, tabs>>
  BY DEF KInv, ReadUnsynced, Upload, AbortTask, ReadNotice
<1>1. known' \in [Eans -> BOOLEAN]
  BY <1>0 DEF TypeOK, ReadUnsynced, Upload, AbortTask, ReadNotice
<1>2. PICK q \in Task : tasks' = [tasks EXCEPT ![k] = q]
  <2>1. CASE ReadUnsynced(k)
    <3> DEFINE read == {[id |-> i, row |-> rows[i]] : i \in Unsynced}
    <3>1. \A i \in Unsynced : i \in Nat /\ rows[i] \in Row
      BY <1>0, RowsDomain DEF Unsynced, TypeOK
    <3>2. read \in SUBSET [id : Nat, row : Row]
      BY <3>1
    <3>3. [at |-> "uploading", read |-> read] \in Task
      BY <3>2 DEF Task
    <3> QED
      BY <2>1, <3>3 DEF ReadUnsynced
  <2>2. CASE Upload(k)
    <3> DEFINE ids == {x.id : x \in tasks[k].read}
    <3>1. tasks[k].read \in SUBSET [id : Nat, row : Row]
      BY <1>0, <2>2 DEF Upload, TypeOK, Task
    <3>2. ids \in SUBSET Nat
      BY <3>1
    <3>3. [at |-> "marking", ids |-> ids] \in Task
      BY <3>2 DEF Task
    <3> QED
      BY <2>2, <3>3 DEF Upload
  <2>3. CASE AbortTask(k)
    <3>1. [at |-> "idle"] \in Task
      BY DEF Task
    <3> QED
      BY <2>3, <3>1 DEF AbortTask
  <2>4. CASE \E e \in Eans : ReadNotice(k, e)
    <3>1. PICK i \in DOMAIN rows :
            tasks' = [tasks EXCEPT ![k] = [at |-> "importing", id |-> i, was |-> rows[i]]]
      BY <2>4 DEF ReadNotice, RowsOf
    <3>2. i \in Nat /\ rows[i] \in Row
      BY <1>0, RowsDomain DEF TypeOK
    <3>3. [at |-> "importing", id |-> i, was |-> rows[i]] \in Task
      BY <3>2 DEF Task
    <3> QED
      BY <3>1, <3>3
  <2> QED
    BY <2>1, <2>2, <2>3, <2>4
<1>3. TypeOK'
  BY <1>0, <1>1, <1>2 DEF TypeOK
<1> QED
  BY <1>0, <1>3, Untouched

\* Marking rows as sent changes no direction.
LEMMA TaskMarkK ==
    ASSUME KInv, NEW k \in Tasks, MarkSynced(k) \/ MarkNotice(k)
    PROVE  KInv'
<1>0. TypeOK /\ UNCHANGED <<known, tabs>>
  BY DEF KInv, MarkSynced, MarkNotice
<1>1. tasks' \in [Tasks -> Task]
  <2>1. [at |-> "idle"] \in Task
    BY DEF Task
  <2> QED
    BY <1>0, <2>1 DEF TypeOK, MarkSynced, MarkNotice
<1>2. DOMAIN rows' = DOMAIN rows
      /\ \A i \in DOMAIN rows : rows'[i] \in {rows[i], [rows[i] EXCEPT !.synced = TRUE]}
  BY <1>0, RowsDomain DEF TypeOK, MarkSynced, MarkNotice
<1>3. \A i \in DOMAIN rows : rows[i] \in Row
  BY <1>0, RowsDomain DEF TypeOK
<1>4. \A i \in DOMAIN rows : rows'[i] \in Row
                             /\ rows'[i].create = rows[i].create /\ rows'[i].delete = rows[i].delete
  BY <1>2, <1>3 DEF Row
<1>5. rows' = [i \in DOMAIN rows |-> rows'[i]]
  BY <1>0, <1>2, RowsDomain DEF TypeOK, MarkSynced, MarkNotice
<1>6. rows' \in Seq(Row)
  BY <1>0, <1>4, <1>5, RowsDomain, IsASeq DEF TypeOK
<1>7. DirectionKept'
  BY <1>2, <1>4 DEF KInv, DirectionKept, OneDirection
<1>8. \A t \in Tabs : RequestOK(t)'
  BY <1>0 DEF KInv, RequestOK
<1> QED
  BY <1>0, <1>1, <1>6, <1>7, <1>8 DEF KInv, TypeOK

\* The inductive invariant of any interleaving.
THEOREM Inductive == Spec => []KInv
<1>1. KInv /\ [Next]_vars => KInv'
  <2> SUFFICES ASSUME KInv, [Next]_vars PROVE KInv'
    OBVIOUS
  <2>1. CASE UNCHANGED vars
    BY <2>1, Untouched DEF vars, KInv, TypeOK
  <2>2. CASE Next
    BY <2>2, ModalK, SubmitK, CommitToggleK, TaskReadK, TaskMarkK DEF Next
  <2> QED
    BY <2>1, <2>2
<1> QED
  BY <1>1, InitK, PTL DEF Spec

\* Rows, requests and tasks are well typed.
THEOREM TypeCorrect == Spec => []TypeOK
BY Inductive, PTL DEF KInv

\* Every row asks for one direction: the file of movements can be built.
THEOREM DirectionSafe == Spec => []DirectionKept
BY Inductive, PTL DEF KInv

-----------------------------------------------------------------------------
(* Nothing interleaved, no notice imported.                                *)

\* Whoever is between its read and its commit is alone.
OneAtATime ==
    /\ \A t, u \in Tabs : tabs[t].at = "toggling" /\ tabs[u].at = "toggling" => t = u
    /\ \A t \in Tabs, k \in Tasks : tabs[t].at = "toggling" => tasks[k].at = "idle"
    /\ \A k, l \in Tasks : tasks[k].at # "idle" /\ tasks[l].at # "idle" => k = l

\* What was read is still so: the row of a request, the rows of a file. The
\* rows about to be marked are already true at Dilicom.
ReadsHold ==
    /\ \A t \in Tabs : tabs[t].at = "toggling" =>
         IF tabs[t].id = 0 THEN RowsOf(tabs[t].was.ean) = {}
                           ELSE tabs[t].id \in DOMAIN rows /\ tabs[t].was = rows[tabs[t].id]
    /\ \A k \in Tasks : tasks[k].at = "uploading" =>
         \A x \in tasks[k].read : x.id \in Unsynced /\ x.row = rows[x.id]
    /\ \A k \in Tasks : tasks[k].at = "marking" =>
         \A i \in tasks[k].ids : i \in DOMAIN rows /\ known[rows[i].ean] = rows[i].create
    /\ \A k \in Tasks : tasks[k].at # "importing"

\* StatusIsTrue, of every row: there is one for each book.
SettledIsTrue ==
    /\ \A i \in DOMAIN rows : rows[i].synced => known[rows[i].ean] = rows[i].create
    /\ \A e \in Eans : RowsOf(e) = {} => ~known[e]

SInv == OneRowPerEan /\ OneAtATime /\ ReadsHold /\ SettledIsTrue

\* The invariant of requests that do not overlap, at the start.
LEMMA InitS == Init => SInv
BY DEF Init, SInv, OneRowPerEan, OneAtATime, ReadsHold, SettledIsTrue, RowsOf

\* Opening and leaving the modal keeps it.
LEMMA ModalS ==
    ASSUME KInv, SInv, NEW t \in Tabs,
           (\E e \in Eans : OpenModal(t, e)) \/ CloseModal(t) \/ AbortToggle(t)
    PROVE  SInv'
<1>1. UNCHANGED rows /\ UNCHANGED known /\ UNCHANGED tasks
  BY DEF OpenModal, CloseModal, AbortToggle
<1>2. \A u \in Tabs : tabs'[u].at = "toggling" => tabs'[u] = tabs[u]
  BY DEF KInv, TypeOK, OpenModal, CloseModal, AbortToggle
<1>3. OneAtATime'
  BY <1>1, <1>2 DEF SInv, OneAtATime
<1>4. ReadsHold'
  BY <1>1, <1>2 DEF SInv, ReadsHold, RowsOf, Unsynced
<1>5. OneRowPerEan' /\ SettledIsTrue'
  BY <1>1 DEF SInv, OneRowPerEan, SettledIsTrue, RowsOf
<1> QED
  BY <1>3, <1>4, <1>5 DEF SInv

\* A request starts alone: what it has read holds.
LEMMA SubmitS ==
    ASSUME KInv, SInv, Exclusive, NEW t \in Tabs, Submit(t)
    PROVE  SInv'
<1>1. UNCHANGED rows /\ UNCHANGED known /\ UNCHANGED tasks
  BY DEF Submit
<1>2. /\ \A u \in Tabs : tabs[u].at # "toggling"
      /\ \A k \in Tasks : tasks[k].at = "idle"
  BY DEF Submit, Alone
<1>3. \A u \in Tabs : u # t => tabs'[u] = tabs[u]
  BY DEF KInv, TypeOK, Submit
<1>4. tabs'[t].at = "toggling" =>
        IF tabs'[t].id = 0 THEN RowsOf(tabs'[t].was.ean) = {}
                           ELSE tabs'[t].id \in DOMAIN rows /\ tabs'[t].was = rows[tabs'[t].id]
  BY RowsDomain DEF KInv, TypeOK, Submit, RowsOf, NewRow
<1>5. OneAtATime'
  BY <1>1, <1>2, <1>3 DEF OneAtATime
<1>6. ReadsHold'
  BY <1>1, <1>2, <1>3, <1>4 DEF ReadsHold, RowsOf, Unsynced
<1>7. OneRowPerEan' /\ SettledIsTrue'
  BY <1>1 DEF SInv, OneRowPerEan, SettledIsTrue, RowsOf
<1> QED
  BY <1>5, <1>6, <1>7 DEF SInv

\* What a request commits is still what it has read.
LEMMA CommitToggleS ==
    ASSUME KInv, SInv, NEW t \in Tabs, CommitToggle(t)
    PROVE  SInv'
<1> DEFINE q == tabs[t]
<1>0. TypeOK /\ q.at = "toggling" /\ UNCHANGED <<known, tasks>>
  BY DEF KInv, CommitToggle
<1>1. q.id \in Nat /\ q.was \in Row /\ q.create \in BOOLEAN
  BY <1>0 DEF TypeOK, Tab
<1>2. /\ \A u \in Tabs : tabs'[u].at # "toggling"
      /\ \A k \in Tasks : tasks[k].at = "idle" /\ tasks'[k].at = "idle"
  BY <1>0 DEF SInv, OneAtATime, KInv, TypeOK, CommitToggle
<1>3. OneAtATime' /\ ReadsHold'
  BY <1>2 DEF OneAtATime, ReadsHold
<1>4. OneRowPerEan' /\ SettledIsTrue'
  <2>1. CASE q.id = 0
    <3> DEFINE new == Toggled(q.was, q.was, q.create)
    <3>1. rows' = Append(rows, new) /\ new \in Row
      BY <1>1, <2>1, ToggledType DEF CommitToggle
    <3>2. new.ean = q.was.ean /\ ~new.synced
      BY <1>1 DEF Toggled, Changed, Row
    <3>3. \A i \in DOMAIN rows : rows[i].ean # new.ean
      BY <1>0, <2>1, <3>2 DEF SInv, ReadsHold, RowsOf
    <3>4. /\ Len(rows) \in Nat /\ DOMAIN rows = 1 .. Len(rows)
          /\ DOMAIN rows' = 1 .. Len(rows) + 1
          /\ rows'[Len(rows) + 1] = new
          /\ \A i \in DOMAIN rows : rows'[i] = rows[i]
      BY <1>0, <3>1, RowsDomain, AppendProperties, LenProperties DEF TypeOK
    <3>5. OneRowPerEan'
      BY <3>3, <3>4 DEF SInv, OneRowPerEan
    <3>6. \A i \in DOMAIN rows' : rows'[i].synced => known'[rows'[i].ean] = rows'[i].create
      BY <1>0, <3>2, <3>4 DEF SInv, SettledIsTrue
    <3>7. \A e \in Eans : RowsOf(e)' = {} => RowsOf(e) = {}
      BY <3>4 DEF RowsOf
    <3> QED
      BY <1>0, <3>5, <3>6, <3>7 DEF SInv, SettledIsTrue
  <2>2. CASE q.id # 0
    <3>1. q.id \in DOMAIN rows /\ q.was = rows[q.id]
      BY <1>0, <2>2 DEF SInv, ReadsHold
    <3> DEFINE new == Toggled(rows[q.id], q.was, q.create)
    <3>2. new.ean = rows[q.id].ean /\ ~new.synced
      BY <1>1, <3>1 DEF Toggled, Changed, Row
    <3>3. /\ DOMAIN rows' = DOMAIN rows
          /\ rows'[q.id] = new
          /\ \A i \in DOMAIN rows : i # q.id => rows'[i] = rows[i]
      BY <1>0, <2>2, <3>1, RowsDomain DEF TypeOK, CommitToggle
    <3>4. \A i \in DOMAIN rows : rows'[i].ean = rows[i].ean
      BY <3>2, <3>3
    <3>5. OneRowPerEan'
      BY <3>3, <3>4 DEF SInv, OneRowPerEan
    <3>6. \A i \in DOMAIN rows' : rows'[i].synced => known'[rows'[i].ean] = rows'[i].create
      BY <1>0, <3>2, <3>3 DEF SInv, SettledIsTrue
    <3>7. \A e \in Eans : RowsOf(e)' = RowsOf(e)
      BY <3>3, <3>4 DEF RowsOf
    <3> QED
      BY <1>0, <3>5, <3>6, <3>7 DEF SInv, SettledIsTrue
  <2> QED
    BY <2>1, <2>2
<1> QED
  BY <1>3, <1>4 DEF SInv

\* A task starts alone: the rows it has read hold.
LEMMA ReadUnsyncedS ==
    ASSUME KInv, SInv, Exclusive, NEW k \in Tasks, ReadUnsynced(k)
    PROVE  SInv'
<1>1. UNCHANGED rows /\ UNCHANGED known /\ UNCHANGED tabs
  BY DEF ReadUnsynced
<1>2. /\ \A u \in Tabs : tabs[u].at # "toggling"
      /\ \A l \in Tasks : tasks[l].at = "idle"
  BY DEF ReadUnsynced, Alone
<1>3. /\ \A l \in Tasks : l # k => tasks'[l] = tasks[l]
      /\ tasks'[k] = [at |-> "uploading",
                      read |-> {[id |-> i, row |-> rows[i]] : i \in Unsynced}]
  BY DEF KInv, TypeOK, ReadUnsynced
<1>4. OneAtATime'
  BY <1>1, <1>2, <1>3 DEF OneAtATime
<1>5. ReadsHold'
  BY <1>1, <1>2, <1>3 DEF ReadsHold, RowsOf, Unsynced
<1>6. OneRowPerEan' /\ SettledIsTrue'
  BY <1>1 DEF SInv, OneRowPerEan, SettledIsTrue, RowsOf
<1> QED
  BY <1>4, <1>5, <1>6 DEF SInv

\* The file holds one line for each book that has a row not yet synchronised,
\* in the direction of that row, and none for the others.
LEMMA UploadS ==
    ASSUME KInv, SInv, NEW k \in Tasks, Upload(k)
    PROVE  SInv'
<1> DEFINE read == tasks[k].read
<1>0. TypeOK /\ tasks[k].at = "uploading" /\ UNCHANGED <<rows, tabs>>
  BY DEF KInv, Upload
<1>1. \A i \in DOMAIN rows : rows[i] \in Row
  BY <1>0, RowsDomain DEF TypeOK
<1>2. \A x \in read : x.id \in Unsynced /\ x.row = rows[x.id]
  BY <1>0 DEF SInv, ReadsHold
<1>3. \A e \in Eans :
        known'[e] \in (IF Sent(read, e) = {} THEN {known[e]} ELSE Sent(read, e))
  BY <1>0 DEF Upload
<1>4. \A x \in read : known'[rows[x.id].ean] = rows[x.id].create
  <2> SUFFICES ASSUME NEW x \in read
               PROVE  known'[rows[x.id].ean] = rows[x.id].create
    OBVIOUS
  <2> DEFINE e == rows[x.id].ean
  <2>1. x.id \in DOMAIN rows /\ x.row = rows[x.id] /\ e \in Eans
    BY <1>1, <1>2 DEF Unsynced, Row
  <2>2. \A y \in read : y.row.ean = e => y.row.create = rows[x.id].create
    BY <1>2, <2>1 DEF SInv, OneRowPerEan, Unsynced
  <2>3. Sent(read, e) = {rows[x.id].create}
    BY <2>1, <2>2 DEF Sent
  <2> QED
    BY <1>3, <2>1, <2>3
<1>5. \A i \in DOMAIN rows : rows[i].synced => known'[rows[i].ean] = known[rows[i].ean]
  <2> SUFFICES ASSUME NEW i \in DOMAIN rows, rows[i].synced
               PROVE  known'[rows[i].ean] = known[rows[i].ean]
    OBVIOUS
  <2>1. \A y \in read : y.row.ean # rows[i].ean
    BY <1>2 DEF SInv, OneRowPerEan, Unsynced
  <2>2. Sent(read, rows[i].ean) = {} /\ rows[i].ean \in Eans
    BY <1>1, <2>1 DEF Sent, Row
  <2> QED
    BY <1>3, <2>2
<1>6. \A e \in Eans : RowsOf(e) = {} => known'[e] = known[e]
  <2> SUFFICES ASSUME NEW e \in Eans, RowsOf(e) = {}
               PROVE  known'[e] = known[e]
    OBVIOUS
  <2>1. \A y \in read : y.row.ean # e
    BY <1>2 DEF RowsOf, Unsynced
  <2>2. Sent(read, e) = {}
    BY <2>1 DEF Sent
  <2> QED
    BY <1>3, <2>2
<1>7. /\ \A l \in Tasks : l # k => tasks'[l] = tasks[l]
      /\ tasks'[k] = [at |-> "marking", ids |-> {x.id : x \in read}]
  BY <1>0 DEF TypeOK, Upload
<1>8. OneAtATime'
  BY <1>0, <1>7 DEF SInv, OneAtATime
<1>9. ReadsHold'
  <2>1. \A l \in Tasks : l # k => tasks[l].at = "idle"
    BY <1>0 DEF SInv, OneAtATime
  <2>2. \A u \in Tabs : tabs[u].at # "toggling"
    BY <1>0 DEF SInv, OneAtATime
  <2>3. \A i \in tasks'[k].ids : i \in DOMAIN rows' /\ known'[rows'[i].ean] = rows'[i].create
    BY <1>0, <1>2, <1>4, <1>7 DEF Unsynced
  <2> QED
    BY <1>0, <1>7, <2>1, <2>2, <2>3 DEF ReadsHold
<1>10. SettledIsTrue'
  BY <1>0, <1>5, <1>6 DEF SInv, SettledIsTrue, RowsOf
<1>11. OneRowPerEan'
  BY <1>0 DEF SInv, OneRowPerEan
<1> QED
  BY <1>8, <1>9, <1>10, <1>11 DEF SInv

\* The rows marked are those that were sent.
LEMMA MarkSyncedS ==
    ASSUME KInv, SInv, NEW k \in Tasks, MarkSynced(k)
    PROVE  SInv'
<1> DEFINE ids == tasks[k].ids
<1>0. TypeOK /\ tasks[k].at = "marking" /\ UNCHANGED <<known, tabs>>
  BY DEF KInv, MarkSynced
<1>1. \A i \in ids : i \in DOMAIN rows /\ known[rows[i].ean] = rows[i].create
  BY <1>0 DEF SInv, ReadsHold
<1>2. \A i \in DOMAIN rows : rows[i] \in Row
  BY <1>0, RowsDomain DEF TypeOK
<1>3. /\ DOMAIN rows' = DOMAIN rows
      /\ \A i \in DOMAIN rows :
           /\ rows'[i].ean = rows[i].ean /\ rows'[i].create = rows[i].create
           /\ i \notin ids => rows'[i] = rows[i]
  BY <1>2 DEF MarkSynced, Row
<1>4. /\ \A l \in Tasks : tasks'[l].at = "idle"
      /\ \A u \in Tabs : tabs'[u].at # "toggling"
  BY <1>0 DEF SInv, OneAtATime, TypeOK, MarkSynced
<1>5. OneAtATime' /\ ReadsHold'
  BY <1>4 DEF OneAtATime, ReadsHold
<1>6. \A i \in DOMAIN rows' : rows'[i].synced => known'[rows'[i].ean] = rows'[i].create
  BY <1>0, <1>1, <1>3 DEF SInv, SettledIsTrue
<1>7. \A e \in Eans : RowsOf(e)' = RowsOf(e)
  BY <1>3 DEF RowsOf
<1>8. SettledIsTrue'
  BY <1>0, <1>6, <1>7 DEF SInv, SettledIsTrue
<1>9. OneRowPerEan'
  BY <1>3 DEF SInv, OneRowPerEan
<1> QED
  BY <1>5, <1>8, <1>9 DEF SInv

\* A task that is cut short leaves its rows to be sent.
LEMMA AbortTaskS ==
    ASSUME KInv, SInv, NEW k \in Tasks, AbortTask(k)
    PROVE  SInv'
<1>1. UNCHANGED rows /\ UNCHANGED known /\ UNCHANGED tabs
  BY DEF AbortTask
<1>2. \A l \in Tasks : tasks'[l].at # "idle" => tasks'[l] = tasks[l]
  BY DEF KInv, TypeOK, AbortTask
<1>3. OneAtATime'
  BY <1>1, <1>2 DEF SInv, OneAtATime
<1>4. ReadsHold'
  BY <1>1, <1>2 DEF SInv, ReadsHold, RowsOf, Unsynced
<1>5. OneRowPerEan' /\ SettledIsTrue'
  BY <1>1 DEF SInv, OneRowPerEan, SettledIsTrue, RowsOf
<1> QED
  BY <1>3, <1>4, <1>5 DEF SInv

\* A step of nothing.
LEMMA StutterS ==
    ASSUME SInv, UNCHANGED vars
    PROVE  SInv'
BY DEF vars, SInv, OneRowPerEan, OneAtATime, ReadsHold, SettledIsTrue, RowsOf, Unsynced

\* When nothing overlaps and no notice is imported, the second invariant holds too.
LEMMA InductiveAlone ==
    ASSUME Exclusive, ~Imports
    PROVE  Spec => []SInv
<1>1. KInv /\ SInv /\ [Next]_vars => SInv'
  <2> SUFFICES ASSUME KInv, SInv, [Next]_vars PROVE SInv'
    OBVIOUS
  <2>1. CASE UNCHANGED vars
    BY <2>1, StutterS
  <2>2. ASSUME NEW t \in Tabs,
               \/ \E e \in Eans : OpenModal(t, e)
               \/ CloseModal(t) \/ Submit(t) \/ CommitToggle(t) \/ AbortToggle(t)
        PROVE  SInv'
    BY <2>2, ModalS, SubmitS, CommitToggleS
  <2>3. ASSUME NEW k \in Tasks,
               \/ ReadUnsynced(k) \/ Upload(k) \/ MarkSynced(k) \/ AbortTask(k)
               \/ \E e \in Eans : ReadNotice(k, e)
               \/ MarkNotice(k)
        PROVE  SInv'
    <3>1. ~(\E e \in Eans : ReadNotice(k, e)) /\ ~MarkNotice(k)
      BY DEF ReadNotice, MarkNotice, SInv, ReadsHold
    <3> QED
      BY <2>3, <3>1, ReadUnsyncedS, UploadS, MarkSyncedS, AbortTaskS
  <2> QED
    BY <2>1, <2>2, <2>3 DEF Next
<1> QED
  BY <1>1, InitS, Inductive, PTL DEF Spec

\* When requests and tasks do not overlap and no notice is imported, what the
\* search page shows as settled is so at Dilicom, in spite of failed uploads
\* and of crashes on both sides of the upload.
THEOREM StatusSafe ==
    ASSUME Exclusive, ~Imports
    PROVE  Spec => []StatusIsTrue
<1>1. SInv => StatusIsTrue
  BY DEF SInv, SettledIsTrue, StatusIsTrue
<1> QED
  BY <1>1, InductiveAlone, PTL

\* Requests that do not overlap never insert a second row for a book.
THEOREM RowsSafe ==
    ASSUME Exclusive, ~Imports
    PROVE  Spec => []OneRowPerEan
<1>1. SInv => OneRowPerEan
  BY DEF SInv
<1> QED
  BY <1>1, InductiveAlone, PTL
-----------------------------------------------------------------------------
(* The catalogue: rows, products, screens and the session of an import.     *)

\* A row of prices, its numbers being what days and identifiers are.
PriceOK(p) ==
    /\ DOMAIN p = {"id", "vat", "from", "to", "price"}
    /\ p.id \in Nat /\ p.from \in Nat /\ p.to \in Nat

\* The rows of a product: one row per identifier.
RowsOK(hist) ==
    /\ IsFiniteSet(hist)
    /\ \A p \in hist : PriceOK(p)
    /\ \A p, q \in hist : p.id = q.id => p = q

\* Every period has a day.
Ordered(hist) == \A p \in hist : p.from <= p.to

\* The row w goes back to the row v, whose price only the rows of news may have changed.
GoesBack(w, v, news) ==
    /\ w.id = v.id /\ w.vat = v.vat /\ w.from = v.from
    /\ w.price = v.price \/ \E x \in news : x.vat = w.vat /\ x.from = w.from

\* No two periods of a rate overlap, and each has a day.
Apart(hist) == Ordered(hist) /\ Disjoint(hist)

\* A product, when the identifiers below n have been given.
ProductOK(x, n) ==
    /\ DOMAIN x = {"text", "active", "prices"}
    /\ RowsOK(x.prices)
    /\ \A p \in x.prices : p.id # 0 /\ p.id < n

ProductsOK ==
    /\ today \in Days /\ nextId \in Nat \ {0}
    /\ DOMAIN catalogue = Products
    /\ \A e \in Products :
         /\ ProductOK(catalogue[e], nextId)
         /\ InCatalogue(e) => catalogue[e].prices # {}

SuppliersOK ==
    /\ DOMAIN suppliers = Glns
    /\ \A g \in Glns :
         /\ DOMAIN suppliers[g] = {"known", "active", "terms"}
         /\ suppliers[g].known \in BOOLEAN /\ suppliers[g].active \in BOOLEAN

\* In a calm behaviour the product that a screen has loaded is still so.
ScreenOK(s) ==
    /\ DOMAIN s = {"at", "ean", "shown", "loaded"}
    /\ s.at \in {"closed", "open", "loaded"}
    /\ s.at # "closed" =>
         /\ s.ean \in Products /\ catalogue[s.ean].prices # {}
         /\ DOMAIN s.shown = {"text", "active", "prices"} /\ RowsOK(s.shown.prices)
    /\ s.at = "open" => \A p \in s.shown.prices : p.id # 0
    /\ s.at = "loaded" => s.shown.prices # {}
    /\ calm /\ s.at = "loaded" =>
         s.loaded.prices = catalogue[s.ean].prices /\ Apart(s.shown.prices)

ScreensOK ==
    /\ DOMAIN screens = Clerks
    /\ \A t \in Clerks : ScreenOK(screens[t])

\* The row v of the session is the row p of the database, but for its end and for a
\* price that a notice announced.
SameRow(e, v, p) ==
    /\ v.vat = p.vat /\ v.from = p.from
    /\ v.price = p.price \/ [ean |-> e, vat |-> p.vat, from |-> p.from] \in import.told

\* What the session of the import has written for the product e.
WorkOK(e) ==
    LET w == import.work[e]
    IN  /\ DOMAIN w = {"old", "new"} /\ catalogue[e].prices # {}
        /\ ProductOK(w.old, nextId) /\ ProductOK(w.new, nextId)
        /\ \A v \in w.new.prices, p \in catalogue[e].prices : v.id = p.id => SameRow(e, v, p)

ImportOK ==
    /\ DOMAIN import = {"at", "lines", "record", "added", "want", "read", "work", "told", "marks", "unknown"}
    /\ DOMAIN import.lines \subseteq Glns
    /\ import.marks \in Seq(Products)
    /\ import.at = "refused" => \E e \in Products : import.unknown = {e}
    /\ import.at \notin {"books", "refused"} => DOMAIN import.work = {}
    /\ \A e \in DOMAIN import.work : e \in Products /\ WorkOK(e)

\* In a calm behaviour: what the session has written goes on from the product as it is.
CalmWork(e) ==
    LET w == import.work[e]
    IN  /\ w.old = catalogue[e]
        /\ \A p \in w.old.prices : \E v \in w.new.prices : v.id = p.id
        /\ Apart(w.new.prices)

\* What is marked is written, and then committed.
CalmMarks ==
    /\ import.at \in {"idle", "distributors", "services"} => Len(import.marks) = 0
    /\ \A i \in 1 .. Len(import.marks) :
         LET e == import.marks[i]
         IN  /\ import.at = "books" => e \in DOMAIN import.work /\ import.work[e].new.text = imports
             /\ import.at = "marking" => catalogue[e].text = imports

CalmOK ==
    calm =>
      /\ \A e \in Products : Apart(catalogue[e].prices)
      /\ \A t, u \in Clerks : screens[t].at = "loaded" /\ screens[u].at = "loaded" => t = u
      /\ import.at # "idle" => \A t \in Clerks : screens[t].at # "loaded"
      /\ \A e \in DOMAIN import.work : CalmWork(e)
      /\ import.at = "refused" => \A e \in import.unknown : ~InCatalogue(e)
      /\ CalmMarks

CatalogueInv == calm \in BOOLEAN /\ ProductsOK /\ SuppliersOK /\ ScreensOK /\ ImportOK /\ CalmOK

-----------------------------------------------------------------------------
(* Rows of prices.                                                         *)

\* Rows are ordered by their days, then by their identifiers.
LEMMA LaterOrders ==
    ASSUME NEW S, RowsOK(S), NEW p \in S, NEW q \in S, NEW r \in S
    PROVE  /\ Later(p, q) /\ Later(q, r) => Later(p, r)
           /\ p # q => (Later(p, q) \/ Later(q, p))
           /\ ~ Later(p, p)
           /\ ~ (Later(p, q) /\ Later(q, p))
BY DEF RowsOK, PriceOK, Later

\* Some rows are left when others are taken.
LEMMA FewerRows ==
    ASSUME NEW S, RowsOK(S), NEW T, T \subseteq S
    PROVE  RowsOK(T)
BY FS_Subset DEF RowsOK

\* Finitely many rows have a last one and a first one.
LEMMA LatestIn ==
    ASSUME NEW S, RowsOK(S), S # {}
    PROVE  /\ Latest(S) \in S /\ \A q \in S \ {Latest(S)} : Later(Latest(S), q)
           /\ Earliest(S) \in S /\ \A q \in S \ {Earliest(S)} : Later(q, Earliest(S))
<1> DEFINE Bounded(s) == /\ \E p \in s : \A q \in s \ {p} : Later(p, q)
                         /\ \E p \in s : \A q \in s \ {p} : Later(q, p)
           Bad == {s \in SUBSET S : s # {} /\ ~Bounded(s)}
<1>1. ASSUME Bad # {} PROVE FALSE
  <2>1. PICK s \in Bad : \A x \in s : s \ {x} \notin Bad
    <3>1. Bad \in SUBSET SUBSET S /\ IsFiniteSet(S)
        BY DEF RowsOK
    <3> HIDE DEF Bad
    <3> QED
        BY <1>1, <3>1, LeastSubset
  <2>2. PICK x \in s : TRUE
      OBVIOUS
  <2>3. s \subseteq S /\ ~Bounded(s) /\ x \in S
      OBVIOUS
  <2>4. CASE s = {x}
      BY <2>3, <2>4
  <2>5. CASE s # {x}
    <3> DEFINE r == s \ {x}
    <3>1. Bounded(r)
        BY <2>1, <2>2, <2>3, <2>5
    <3>2. PICK last \in r : \A q \in r \ {last} : Later(last, q)
        BY <3>1
    <3>3. PICK first \in r : \A q \in r \ {first} : Later(q, first)
        BY <3>1
    <3>4. \A p, q, t \in S : /\ Later(p, q) /\ Later(q, t) => Later(p, t)
                             /\ p # q => (Later(p, q) \/ Later(q, p))
        BY LaterOrders
    <3>5. \E p \in s : \A q \in s \ {p} : Later(p, q)
      <4>1. CASE Later(x, last)
        <5>1. \A q \in s \ {x} : Later(x, q)
            BY <2>3, <3>2, <3>4, <4>1
        <5> QED
            BY <5>1, <2>2
      <4>2. CASE Later(last, x)
        <5>1. \A q \in s \ {last} : Later(last, q)
            BY <2>3, <3>2, <3>4, <4>2
        <5> QED
            BY <5>1
      <4> QED
          BY <2>3, <3>4, <4>1, <4>2
    <3>6. \E p \in s : \A q \in s \ {p} : Later(q, p)
      <4>1. CASE Later(first, x)
        <5>1. \A q \in s \ {x} : Later(q, x)
            BY <2>3, <3>3, <3>4, <4>1
        <5> QED
            BY <5>1, <2>2
      <4>2. CASE Later(x, first)
        <5>1. \A q \in s \ {first} : Later(q, first)
            BY <2>3, <3>3, <3>4, <4>2
        <5> QED
            BY <5>1
      <4> QED
          BY <2>3, <3>4, <4>1, <4>2
    <3> QED
        BY <2>3, <3>5, <3>6
  <2> QED
      BY <2>4, <2>5
<1>2. Bounded(S)
    BY <1>1
<1>3. /\ \E p \in S : \A q \in S \ {p} : Later(p, q)
      /\ \E p \in S : \A q \in S \ {p} : Later(q, p)
    BY <1>2
<1>4. Latest(S) \in S /\ \A q \in S \ {Latest(S)} : Later(Latest(S), q)
    BY <1>3 DEF Latest
<1>5. Earliest(S) \in S /\ \A q \in S \ {Earliest(S)} : Later(q, Earliest(S))
    BY <1>3 DEF Earliest
<1> QED
    BY <1>4, <1>5

-----------------------------------------------------------------------------
(* The rows of a notice, one after the other.                              *)

Step(k, hist, s) == IF s = {} THEN hist ELSE ApplyRow(k[s \ {Latest(s)}], Latest(s))
IsHistory(k, hist, news) == k = [s \in SUBSET news |-> Step(k, hist, s)]

\* What applying the rows of a notice is, without its operator parameters.
LEMMA AppliedIsChosen ==
    \A hist, news : ApplyRows(hist, news) = (CHOOSE k : IsHistory(k, hist, news))[news]
BY Zenon DEF ApplyRows, MapThenFoldSet, IsHistory, Step

\* The row applied last is one of those applied.
LEMMA LatestPicked ==
    ASSUME NEW S, RowsOK(S), NEW s \in SUBSET S, s # {}
    PROVE  Latest(s) \in s
BY FewerRows, LatestIn

\* What the first rows of a notice make does not depend on those that follow.
LEMMA HistoryUnique ==
    ASSUME NEW hist, NEW S, NEW T, RowsOK(S), NEW g, NEW h,
           IsHistory(g, hist, S), IsHistory(h, hist, T), NEW s \in SUBSET S, s \in SUBSET T
    PROVE  g[s] = h[s]
<1> DEFINE Bad == {r \in SUBSET S : r \in SUBSET T /\ g[r] # h[r]}
<1>1. ASSUME Bad # {} PROVE FALSE
  <2>1. PICK r \in Bad : \A x \in r : r \ {x} \notin Bad
    <3>1. Bad \in SUBSET SUBSET S /\ IsFiniteSet(S)
        BY DEF RowsOK
    <3> HIDE DEF Bad
    <3> QED
        BY <1>1, <3>1, LeastSubset
  <2>2. r # {}
      BY DEF IsHistory, Step
  <2> DEFINE q == r \ {Latest(r)}
  <2>3. g[q] = h[q]
      BY <2>1, <2>2, LatestPicked
  <2>4. g[r] = ApplyRow(g[q], Latest(r)) /\ h[r] = ApplyRow(h[q], Latest(r))
    <3>1. r \in SUBSET S /\ r \in SUBSET T
        OBVIOUS
    <3>2. g[r] = Step(g, hist, r) /\ h[r] = Step(h, hist, r)
        BY <3>1 DEF IsHistory
    <3> QED
        BY <2>2, <3>2 DEF Step
  <2> QED
      BY <2>3, <2>4
<1> QED
    BY <1>1

\* The rows of a notice can be applied.
LEMMA HistoryExists ==
    ASSUME NEW hist, NEW S, RowsOK(S)
    PROVE  \E g : IsHistory(g, hist, S)
<1> DEFINE Bad == {s \in SUBSET S : ~ \E g : IsHistory(g, hist, s)}
<1>1. ASSUME Bad # {} PROVE FALSE
  <2>1. PICK s \in Bad : \A x \in s : s \ {x} \notin Bad
    <3>1. Bad \in SUBSET SUBSET S /\ IsFiniteSet(S)
        BY DEF RowsOK
    <3> HIDE DEF Bad
    <3> QED
        BY <1>1, <3>1, LeastSubset
  <2> DEFINE part(x) == CHOOSE g : IsHistory(g, hist, s \ {x})
             whole == [r \in SUBSET s |->
                         IF r = {} THEN hist
                         ELSE ApplyRow(part(Latest(r))[r \ {Latest(r)}], Latest(r))]
  <2>2. ASSUME NEW x \in s PROVE IsHistory(part(x), hist, s \ {x})
    <3>1. \E g : IsHistory(g, hist, s \ {x})
        BY <2>1
    <3> QED
        BY <3>1
  <2>3. ASSUME NEW x \in s, NEW r \in SUBSET (s \ {x})
        PROVE  part(x)[r] = whole[r]
    <3>1. part(x)[r] = Step(part(x), hist, r)
      <4>1. IsHistory(part(x), hist, s \ {x})
          BY <2>2
      <4> HIDE DEF part
      <4> QED
          BY <4>1 DEF IsHistory
    <3>2. CASE r = {}
        BY <3>1, <3>2 DEF Step
    <3>3. CASE r # {}
      <4> DEFINE y == Latest(r)
                 q == r \ {y}
      <4>1. y \in s /\ q \in SUBSET (s \ {x}) /\ q \in SUBSET (s \ {y})
          BY <3>3, LatestPicked
      <4>2. IsHistory(part(x), hist, s \ {x}) /\ IsHistory(part(y), hist, s \ {y})
        <5> HIDE DEF part, y
        <5> QED
            BY <2>2, <4>1
      <4>3. part(x)[q] = part(y)[q]
        <5>1. RowsOK(s \ {x})
            BY <2>1, FewerRows
        <5> HIDE DEF part, y, q
        <5> QED
            BY <4>1, <4>2, <5>1, HistoryUnique
      <4>4. part(x)[r] = ApplyRow(part(x)[q], y)
        <5> HIDE DEF part
        <5> QED
            BY <3>1, <3>3 DEF Step
      <4>5. whole[r] = ApplyRow(part(y)[q], y)
        <5> HIDE DEF part
        <5> QED
            BY <3>3
      <4> QED
          BY <4>3, <4>4, <4>5
    <3> QED
        BY <3>2, <3>3
  <2>4. ASSUME NEW r \in SUBSET s
        PROVE  whole[r] = Step(whole, hist, r)
    <3>1. CASE r = {}
        BY <3>1 DEF Step
    <3>2. CASE r # {}
      <4> DEFINE y == Latest(r)
                 q == r \ {y}
      <4>1. y \in s /\ q \in SUBSET (s \ {y})
          BY <3>2, LatestPicked
      <4>2. part(y)[q] = whole[q]
        <5> HIDE DEF part, whole, y, q
        <5> QED
            BY <2>3, <4>1
      <4>3. whole[r] = ApplyRow(part(y)[q], y)
        <5> HIDE DEF part
        <5> QED
            BY <3>2
      <4> HIDE DEF part, whole
      <4> QED
          BY <3>2, <4>2, <4>3 DEF Step
    <3> QED
        BY <3>1, <3>2
  <2>5. IsHistory(whole, hist, s)
    <3>1. whole = [r \in SUBSET s |-> whole[r]]
        OBVIOUS
    <3> HIDE DEF whole
    <3> QED
        BY <2>4, <3>1 DEF IsHistory
  <2> HIDE DEF whole
  <2> QED
      BY <2>5
<1>2. S \notin Bad
    BY <1>1
<1> QED
    BY <1>2

\* What the rows of a notice make of a history, one after the other.
Chain(g, hist, news) ==
    /\ g[{}] = hist
    /\ g[news] = ApplyRows(hist, news)
    /\ \A s \in SUBSET news : s # {} =>
          Latest(s) \in s /\ g[s] = ApplyRow(g[s \ {Latest(s)}], Latest(s))

\* Induction on the rows of a notice: what no row applied to what fewer rows made
\* can break holds of what all make.
LEMMA AppliedOneByOne ==
    ASSUME NEW hist, NEW news, RowsOK(news)
    PROVE  \E g : Chain(g, hist, news)
<1> DEFINE g == CHOOSE k : IsHistory(k, hist, news)
<1>1. IsHistory(g, hist, news)
    BY HistoryExists
<1>2. g[news] = ApplyRows(hist, news)
    BY AppliedIsChosen
<1>3. \A s \in SUBSET news : g[s] = Step(g, hist, s)
  <2> HIDE DEF g
  <2> QED
      BY <1>1 DEF IsHistory
<1>4. g[{}] = hist
  <2> HIDE DEF g
  <2> QED
      BY <1>3 DEF Step
<1>5. \A s \in SUBSET news : s # {} =>
        /\ Latest(s) \in s
        /\ g[s] = ApplyRow(g[s \ {Latest(s)}], Latest(s))
  <2> HIDE DEF g
  <2> QED
      BY <1>3, LatestPicked DEF Step
<1> HIDE DEF g
<1> QED
    BY <1>2, <1>4, <1>5 DEF Chain

-----------------------------------------------------------------------------
(* One row of a notice.                                                    *)

\* What applying a row does to a history: some rows go, one of them comes back
\* with its price and an end before the next, another one ends the day before.
Replaced(hist, new, kept, gone, closed) ==
    /\ gone \subseteq hist
    /\ closed = {} \/ \E c : closed = {c}
    /\ \A c \in closed : \E b \in gone :
         /\ PriceOK(c) /\ c.id = b.id /\ c.vat = b.vat /\ c.from = b.from /\ c.price = b.price
         /\ c.vat = new.vat /\ c.from < new.from /\ c.to = new.from - 1
         /\ c.to < b.to
    /\ \A b \in gone : b.vat = new.vat /\ ((b.id = kept.id /\ b.from = new.from) \/ \E c \in closed : c.id = b.id)
    /\ PriceOK(kept) /\ kept.vat = new.vat /\ kept.from = new.from /\ kept.price = new.price
    /\ kept.id = new.id \/ \E x \in gone : x.id = kept.id /\ x.vat = kept.vat /\ x.from = kept.from
    /\ \A a \in hist : a.vat = new.vat /\ a.from > new.from => kept.to < a.from
    /\ Ordered(hist) /\ new.from <= new.to => kept.from <= kept.to
    /\ Ordered(hist) /\ Disjoint(hist) =>
         \A p \in hist \ gone : p.vat = new.vat => p.from > new.from \/ p.to < new.from
\* A row of a notice replaces the rows it closes or corrects.
LEMMA RowReplaced ==
    ASSUME NEW hist, RowsOK(hist), NEW new, PriceOK(new)
    PROVE  \E kept, gone, closed :
             /\ ApplyRow(hist, new) = (hist \ gone) \cup closed \cup {kept}
             /\ Replaced(hist, new, kept, gone, closed)
<1> DEFINE Same == {p \in hist : p.vat = new.vat}
           exact == {p \in Same : p.from = new.from}
           before == {p \in Same : p.from < new.from /\ p.to >= new.from}
           after == {p \in Same : p.from > new.from}
           row == IF exact = {} THEN new ELSE [Earliest(exact) EXCEPT !.price = new.price]
           kept == IF after = {} THEN row ELSE [row EXCEPT !.to = Earliest(after).from - 1]
           closed == {[p EXCEPT !.to = new.from - 1] : p \in {q \in before : q = Latest(before)}}
           gone == {p \in exact : p = Earliest(exact)} \cup {p \in before : p = Latest(before)}
<1>1. ApplyRow(hist, new) = (hist \ gone) \cup closed \cup {kept}
    BY DEF ApplyRow
<1>2. /\ exact # {} => Earliest(exact) \in exact
      /\ after # {} => Earliest(after) \in after /\ \A a \in after : Earliest(after).from <= a.from
      /\ before # {} => Latest(before) \in before
  <2>1. RowsOK(exact) /\ RowsOK(before) /\ RowsOK(after)
      BY FewerRows
  <2>2. \A a \in after : after # {} => Earliest(after) = a \/ Later(a, Earliest(after))
      BY <2>1, LatestIn
  <2>3. /\ exact # {} => Earliest(exact) \in exact
        /\ after # {} => Earliest(after) \in after
        /\ before # {} => Latest(before) \in before
    <3> HIDE DEF exact, before, after
    <3> QED
        BY <2>1, LatestIn
  <2>4. \A a \in after : after # {} => a.from \in Nat
      BY DEF RowsOK, PriceOK
  <2> HIDE DEF exact, before, after
  <2> QED
      BY <2>2, <2>3, <2>4 DEF Later
<1>3. \A p \in hist : PriceOK(p)
    BY DEF RowsOK
<1>4. gone \subseteq hist
    OBVIOUS
<1>5. closed = {} \/ \E c : closed = {c}
  <2>1. closed \subseteq {[Latest(before) EXCEPT !.to = new.from - 1]}
      OBVIOUS
  <2> HIDE DEF closed
  <2> QED
      BY <2>1
<1>6. ASSUME NEW c \in closed
      PROVE  \E b \in gone :
         /\ PriceOK(c) /\ c.id = b.id /\ c.vat = b.vat /\ c.from = b.from /\ c.price = b.price
         /\ c.vat = new.vat /\ c.from < new.from /\ c.to = new.from - 1
         /\ c.to < b.to
  <2>1. PICK b \in before : b = Latest(before) /\ c = [b EXCEPT !.to = new.from - 1]
      OBVIOUS
  <2>2. b \in gone /\ b \in hist /\ b.vat = new.vat /\ b.from < new.from /\ b.to >= new.from
      BY <2>1
  <2>3. PriceOK(b)
      BY <1>3, <2>2
  <2>4. new.from - 1 \in Nat /\ new.from - 1 < b.to
      BY <2>2, <2>3 DEF PriceOK
  <2> HIDE DEF before, gone, closed
  <2> QED
      BY <2>1, <2>2, <2>3, <2>4 DEF PriceOK
<1>7. PriceOK(row) /\ row.vat = new.vat /\ row.from = new.from /\ row.price = new.price
      /\ (row.id = new.id \/ \E x \in gone : x.id = row.id /\ x.vat = row.vat /\ x.from = row.from)
      /\ (exact = {} => row = new)
      /\ (exact # {} => row.to = Earliest(exact).to)
  <2>1. CASE exact = {}
    <3>1. row = new
        BY <2>1
    <3> QED
        BY <2>1, <3>1
  <2>2. CASE exact # {}
    <3>1. PICK x \in exact : x = Earliest(exact)
        BY <1>2, <2>2
    <3>2. PriceOK(x) /\ x \in gone /\ x.vat = new.vat /\ x.from = new.from
        BY <1>3, <3>1
    <3>3. row = [x EXCEPT !.price = new.price]
        BY <2>2, <3>1
    <3> HIDE DEF row, gone, exact
    <3> QED
        BY <2>2, <3>1, <3>2, <3>3 DEF PriceOK
  <2> QED
      BY <2>1, <2>2
<1>8. /\ PriceOK(kept) /\ kept.vat = new.vat /\ kept.from = new.from /\ kept.price = new.price
      /\ kept.id = row.id
      /\ after = {} => kept = row
      /\ after # {} => kept.to = Earliest(after).from - 1 /\ Earliest(after).from > new.from
                       /\ Earliest(after).from \in Nat
  <2>1. CASE after = {}
    <3>1. kept = row
        BY <2>1
    <3> HIDE DEF row, kept, after
    <3> QED
        BY <1>7, <2>1, <3>1
  <2>2. CASE after # {}
    <3>1. PICK a \in after : a = Earliest(after)
        BY <1>2, <2>2
    <3>2. a.from > new.from /\ a.from \in Nat /\ new.from \in Nat
        BY <1>3, <3>1 DEF PriceOK
    <3>3. kept = [row EXCEPT !.to = a.from - 1]
        BY <2>2, <3>1
    <3> HIDE DEF row, kept, after
    <3> QED
        BY <1>7, <2>2, <3>1, <3>2, <3>3 DEF PriceOK
  <2> QED
      BY <2>1, <2>2
<1>9. kept.id = new.id \/ \E x \in gone : x.id = kept.id /\ x.vat = kept.vat /\ x.from = kept.from
  <2> HIDE DEF kept, row, gone
  <2> QED
      BY <1>7, <1>8
<1>10. ASSUME NEW b \in gone
       PROVE  b.vat = new.vat /\ ((b.id = kept.id /\ b.from = new.from) \/ \E c \in closed : c.id = b.id)
  <2>1. CASE b \in exact /\ b = Earliest(exact)
    <3>1. row = [b EXCEPT !.price = new.price]
        BY <2>1
    <3>2. PriceOK(b) /\ b.vat = new.vat /\ b.from = new.from
        BY <1>3, <2>1
    <3>3. row.id = b.id
      <4> HIDE DEF row
      <4> QED
          BY <3>1, <3>2 DEF PriceOK
    <3> HIDE DEF row, kept
    <3> QED
        BY <1>8, <3>2, <3>3
  <2>2. CASE b \in before /\ b = Latest(before)
    <3>1. [b EXCEPT !.to = new.from - 1] \in closed /\ b.vat = new.vat /\ PriceOK(b)
        BY <1>3, <2>2
    <3>2. [b EXCEPT !.to = new.from - 1].id = b.id
        BY <3>1 DEF PriceOK
    <3> QED
        BY <3>1, <3>2
  <2> QED
      BY <2>1, <2>2
<1>11. ASSUME NEW a \in hist, a.vat = new.vat, a.from > new.from PROVE kept.to < a.from
  <2>1. a \in after /\ a.from \in Nat
      BY <1>3, <1>11 DEF PriceOK
  <2>2. after # {} /\ Earliest(after).from <= a.from
    <3> HIDE DEF after
    <3> QED
        BY <1>2, <2>1
  <2> HIDE DEF after, kept
  <2> QED
      BY <1>8, <2>1, <2>2
<1>12. ASSUME Ordered(hist), new.from <= new.to PROVE kept.from <= kept.to
  <2>1. CASE after = {}
    <3>1. CASE exact = {}
      <4> HIDE DEF after, kept, row, exact
      <4> QED
          BY <1>7, <1>8, <1>12, <2>1, <3>1
    <3>2. CASE exact # {}
      <4>1. Earliest(exact) \in hist /\ Earliest(exact).from = new.from
          BY <1>2, <3>2
      <4> HIDE DEF after, kept, row, exact
      <4> QED
          BY <1>7, <1>8, <1>12, <2>1, <3>2, <4>1 DEF Ordered
    <3> QED
        BY <3>1, <3>2
  <2>2. CASE after # {}
    <3> HIDE DEF after, kept, row
    <3> QED
        BY <1>8, <2>2 DEF PriceOK
  <2> QED
      BY <2>1, <2>2
<1>13. ASSUME Ordered(hist), Disjoint(hist), NEW p \in hist \ gone, p.vat = new.vat
       PROVE  p.from > new.from \/ p.to < new.from
  <2>1. \A q \in hist : q.vat = new.vat /\ q # p => ~ (p.from <= q.to /\ q.from <= p.to)
      BY <1>13 DEF Disjoint, Overlap
  <2>2. PriceOK(p) /\ PriceOK(new) /\ p.from <= p.to
      BY <1>3, <1>13 DEF Ordered
  <2>3. CASE p.from = new.from
    <3>1. p \in exact
        BY <1>13, <2>3
    <3>2. Earliest(exact) \in exact /\ Earliest(exact) # p
        BY <1>2, <1>13, <3>1
    <3>3. PICK x \in exact : x # p
        BY <3>2
    <3>4. x \in hist /\ x.vat = new.vat /\ x.from = new.from /\ x.from <= x.to /\ PriceOK(x)
        BY <1>3, <1>13, <3>3 DEF Ordered
    <3> HIDE DEF exact, gone
    <3> QED
        BY <2>1, <2>2, <2>3, <3>3, <3>4
  <2>4. CASE p.from < new.from /\ p.to >= new.from
    <3>1. p \in before
        BY <1>13, <2>4
    <3>2. Latest(before) \in before /\ Latest(before) # p
        BY <1>2, <1>13, <3>1
    <3>3. PICK x \in before : x # p
        BY <3>2
    <3>4. x \in hist /\ x.vat = new.vat /\ x.from < new.from /\ x.to >= new.from /\ PriceOK(x)
        BY <1>3, <3>3
    <3> HIDE DEF before, gone
    <3> QED
        BY <2>1, <2>2, <2>4, <3>3, <3>4 DEF PriceOK
  <2> QED
      BY <2>2, <2>3, <2>4 DEF PriceOK
<1> HIDE DEF kept, gone, closed
<1>14. Replaced(hist, new, kept, gone, closed)
    BY <1>4, <1>5, <1>6, <1>8, <1>9, <1>10, <1>11, <1>12, <1>13 DEF Replaced
<1> QED
    BY <1>1, <1>14

\* Applying a row gives one row per identifier again: the rows go back to rows of the
\* history, or are the new one; no identifier goes.
LEMMA RowApplied ==
    ASSUME NEW hist, RowsOK(hist), NEW new, PriceOK(new), \A p \in hist : p.id # new.id
    PROVE  /\ RowsOK(ApplyRow(hist, new))
           /\ \A w \in ApplyRow(hist, new) :
                w.id = new.id \/ \E v \in hist : GoesBack(w, v, {new})
           /\ \A v \in hist : \E w \in ApplyRow(hist, new) : w.id = v.id
<1>1. PICK kept, gone, closed :
             /\ ApplyRow(hist, new) = (hist \ gone) \cup closed \cup {kept}
             /\ Replaced(hist, new, kept, gone, closed)
    BY RowReplaced
<1> DEFINE out == (hist \ gone) \cup closed \cup {kept}
<1>2. ApplyRow(hist, new) = out
    BY <1>1
<1>3. IsFiniteSet(out)
  <2>1. IsFiniteSet(hist \ gone)
      BY FS_Subset DEF RowsOK
  <2>2. IsFiniteSet(closed)
    <3>1. closed = {} \/ \E c : closed = {c}
        BY <1>1 DEF Replaced
    <3> QED
        BY <3>1, FS_EmptySet, FS_Singleton
  <2> QED
      BY <2>1, <2>2, FS_Union, FS_AddElement
<1>4. \A p \in hist : PriceOK(p)
    BY DEF RowsOK
<1>5. \A w \in out : PriceOK(w)
    BY <1>1, <1>4 DEF Replaced
<1>6. ASSUME NEW w \in out
      PROVE  w.id = new.id \/ \E v \in hist : GoesBack(w, v, {new})
  <2>1. CASE w \in hist
      BY <2>1 DEF GoesBack
  <2>2. CASE w \in closed
      BY <1>1, <2>2 DEF Replaced, GoesBack
  <2>3. CASE w = kept
    <3>1. kept.id = new.id \/ \E x \in hist : x.id = kept.id /\ x.vat = kept.vat /\ x.from = kept.from
        BY <1>1 DEF Replaced
    <3>2. kept.vat = new.vat /\ kept.from = new.from
        BY <1>1 DEF Replaced
    <3> QED
        BY <2>3, <3>1, <3>2 DEF GoesBack
  <2> QED
      BY <2>1, <2>2, <2>3
<1>7. ASSUME NEW v \in hist PROVE \E w \in out : w.id = v.id
  <2>1. CASE v \in gone
      BY <1>1, <2>1 DEF Replaced
  <2>2. CASE v \notin gone
      BY <2>2
  <2> QED
      BY <2>1, <2>2
<1>8. ASSUME NEW p \in out, NEW q \in out, p.id = q.id PROVE p = q
  <2>1. \A c \in closed : \E b \in gone : c.id = b.id /\ b \in hist /\ b.from = c.from /\ c.from < new.from
      BY <1>1 DEF Replaced
  <2>2. kept.id = new.id \/ \E x \in gone : x.id = kept.id /\ x \in hist /\ x.from = new.from
      BY <1>1 DEF Replaced
  <2>3. \A a, b \in hist : a.id = b.id => a = b
      BY DEF RowsOK
  <2>4. \A c, d \in closed : c = d
      BY <1>1 DEF Replaced
  <2>5. \A b \in gone : b \in hist
      BY <1>1 DEF Replaced
  <2>6. new.from \in Nat
      BY DEF PriceOK
  <2>7. \A c \in closed : c.id # kept.id
      BY <2>1, <2>2, <2>3, <2>6
  <2>8. \A r \in hist \ gone : r.id # kept.id /\ \A c \in closed : c.id # r.id
      BY <2>1, <2>2, <2>3
  <2> QED
      BY <1>8, <2>3, <2>4, <2>7, <2>8
<1> HIDE DEF out
<1> QED
    BY <1>2, <1>3, <1>5, <1>6, <1>7, <1>8 DEF RowsOK

\* Applying a row keeps the periods of a rate apart.
LEMMA RowAppliedApart ==
    ASSUME NEW hist, RowsOK(hist), NEW new, PriceOK(new),
           Ordered(hist), Disjoint(hist), new.from <= new.to
    PROVE  Ordered(ApplyRow(hist, new)) /\ Disjoint(ApplyRow(hist, new))
<1>1. PICK kept, gone, closed :
             /\ ApplyRow(hist, new) = (hist \ gone) \cup closed \cup {kept}
             /\ Replaced(hist, new, kept, gone, closed)
    BY RowReplaced
<1>2. \A p \in hist : PriceOK(p) /\ p.from <= p.to
    BY DEF RowsOK, Ordered
<1>3. /\ PriceOK(kept) /\ kept.from = new.from /\ kept.vat = new.vat /\ kept.from <= kept.to
      /\ \A a \in hist : a.vat = new.vat /\ a.from > new.from => kept.to < a.from
      /\ \A p \in hist \ gone : p.vat = new.vat => p.from > new.from \/ p.to < new.from
    BY <1>1 DEF Replaced
<1>4. \A c \in closed : PriceOK(c) /\ c.from <= c.to /\ c.to < new.from
  <2>1. \A c \in closed : PriceOK(c) /\ c.from < new.from /\ c.to = new.from - 1
      BY <1>1 DEF Replaced
  <2> QED
      BY <2>1 DEF PriceOK
<1>5. Ordered(ApplyRow(hist, new))
    BY <1>1, <1>2, <1>3, <1>4 DEF Ordered
<1>6. ASSUME NEW p \in hist \ gone, p.vat = kept.vat PROVE ~Overlap(p, kept) /\ ~Overlap(kept, p)
    BY <1>2, <1>3, <1>6 DEF Overlap, PriceOK
<1>7. ASSUME NEW c \in closed PROVE ~Overlap(c, kept) /\ ~Overlap(kept, c)
    BY <1>3, <1>4 DEF Overlap, PriceOK
<1>8. ASSUME NEW p \in hist \ gone, NEW c \in closed, p.vat = c.vat
      PROVE ~Overlap(p, c) /\ ~Overlap(c, p)
  <2>1. PICK b \in gone : c.vat = b.vat /\ c.from = b.from /\ c.to < b.to
      BY <1>1 DEF Replaced
  <2>2. b \in hist /\ p \in hist /\ p # b
      BY <1>1, <1>8 DEF Replaced
  <2>3. ~Overlap(p, b) /\ PriceOK(p) /\ PriceOK(b) /\ PriceOK(c)
      BY <1>2, <1>4, <1>8, <2>1, <2>2 DEF Disjoint
  <2> QED
      BY <2>1, <2>3 DEF Overlap, PriceOK
<1>9. \A c, d \in closed : c = d
    BY <1>1 DEF Replaced
<1>10. ASSUME NEW p \in hist \ gone, NEW q \in hist \ gone, p.vat = q.vat, p # q
       PROVE  ~Overlap(p, q)
    BY <1>10 DEF Disjoint
<1>11. Disjoint(ApplyRow(hist, new))
  <2> SUFFICES ASSUME NEW p \in ApplyRow(hist, new), NEW q \in ApplyRow(hist, new), p.vat = q.vat, p # q
               PROVE  ~Overlap(p, q)
      BY DEF Disjoint
  <2>1. p \in hist \ gone \/ p \in closed \/ p = kept
      BY <1>1
  <2>2. q \in hist \ gone \/ q \in closed \/ q = kept
      BY <1>1
  <2> QED
      BY <1>6, <1>7, <1>8, <1>9, <1>10, <2>1, <2>2
<1> QED
    BY <1>5, <1>11

\* Applying the rows of a notice, which have identifiers of their own, to a history.
LEMMA RowsApplied ==
    ASSUME NEW hist, RowsOK(hist), NEW news, RowsOK(news), \A p \in hist, x \in news : p.id # x.id
    PROVE  /\ RowsOK(ApplyRows(hist, news))
           /\ \A w \in ApplyRows(hist, news) :
                \/ \E x \in news : w.id = x.id
                \/ \E v \in hist : GoesBack(w, v, news)
           /\ \A v \in hist : \E w \in ApplyRows(hist, news) : w.id = v.id
           /\ Ordered(hist) /\ Disjoint(hist) /\ Ordered(news) =>
                 Ordered(ApplyRows(hist, news)) /\ Disjoint(ApplyRows(hist, news))
<1>g. PICK g : Chain(g, hist, news)
    BY AppliedOneByOne
<1>1. /\ g[{}] = hist
      /\ g[news] = ApplyRows(hist, news)
      /\ \A s \in SUBSET news : s # {} =>
            Latest(s) \in s /\ g[s] = ApplyRow(g[s \ {Latest(s)}], Latest(s))
    BY <1>g DEF Chain
<1> DEFINE Good(h, s) ==
             /\ RowsOK(h)
             /\ \A w \in h : (\E x \in s : w.id = x.id) \/ \E v \in hist : GoesBack(w, v, s)
             /\ \A v \in hist : \E w \in h : w.id = v.id
             /\ Ordered(hist) /\ Disjoint(hist) /\ Ordered(news) => Ordered(h) /\ Disjoint(h)
<1> DEFINE Bad == {s \in SUBSET news : ~Good(g[s], s)}
<1>2. Good(hist, {})
    BY DEF GoesBack
<1>3. ASSUME Bad # {} PROVE FALSE
  <2>1. PICK s \in Bad : \A x \in s : s \ {x} \notin Bad
    <3>1. Bad \in SUBSET SUBSET news /\ IsFiniteSet(news)
        BY DEF RowsOK
    <3> HIDE DEF Bad
    <3> QED
        BY <1>3, <3>1, LeastSubset
  <2>2. s \in SUBSET news /\ ~Good(g[s], s)
      OBVIOUS
  <2>3. s # {}
    <3> HIDE DEF Good
    <3> QED
        BY <1>1, <1>2, <2>2
  <2>4. PICK x \in s : g[s] = ApplyRow(g[s \ {x}], x)
      BY <1>1, <2>2, <2>3
  <2>5. PICK h : h = g[s \ {x}]
      OBVIOUS
  <2>6. Good(h, s \ {x})
    <3>1. s \ {x} \notin Bad /\ s \ {x} \in SUBSET news
        BY <2>1, <2>2
    <3> HIDE DEF Good
    <3> QED
        BY <2>5, <3>1
  <2>7. PriceOK(x) /\ x \in news
      BY <2>2 DEF RowsOK
  <2>8. \A p \in h : p.id # x.id
    <3>1. \A y \in s \ {x} : y \in news /\ y.id # x.id
        BY <2>2 DEF RowsOK
    <3> QED
        BY <2>6, <2>7, <3>1 DEF GoesBack
  <2>9. /\ RowsOK(ApplyRow(h, x))
        /\ \A w \in ApplyRow(h, x) : w.id = x.id \/ \E v \in h : GoesBack(w, v, {x})
        /\ \A v \in h : \E w \in ApplyRow(h, x) : w.id = v.id
    <3>1. RowsOK(h)
        BY <2>6
    <3> HIDE DEF Good, Bad
    <3> QED
        BY <3>1, <2>7, <2>8, RowApplied
  <2>10. ASSUME NEW w \in ApplyRow(h, x)
         PROVE  (\E y \in s : w.id = y.id) \/ \E v \in hist : GoesBack(w, v, s)
    <3>1. CASE w.id = x.id
        BY <3>1
    <3>2. ASSUME NEW v \in h, GoesBack(w, v, {x})
          PROVE  (\E y \in s : w.id = y.id) \/ \E u \in hist : GoesBack(w, u, s)
      <4>1. CASE \E y \in s \ {x} : v.id = y.id
          BY <3>2, <4>1 DEF GoesBack
      <4>2. ASSUME NEW u \in hist, GoesBack(v, u, s \ {x})
            PROVE  GoesBack(w, u, s)
          BY <3>2, <4>2 DEF GoesBack
      <4> QED
          BY <2>6, <4>1, <4>2
    <3> QED
        BY <2>9, <3>1, <3>2
  <2>11. \A v \in hist : \E w \in ApplyRow(h, x) : w.id = v.id
      BY <2>6, <2>9
  <2>12. ASSUME Ordered(hist), Disjoint(hist), Ordered(news)
         PROVE  Ordered(ApplyRow(h, x)) /\ Disjoint(ApplyRow(h, x))
    <3>1. x.from <= x.to
        BY <2>7, <2>12 DEF Ordered
    <3> QED
        BY <2>6, <2>7, <2>12, <3>1, RowAppliedApart
  <2>13. Good(ApplyRow(h, x), s)
      BY <2>9, <2>10, <2>11, <2>12
  <2> HIDE DEF Good
  <2> QED
      BY <2>2, <2>4, <2>5, <2>13
<1>4. news \in SUBSET news /\ news \notin Bad
    BY <1>3
<1>5. Good(g[news], news)
  <2> HIDE DEF Good
  <2> QED
      BY <1>4
<1> QED
    BY <1>1, <1>5

-----------------------------------------------------------------------------
(* The rows of a notice and those of a form.                               *)

\* A finite set in some order.
LEMMA SetInOrder ==
    ASSUME NEW S, IsFiniteSet(S)
    PROVE  DOMAIN SetToSeq(S) = 1 .. Cardinality(S) /\ \A i \in 1 .. Cardinality(S) : SetToSeq(S)[i] \in S
<1> DEFINE D == 1 .. Cardinality(S)
<1>1. PICK f : f \in Bijection(D, S)
    BY FS_CardinalityType DEF ExistsBijection
<1>2. f \in [D -> S] /\ IsInjective(f)
    BY <1>1 DEF Bijection, Injection
<1>3. SetToSeq(S) \in [D -> S]
    BY <1>2 DEF SetToSeq
<1> QED
    BY <1>3

\* As many rows as numbers, when each row has a number of its own.
LEMMA RowsCounted ==
    ASSUME NEW n \in Nat, NEW k \in Nat, NEW r, DOMAIN r = 1 .. n,
           \A i \in 1 .. n : PriceOK(r[i]) /\ r[i].id = k + i - 1
    PROVE  LET hist == {r[i] : i \in 1 .. n}
           IN  RowsOK(hist) /\ Cardinality(hist) = n /\ \A p \in hist : p.id >= k /\ p.id < k + n
<1> DEFINE hist == {r[i] : i \in 1 .. n}
<1>1. \A i, j \in 1 .. n : r[i].id = r[j].id => i = j
    BY SMT
<1>2. [i \in 1 .. n |-> r[i]] \in Bijection(1 .. n, hist)
  <2> DEFINE h == [i \in 1 .. n |-> r[i]]
  <2>1. h \in [1 .. n -> hist] /\ \A i, j \in 1 .. n : h[i] = h[j] => i = j
      BY <1>1
  <2>2. \A p \in hist : \E i \in 1 .. n : h[i] = p
      OBVIOUS
  <2> HIDE DEF hist
  <2> QED
      BY <2>1, <2>2 DEF Bijection, Injection, Surjection, IsInjective
<1>3. IsFiniteSet(1 .. n) /\ Cardinality(1 .. n) = n
    BY FS_Interval
<1>4. IsFiniteSet(hist) /\ Cardinality(hist) = n
  <2>1. ExistsBijection(1 .. n, hist)
      BY <1>2 DEF ExistsBijection
  <2> HIDE DEF hist
  <2> QED
      BY <1>3, <2>1, FS_Bijection
<1>5. \A p \in hist : PriceOK(p) /\ p.id >= k /\ p.id < k + n
    BY SMT
<1>6. \A p, q \in hist : p.id = q.id => p = q
    BY <1>1
<1> HIDE DEF hist
<1>7. RowsOK(hist)
    BY <1>4, <1>5, <1>6 DEF RowsOK
<1> QED
    BY <1>4, <1>5, <1>7 DEF hist

\* What the form and the notices may announce is finite.
LEMMA NoticeFinite ==
    ASSUME NEW told \in Notices
    PROVE  IsFiniteSet(told) /\ \A x \in told : x.vat \in Rates /\ x.from \in Days /\ x.price \in Prices
<1>1. told \subseteq Announced
    BY DEF Notices
<1>2. \A x \in told : x.vat \in Rates /\ x.from \in Days /\ x.price \in Prices
    BY <1>1 DEF Announced
<1>3. IsFiniteSet(Announced)
  <2> DEFINE S == Rates \X (Days \X Prices)
             f == [k \in S |-> [vat |-> k[1], from |-> k[2][1], price |-> k[2][2]]]
  <2>1. IsFiniteSet(Days)
      BY CatalogueAssumption, FS_Interval DEF Days
  <2>2. IsFiniteSet(Days \X Prices)
      BY <2>1, CatalogueAssumption, FS_Product
  <2>3. IsFiniteSet(S)
      BY <2>2, CatalogueAssumption, FS_Product
  <2>4. f \in Surjection(S, Announced)
    <3>1. f \in [S -> Announced]
        BY DEF Announced
    <3>2. ASSUME NEW x \in Announced PROVE \E k \in S : f[k] = x
      <4>1. <<x.vat, <<x.from, x.price>>>> \in S /\ x = [vat |-> x.vat, from |-> x.from, price |-> x.price]
          BY DEF Announced
      <4> QED
          BY <4>1
    <3> HIDE DEF f, S
    <3> QED
        BY <3>1, <3>2 DEF Surjection
  <2> HIDE DEF f, S
  <2> QED
      BY <2>3, <2>4, FS_Surjection
<1> QED
    BY <1>1, <1>2, <1>3, FS_Subset

\* The rows of a notice have the identifiers that come next.
LEMMA NoticeRowsOK ==
    ASSUME NEW told \in Notices, nextId \in Nat \ {0}, today \in Days
    PROVE  /\ RowsOK(NoticeRows(told)) /\ Ordered(NoticeRows(told))
           /\ Cardinality(NoticeRows(told)) \in Nat
           /\ \A p \in NoticeRows(told) :
                p.id >= nextId /\ p.id < nextId + Cardinality(NoticeRows(told))
<1> DEFINE S == IF told = {} THEN {[vat |-> NoRate, from |-> today, price |-> 0]} ELSE told
           n == Cardinality(S)
           sorted == SetToSeq(S)
           r == [i \in 1 .. n |-> PriceRow(nextId + i - 1, RateOf(sorted[i].vat), sorted[i].from, Open, sorted[i].price)]
<1>1. IsFiniteSet(S) /\ \A x \in S : x.from \in Days
  <2>1. CASE told = {}
    <3>1. PICK x : x = [vat |-> NoRate, from |-> today, price |-> 0]
        OBVIOUS
    <3>2. S = {x} /\ x.from = today
        BY <2>1, <3>1
    <3> HIDE DEF S
    <3> QED
        BY <3>2, FS_Singleton
  <2>2. CASE told # {}
      BY <2>2, NoticeFinite
  <2> QED
      BY <2>1, <2>2
<1>2. DOMAIN sorted = 1 .. n /\ n \in Nat /\ \A i \in 1 .. n : sorted[i] \in S
  <2> HIDE DEF S
  <2> QED
      BY <1>1, SetInOrder, FS_CardinalityType
<1>3. NoticeRows(told) = {r[i] : i \in 1 .. n}
  <2>1. NoticeRows(told) = {PriceRow(nextId + i - 1, RateOf(sorted[i].vat), sorted[i].from, Open, sorted[i].price) :
                              i \in DOMAIN sorted}
      BY DEF NoticeRows
  <2> HIDE DEF S, sorted, n
  <2> QED
      BY <1>2, <2>1
<1>4. ASSUME NEW i \in 1 .. n
      PROVE  PriceOK(r[i]) /\ r[i].id = nextId + i - 1 /\ r[i].from <= r[i].to
  <2>1. sorted[i].from \in Days
      BY <1>1, <1>2
  <2>2. MaxDay \in Nat
      BY CatalogueAssumption
  <2>3. r[i] = PriceRow(nextId + i - 1, RateOf(sorted[i].vat), sorted[i].from, Open, sorted[i].price)
      OBVIOUS
  <2>4. nextId + i - 1 \in Nat
      BY <1>2
  <2> HIDE DEF S, sorted, n, r
  <2> QED
      BY <1>2, <2>1, <2>2, <2>3, <2>4 DEF PriceRow, PriceOK, Open, Days
<1>5. DOMAIN r = 1 .. n
    OBVIOUS
<1> HIDE DEF S, sorted, n, r
<1> DEFINE hist == {r[i] : i \in 1 .. n}
<1>6. RowsOK(hist) /\ Cardinality(hist) = n /\ \A p \in hist : p.id >= nextId /\ p.id < nextId + n
  <2>1. \A i \in 1 .. n : PriceOK(r[i]) /\ r[i].id = nextId + i - 1
      BY <1>4
  <2>2. nextId \in Nat /\ n \in Nat
      BY <1>2
  <2> HIDE DEF hist
  <2>3. RowsOK(hist) /\ Cardinality(hist) = n /\ \A p \in hist : p.id >= nextId /\ p.id < nextId + n
      BY <1>5, <2>1, <2>2, RowsCounted DEF hist
  <2> QED
      BY <2>3
<1>7. Ordered(hist)
    BY <1>4 DEF Ordered
<1> QED
    BY <1>2, <1>3, <1>6, <1>7

\* A row of the form has fewer rows above it than the form has rows, and two rows have
\* not as many.
LEMMA RankedRows ==
    ASSUME NEW S, RowsOK(S)
    PROVE  \A p \in S : LET rank(x) == Cardinality({q \in S : Above(q, x)})
                        IN  /\ rank(p) \in Nat /\ rank(p) < Cardinality(S)
                            /\ \A r \in S : Above(r, p) => rank(r) < rank(p)
<1> DEFINE up(x) == {q \in S : Above(q, x)}
           rank(x) == Cardinality(up(x))
<1>1. IsFiniteSet(S) /\ Cardinality(S) \in Nat
    BY FS_CardinalityType DEF RowsOK
<1>2. \A p, q, r \in S : /\ ~Above(p, p)
                         /\ Above(p, q) /\ Above(q, r) => Above(p, r)
  <2> SUFFICES ASSUME NEW p \in S, NEW q \in S, NEW r \in S
               PROVE  /\ ~Above(p, p)
                      /\ Above(p, q) /\ Above(q, r) => Above(p, r)
      OBVIOUS
  <2>1. /\ Later(r, q) /\ Later(q, p) => Later(r, p)
        /\ ~ Later(p, p)
      BY LaterOrders
  <2> QED
      BY <2>1 DEF Above
<1>3. \A p \in S : IsFiniteSet(up(p)) /\ rank(p) \in Nat
    BY <1>1, FS_Subset, FS_CardinalityType
<1>4. ASSUME NEW p \in S PROVE rank(p) < Cardinality(S)
  <2>1. up(p) \in SUBSET S /\ up(p) # S
      BY <1>2
  <2> HIDE DEF up
  <2> QED
      BY <1>1, <1>3, <2>1, FS_Subset
<1>5. ASSUME NEW p \in S, NEW r \in S, Above(r, p) PROVE rank(r) < rank(p)
  <2>1. up(r) \in SUBSET up(p) /\ up(r) # up(p)
      BY <1>2, <1>5
  <2>2. IsFiniteSet(up(p)) /\ rank(p) \in Nat /\ rank(r) \in Nat
      BY <1>3
  <2> HIDE DEF up
  <2> QED
      BY <2>1, <2>2, FS_Subset
<1> QED
    BY <1>3, <1>4, <1>5

\* The rows of a form get the identifiers that come next, and nothing else changes.
LEMMA InsertedOK ==
    ASSUME NEW hist, RowsOK(hist), nextId \in Nat \ {0}
    PROVE  /\ RowsOK(Inserted(hist))
           /\ \A w \in Inserted(hist) : w.id >= nextId /\ w.id < nextId + Cardinality(hist)
           /\ Cardinality(hist) \in Nat
           /\ Ordered(hist) => Ordered(Inserted(hist))
           /\ Disjoint(hist) => Disjoint(Inserted(hist))
<1> DEFINE rank(x) == Cardinality({q \in hist : Above(q, x)})
           ins(p) == [p EXCEPT !.id = nextId + rank(p)]
<1>1. Inserted(hist) = {ins(p) : p \in hist}
    BY DEF Inserted
<1>2. \A p \in hist : rank(p) \in Nat /\ rank(p) < Cardinality(hist)
                      /\ \A r \in hist : Above(r, p) => rank(r) < rank(p)
    BY RankedRows
<1>3. IsFiniteSet(hist) /\ Cardinality(hist) \in Nat /\ \A p \in hist : PriceOK(p)
    BY FS_CardinalityType DEF RowsOK
<1>4. ASSUME NEW p \in hist, NEW q \in hist, rank(p) = rank(q) PROVE p = q
  <2>1. p # q => Later(p, q) \/ Later(q, p)
      BY LaterOrders
  <2>2. p.id = q.id => p = q
      BY DEF RowsOK
  <2>3. p # q => Above(p, q) \/ Above(q, p)
      BY <1>3, <2>1, <2>2 DEF Above, PriceOK
  <2> HIDE DEF rank
  <2> QED
      BY <1>2, <1>4, <2>3
<1>5. ASSUME NEW p \in hist
      PROVE  /\ PriceOK(ins(p)) /\ ins(p).id = nextId + rank(p)
             /\ ins(p).vat = p.vat /\ ins(p).from = p.from /\ ins(p).to = p.to
  <2>1. nextId + rank(p) \in Nat
    <3> HIDE DEF rank
    <3> QED
        BY <1>2
  <2>2. PICK w : w = ins(p)
      OBVIOUS
  <2>3. w = [p EXCEPT !.id = nextId + rank(p)] /\ PriceOK(p)
      BY <1>3, <2>2
  <2>4. PriceOK(w) /\ w.id = nextId + rank(p) /\ w.vat = p.vat /\ w.from = p.from /\ w.to = p.to
    <3> HIDE DEF rank, ins
    <3> QED
        BY <2>1, <2>3 DEF PriceOK
  <2> QED
      BY <2>2, <2>4
<1>6. IsFiniteSet(Inserted(hist))
  <2> DEFINE f == [p \in hist |-> ins(p)]
  <2> HIDE DEF ins
  <2>1. f \in Surjection(hist, Inserted(hist))
      BY <1>1 DEF Surjection
  <2> QED
      BY <1>3, <2>1, FS_Surjection
<1> HIDE DEF ins, rank
<1>7. \A w \in Inserted(hist) : w.id >= nextId /\ w.id < nextId + Cardinality(hist) /\ PriceOK(w)
    BY <1>1, <1>2, <1>3, <1>5
<1>8. \A v, w \in Inserted(hist) : v.id = w.id => v = w
  <2> SUFFICES ASSUME NEW p \in hist, NEW q \in hist, ins(p).id = ins(q).id
               PROVE  p = q
      BY <1>1
  <2>1. rank(p) = rank(q)
      BY <1>2, <1>5
  <2> QED
      BY <1>4, <2>1
<1>9. RowsOK(Inserted(hist))
    BY <1>6, <1>7, <1>8 DEF RowsOK
<1>10. Ordered(hist) => Ordered(Inserted(hist))
    BY <1>1, <1>5 DEF Ordered
<1>11. Disjoint(hist) => Disjoint(Inserted(hist))
    BY <1>1, <1>5 DEF Disjoint, Overlap
<1> QED
    BY <1>3, <1>7, <1>9, <1>10, <1>11

\* What may be typed is rows of prices again.
LEMMA TypedOK ==
    ASSUME NEW shown, RowsOK(shown), \A p \in shown : p.id # 0, NEW hist \in Typed(shown)
    PROVE  RowsOK(hist)
<1>1. IsFiniteSet(shown) /\ \A p \in shown : PriceOK(p)
    BY DEF RowsOK
<1>2. CASE \E p \in shown : hist = shown \ {p}
    BY <1>2, FewerRows
<1>3. ASSUME NEW p \in shown, NEW v \in Prices, hist = (shown \ {p}) \cup {[p EXCEPT !.price = v]}
      PROVE  RowsOK(hist)
  <2>1. PICK w : w = [p EXCEPT !.price = v]
      OBVIOUS
  <2>2. PriceOK(w) /\ w.id = p.id
      BY <1>1, <2>1 DEF PriceOK
  <2>3. hist = (shown \ {p}) \cup {w}
      BY <1>3, <2>1
  <2>4. IsFiniteSet(shown \ {p})
      BY <1>1, FS_Subset
  <2>5. IsFiniteSet(hist)
      BY <2>3, <2>4, FS_AddElement
  <2> QED
      BY <2>2, <2>3, <2>5 DEF RowsOK
<1>4. ASSUME NEW r \in rates, NEW d \in Days, NEW to \in Days \cup {Open}, NEW v \in Prices,
             hist = shown \cup {PriceRow(0, r, d, to, v)}
      PROVE  RowsOK(hist)
  <2>1. PICK w : w = PriceRow(0, r, d, to, v)
      OBVIOUS
  <2>2. MaxDay \in Nat
      BY CatalogueAssumption
  <2>3. PriceOK(w) /\ w.id = 0
      BY <2>1, <2>2 DEF PriceOK, PriceRow, Days, Open
  <2>4. hist = shown \cup {w}
      BY <1>4, <2>1
  <2>5. IsFiniteSet(hist)
      BY <1>1, <2>4, FS_AddElement
  <2> QED
      BY <2>3, <2>4, <2>5 DEF RowsOK
<1>5. CASE hist = shown
    BY <1>5
<1> QED
    BY <1>2, <1>3, <1>4, <1>5 DEF Typed

-----------------------------------------------------------------------------
(* The steps of the catalogue.                                             *)

\* The empty function has no argument.
LEMMA EmptyFunction == DOMAIN << >> = {} /\ Len(<< >>) = 0 /\ \A S : << >> \in Seq(S)
OBVIOUS

\* The catalogue begins well.
LEMMA CatalogueInitInv == CatalogueInit => CatalogueInv
<1> SUFFICES ASSUME CatalogueInit PROVE CatalogueInv
    OBVIOUS
<1> USE DEF CatalogueInit
<1>1. RowsOK({}) /\ Apart({})
    BY FS_EmptySet DEF RowsOK, Apart, Ordered, Disjoint
<1>2. \A e \in Products : catalogue[e] = NoProduct /\ catalogue[e].prices = {}
    BY DEF NoProduct
<1>3. ProductsOK
  <2>1. today \in Days /\ nextId \in Nat \ {0}
      BY CatalogueAssumption DEF Days
  <2>2. ProductOK(NoProduct, nextId)
      BY <1>1 DEF ProductOK, NoProduct
  <2> QED
      BY <1>2, <2>1, <2>2 DEF ProductsOK, InCatalogue
<1>4. SuppliersOK
    BY DEF SuppliersOK, NoSupplier
<1>5. ScreensOK
  <2>1. ScreenOK(NoScreen)
      BY DEF ScreenOK, NoScreen
  <2> QED
      BY <2>1 DEF ScreensOK
<1>6. ImportOK
    BY EmptyFunction DEF ImportOK, NoImport
<1>7. CalmOK
  <2>1. DOMAIN import.work = {} /\ Len(import.marks) = 0 /\ import.at = "idle"
      BY EmptyFunction DEF NoImport
  <2>2. \A t \in Clerks : screens[t].at = "closed"
      BY DEF NoScreen
  <2>3. \A e \in Products : Apart(catalogue[e].prices)
      BY <1>1, <1>2
  <2>4. CalmMarks
      BY <2>1 DEF CalmMarks
  <2> QED
      BY <2>1, <2>2, <2>3, <2>4 DEF CalmOK
<1> QED
    BY <1>3, <1>4, <1>5, <1>6, <1>7 DEF CatalogueInv

\* What changes neither products nor screens nor the import.
LEMMA AsideInv ==
    ASSUME CatalogueInv, UNCHANGED <<catalogue, import, imports, screens, nextId, calm>>,
           today' \in Days, SuppliersOK'
    PROVE  CatalogueInv'
<1>1. ProductsOK'
    BY DEF CatalogueInv, ProductsOK, InCatalogue
<1>2. ScreensOK'
    BY DEF CatalogueInv, ScreensOK, ScreenOK
<1>3. ImportOK'
    BY DEF CatalogueInv, ImportOK, WorkOK, SameRow
<1>4. CalmOK'
    BY DEF CatalogueInv, CalmOK, CalmWork, CalmMarks, InCatalogue
<1> QED
    BY <1>1, <1>2, <1>3, <1>4 DEF CatalogueInv

\* The calendar, the rates and the referential.
LEMMA DaysInv ==
    ASSUME CatalogueInv, UNCHANGED calm,
           NextDay \/ (\E r \in Rates : CloseRate(r)) \/ \E e \in Products : AddToDilicom(e)
    PROVE  CatalogueInv'
<1>1. SuppliersOK'
    BY DEF CatalogueInv, SuppliersOK, NextDay, CloseRate, AddToDilicom
<1>2. today' \in Days
    BY CatalogueAssumption DEF CatalogueInv, ProductsOK, NextDay, CloseRate, AddToDilicom, Days
<1>3. UNCHANGED <<catalogue, import, imports, screens, nextId, calm>>
    BY DEF NextDay, CloseRate, AddToDilicom
<1> QED
    BY <1>1, <1>2, <1>3, AsideInv

\* The screens of the suppliers.
LEMMA SuppliersInv ==
    ASSUME CatalogueInv, UNCHANGED calm, NEW g \in Glns,
           CreateSupplier(g) \/ EditSupplier(g) \/ ToggleSupplier(g)
    PROVE  CatalogueInv'
<1>1. SuppliersOK
    BY DEF CatalogueInv
<1>2. SuppliersOK'
  <2>1. CASE CreateSupplier(g)
      BY <1>1, <2>1 DEF SuppliersOK, CreateSupplier, NoSupplier
  <2>2. CASE EditSupplier(g)
      BY <1>1, <2>2 DEF SuppliersOK, EditSupplier
  <2>3. CASE ToggleSupplier(g)
      BY <1>1, <2>3 DEF SuppliersOK, ToggleSupplier
  <2> QED
      BY <2>1, <2>2, <2>3
<1>3. today' \in Days
    BY DEF CatalogueInv, ProductsOK, CreateSupplier, EditSupplier, ToggleSupplier
<1>4. UNCHANGED <<catalogue, import, imports, screens, nextId, calm>>
    BY DEF CreateSupplier, EditSupplier, ToggleSupplier
<1> QED
    BY <1>2, <1>3, <1>4, AsideInv

\* A screen writes the product e: rows it keeps, rows with new identifiers.
LEMMA ProductWritten ==
    ASSUME CatalogueInv, UNCHANGED <<today, suppliers, import, imports, calm>>, MayAct,
           NEW e \in Products, NEW x, catalogue' = [catalogue EXCEPT ![e] = x],
           nextId' \in Nat, nextId <= nextId', ProductOK(x, nextId'), x.prices # {},
           \A p \in x.prices : p \in catalogue[e].prices \/ p.id >= nextId,
           calm => Apart(x.prices),
           ScreensOK',
           calm => \A t, u \in Clerks : screens'[t].at = "loaded" /\ screens'[u].at = "loaded" => t = u
    PROVE  CatalogueInv'
<1>1. ProductsOK /\ ImportOK /\ CalmOK
    BY DEF CatalogueInv
<1>2. catalogue'[e] = x /\ DOMAIN catalogue' = Products /\ \A d \in Products : d # e => catalogue'[d] = catalogue[d]
    BY <1>1 DEF ProductsOK
<1>3. \A r : ProductOK(r, nextId) => ProductOK(r, nextId')
  <2> SUFFICES ASSUME NEW r, ProductOK(r, nextId) PROVE ProductOK(r, nextId')
      OBVIOUS
  <2>1. \A p \in r.prices : p.id \in Nat
      BY DEF ProductOK, RowsOK, PriceOK
  <2>2. nextId \in Nat
      BY <1>1 DEF ProductsOK
  <2> QED
      BY <2>1, <2>2 DEF ProductOK
<1>4. ProductsOK'
  <2>1. \A d \in Products : ProductOK(catalogue'[d], nextId')
      BY <1>1, <1>2, <1>3 DEF ProductsOK
  <2>2. \A d \in Products : catalogue'[d] # NoProduct => catalogue'[d].prices # {}
      BY <1>1, <1>2 DEF ProductsOK, InCatalogue
  <2>3. today' \in Days /\ nextId' \in Nat \ {0}
      BY <1>1 DEF ProductsOK
  <2> QED
      BY <1>2, <2>1, <2>2, <2>3 DEF ProductsOK, InCatalogue
<1>5. SuppliersOK'
    BY DEF CatalogueInv, SuppliersOK
<1>6. ImportOK'
  <2>1. ASSUME NEW d \in DOMAIN import.work PROVE d \in Products /\ WorkOK(d)'
    <3>1. d \in Products /\ WorkOK(d)
        BY <1>1, <2>1 DEF ImportOK
    <3> DEFINE w == import.work[d]
    <3>2. DOMAIN w = {"old", "new"} /\ ProductOK(w.old, nextId') /\ ProductOK(w.new, nextId')
        BY <1>3, <3>1 DEF WorkOK
    <3>3. \A v \in w.new.prices : v.id < nextId /\ v.id \in Nat
        BY <3>1 DEF WorkOK, ProductOK, RowsOK, PriceOK
    <3>4. ASSUME NEW v \in w.new.prices, NEW p \in catalogue'[d].prices, v.id = p.id
          PROVE  SameRow(d, v, p)
      <4>1. nextId \in Nat
          BY <1>1 DEF ProductsOK
      <4>2. p \in catalogue[d].prices
          BY <1>2, <3>3, <3>4, <4>1
      <4> QED
          BY <3>1, <3>4, <4>2 DEF WorkOK
    <3>5. catalogue'[d].prices # {}
        BY <1>2, <3>1 DEF WorkOK
    <3> QED
        BY <3>1, <3>2, <3>4, <3>5 DEF WorkOK, SameRow
  <2> QED
      BY <1>1, <2>1 DEF ImportOK
<1>7. CalmOK'
  <2> SUFFICES ASSUME calm PROVE CalmOK'
      BY DEF CalmOK
  <2>1. import.at = "idle" /\ DOMAIN import.work = {} /\ Len(import.marks) = 0
      BY <1>1 DEF MayAct, ImportOK, CalmOK, CalmMarks
  <2>2. \A d \in Products : Apart(catalogue'[d].prices)
      BY <1>1, <1>2 DEF CalmOK
  <2>3. CalmMarks'
      BY <2>1 DEF CalmMarks
  <2> QED
      BY <2>1, <2>2, <2>3 DEF CalmOK
<1> QED
    BY <1>4, <1>5, <1>6, <1>7 DEF CatalogueInv

\* A product that nobody had is written with its first row.
LEMMA CreateProductInv ==
    ASSUME CatalogueInv, UNCHANGED calm, NEW e \in Products, CreateProduct(e)
    PROVE  CatalogueInv'
<1>1. ProductsOK /\ ScreensOK /\ CalmOK
    BY DEF CatalogueInv
<1>2. nextId \in Nat \ {0} /\ nextId' = nextId + 1 /\ MayAct /\ catalogue[e] = NoProduct
    BY <1>1 DEF CreateProduct, ProductsOK, InCatalogue
<1>3. PICK hist \in Typed({}) :
         /\ Accepted(hist)
         /\ catalogue' = [catalogue EXCEPT ![e] =
                [text |-> 0, active |-> TRUE, prices |-> Inserted(hist)]]
    BY DEF CreateProduct
<1>4. PICK x : x = [text |-> 0, active |-> TRUE, prices |-> Inserted(hist)]
    OBVIOUS
<1>5. hist # {} /\ Ordered(hist) /\ (calm => Disjoint(hist))
    BY <1>3 DEF Accepted, Ordered
<1>6. \E p : hist = {p}
    BY <1>3, <1>5 DEF Typed
<1>7. RowsOK(hist)
    BY <1>3, TypedOK, FS_EmptySet DEF RowsOK
<1>8. Cardinality(hist) = 1
    BY <1>6, FS_Singleton
<1>9. /\ RowsOK(Inserted(hist))
      /\ \A w \in Inserted(hist) : w.id >= nextId /\ w.id < nextId + 1
      /\ calm => Apart(Inserted(hist))
    BY <1>2, <1>5, <1>7, <1>8, InsertedOK DEF Apart
<1>10. Inserted(hist) # {}
    BY <1>5 DEF Inserted
<1>11. \A w \in Inserted(hist) : w.id # 0 /\ w.id < nextId'
  <2>1. \A w \in Inserted(hist) : w.id \in Nat
      BY <1>9 DEF RowsOK, PriceOK
  <2> QED
      BY <1>2, <1>9, <2>1
<1>12. ProductOK(x, nextId') /\ x.prices = Inserted(hist)
    BY <1>4, <1>9, <1>11 DEF ProductOK
<1>13. catalogue' = [catalogue EXCEPT ![e] = x]
    BY <1>3, <1>4
<1>14. UNCHANGED <<today, suppliers, import, imports, screens>>
    BY DEF CreateProduct
<1>15. ScreensOK'
  <2>1. \A t \in Clerks : screens[t].at # "closed" => screens[t].ean # e
      BY <1>1, <1>2 DEF ScreensOK, ScreenOK, NoProduct
  <2>2. \A d \in Products : d # e => catalogue'[d] = catalogue[d]
      BY <1>1, <1>13 DEF ProductsOK
  <2> QED
      BY <1>1, <1>14, <2>1, <2>2 DEF ScreensOK, ScreenOK
<1>16. calm => \A t, u \in Clerks : screens'[t].at = "loaded" /\ screens'[u].at = "loaded" => t = u
    BY <1>1, <1>14 DEF CalmOK
<1>17. nextId' \in Nat /\ nextId <= nextId'
    BY <1>2
<1> QED
    BY <1>2, <1>9, <1>10, <1>12, <1>13, <1>14, <1>15, <1>16, <1>17, ProductWritten

\* The switch of a product leaves its prices.
LEMMA ToggleProductInv ==
    ASSUME CatalogueInv, UNCHANGED calm, NEW e \in Products, ToggleProduct(e)
    PROVE  CatalogueInv'
<1>1. ProductsOK /\ ScreensOK /\ CalmOK
    BY DEF CatalogueInv
<1>2. PICK x : x = [catalogue[e] EXCEPT !.active = ~@]
    OBVIOUS
<1>3. catalogue' = [catalogue EXCEPT ![e] = x] /\ MayAct /\ InCatalogue(e)
      /\ UNCHANGED <<today, suppliers, import, imports, screens, nextId>>
    BY <1>2 DEF ToggleProduct
<1>4. ProductOK(catalogue[e], nextId) /\ catalogue[e].prices # {} /\ nextId \in Nat
    BY <1>1, <1>3 DEF ProductsOK
<1>5. x.prices = catalogue[e].prices /\ ProductOK(x, nextId)
    BY <1>2, <1>4 DEF ProductOK
<1>6. \A d \in Products : catalogue'[d].prices = catalogue[d].prices
    BY <1>1, <1>3, <1>5 DEF ProductsOK
<1>7. ScreensOK'
    BY <1>1, <1>3, <1>6 DEF ScreensOK, ScreenOK
<1>8. calm => Apart(x.prices)
    BY <1>1, <1>5 DEF CalmOK
<1>9. calm => \A t, u \in Clerks : screens'[t].at = "loaded" /\ screens'[u].at = "loaded" => t = u
    BY <1>1, <1>3 DEF CalmOK
<1> QED
  <2>1. nextId' \in Nat /\ nextId <= nextId' /\ ProductOK(x, nextId') /\ x.prices # {}
      BY <1>3, <1>4, <1>5
  <2>2. \A p \in x.prices : p \in catalogue[e].prices \/ p.id >= nextId
      BY <1>5
  <2> QED
      BY <1>3, <1>7, <1>8, <1>9, <2>1, <2>2, ProductWritten

\* A screen that opens or loads a product writes nothing.
LEMMA ScreenMoved ==
    ASSUME CatalogueInv, UNCHANGED <<today, suppliers, catalogue, import, imports, calm, nextId>>, MayAct,
           NEW t \in Clerks, NEW s, screens' = [screens EXCEPT ![t] = s], ScreenOK(s),
           calm /\ s.at = "loaded" => \A u \in Clerks : screens[u].at # "loaded"
    PROVE  CatalogueInv'
<1>1. ProductsOK /\ ScreensOK /\ ImportOK /\ CalmOK
    BY DEF CatalogueInv
<1>2. ProductsOK' /\ SuppliersOK' /\ ImportOK'
    BY DEF CatalogueInv, ProductsOK, InCatalogue, SuppliersOK, ImportOK, WorkOK, SameRow
<1>3. \A u \in Clerks : screens'[u] = IF u = t THEN s ELSE screens[u]
    BY <1>1 DEF ScreensOK
<1>4. ScreensOK'
  <2>1. \A u \in Clerks : ScreenOK(screens'[u])
      BY <1>1, <1>3 DEF ScreensOK
  <2>2. DOMAIN screens' = Clerks
      BY <1>1 DEF ScreensOK
  <2> QED
      BY <2>1, <2>2 DEF ScreensOK, ScreenOK
<1>5. CalmOK'
  <2> SUFFICES ASSUME calm PROVE CalmOK'
      BY DEF CalmOK
  <2>1. import.at = "idle" /\ DOMAIN import.work = {}
      BY <1>1 DEF MayAct, ImportOK
  <2>2. \A u, v \in Clerks : screens'[u].at = "loaded" /\ screens'[v].at = "loaded" => u = v
      BY <1>1, <1>3 DEF CalmOK
  <2>3. CalmMarks'
      BY <1>1 DEF CalmMarks, CalmOK
  <2>4. \A e \in Products : Apart(catalogue'[e].prices)
      BY <1>1 DEF CalmOK
  <2> QED
      BY <2>1, <2>2, <2>3, <2>4 DEF CalmOK
<1> QED
    BY <1>2, <1>4, <1>5 DEF CatalogueInv

\* A screen shows a product.
LEMMA OpenScreenInv ==
    ASSUME CatalogueInv, UNCHANGED calm, NEW t \in Clerks, NEW e \in Products, OpenScreen(t, e)
    PROVE  CatalogueInv'
<1>1. ProductOK(catalogue[e], nextId) /\ catalogue[e].prices # {}
    BY DEF CatalogueInv, ProductsOK, OpenScreen
<1>2. PICK s : s = [NoScreen EXCEPT !.at = "open", !.ean = e, !.shown = catalogue[e]]
    OBVIOUS
<1>3. DOMAIN s = {"at", "ean", "shown", "loaded"} /\ s.at = "open" /\ s.ean = e /\ s.shown = catalogue[e]
    BY <1>2 DEF NoScreen
<1>4. ScreenOK(s)
    BY <1>1, <1>3 DEF ScreenOK, ProductOK
<1>5. screens' = [screens EXCEPT ![t] = s] /\ MayAct
      /\ UNCHANGED <<today, suppliers, catalogue, import, imports, nextId>>
    BY <1>2 DEF OpenScreen
<1> QED
    BY <1>3, <1>4, <1>5, ScreenMoved

\* A screen is sent, and its product is loaded.
LEMMA LoadProductInv ==
    ASSUME CatalogueInv, UNCHANGED calm, NEW t \in Clerks, LoadProduct(t)
    PROVE  CatalogueInv'
<1>1. ScreenOK(screens[t]) /\ screens[t].at = "open" /\ MayAct
    BY DEF CatalogueInv, ScreensOK, LoadProduct
<1>2. PICK hist \in Typed(screens[t].shown.prices) :
         /\ Accepted(hist)
         /\ screens' = [screens EXCEPT ![t] =
                [@ EXCEPT !.at = "loaded", !.shown.prices = hist,
                          !.loaded = catalogue[screens[t].ean]]]
    BY DEF LoadProduct
<1>3. PICK s : s = [screens[t] EXCEPT !.at = "loaded", !.shown.prices = hist,
                                      !.loaded = catalogue[screens[t].ean]]
    OBVIOUS
<1>4. DOMAIN screens[t] = {"at", "ean", "shown", "loaded"} /\ DOMAIN screens[t].shown = {"text", "active", "prices"}
    BY <1>1 DEF ScreenOK
<1>5. /\ DOMAIN s = {"at", "ean", "shown", "loaded"}
      /\ s.at = "loaded" /\ s.ean = screens[t].ean /\ s.loaded = catalogue[screens[t].ean]
      /\ DOMAIN s.shown = {"text", "active", "prices"} /\ s.shown.prices = hist
    BY <1>3, <1>4
<1>6. RowsOK(hist)
    BY <1>1, <1>2, TypedOK DEF ScreenOK
<1>7. hist # {} /\ (calm => Apart(hist))
    BY <1>2 DEF Accepted, Apart, Ordered
<1>8. ScreenOK(s)
    BY <1>1, <1>5, <1>6, <1>7 DEF ScreenOK
<1>9. screens' = [screens EXCEPT ![t] = s]
    BY <1>2, <1>3
<1>10. /\ UNCHANGED <<today, suppliers, catalogue, import, imports, nextId>>
       /\ calm => \A u \in Clerks : screens[u].at # "loaded"
    BY DEF LoadProduct
<1> QED
    BY <1>1, <1>8, <1>9, <1>10, ScreenMoved

\* A product is saved: in a calm behaviour the rows of the form take the place of all.
LEMMA SaveProductInv ==
    ASSUME CatalogueInv, UNCHANGED calm, NEW t \in Clerks, SaveProduct(t)
    PROVE  CatalogueInv'
<1>1. ProductsOK /\ ScreensOK /\ CalmOK
    BY DEF CatalogueInv
<1> DEFINE s == screens[t]
           e == s.ean
           gone == {p.id : p \in s.loaded.prices}
           rest == {p \in catalogue[e].prices : p.id \notin gone}
           ins == Inserted(s.shown.prices)
<1>2. ScreenOK(s) /\ s.at = "loaded" /\ MayAct /\ e \in Products
    BY <1>1 DEF SaveProduct, ScreensOK, ScreenOK
<1>3. nextId \in Nat \ {0} /\ nextId' = nextId + Cardinality(s.shown.prices)
    BY <1>1 DEF SaveProduct, ProductsOK
<1>4. /\ RowsOK(ins) /\ \A w \in ins : w.id >= nextId /\ w.id < nextId'
      /\ Cardinality(s.shown.prices) \in Nat
      /\ calm => Apart(ins)
    BY <1>2, <1>3, InsertedOK DEF ScreenOK, Apart
<1>5. ins # {}
  <2>1. s.shown.prices # {}
      BY <1>2 DEF ScreenOK
  <2> HIDE DEF s
  <2> QED
      BY <2>1 DEF Inserted
<1>6. nextId' \in Nat /\ nextId <= nextId'
    BY <1>3, <1>4
<1>7. ProductOK(catalogue[e], nextId)
    BY <1>1, <1>2 DEF ProductsOK
<1>8. RowsOK(rest) /\ \A p \in rest : p.id # 0 /\ p.id < nextId /\ p.id \in Nat
    BY <1>7, FewerRows DEF ProductOK, RowsOK, PriceOK
<1>9. RowsOK(rest \cup ins) /\ \A p \in rest \cup ins : p.id # 0 /\ p.id < nextId'
  <2> HIDE DEF rest, ins
  <2>1. IsFiniteSet(rest \cup ins)
      BY <1>4, <1>8, FS_Union DEF RowsOK
  <2>2. \A p \in ins : p.id \in Nat
      BY <1>4 DEF RowsOK, PriceOK
  <2> QED
      BY <1>3, <1>4, <1>6, <1>8, <2>1, <2>2 DEF RowsOK
<1>10. PICK x : x = [catalogue[e] EXCEPT !.text = IF s.shown.text = s.loaded.text THEN catalogue[e].text ELSE s.shown.text,
                                         !.prices = rest \cup ins]
    OBVIOUS
<1>11. catalogue' = [catalogue EXCEPT ![e] = x] /\ screens' = [screens EXCEPT ![t] = NoScreen]
       /\ UNCHANGED <<today, suppliers, import, imports>>
  <2>1. catalogue' = [catalogue EXCEPT
                ![e].text = IF s.shown.text = s.loaded.text THEN @ ELSE s.shown.text,
                ![e].prices = {p \in @ : p.id \notin gone} \cup Inserted(s.shown.prices)]
      BY DEF SaveProduct
  <2>2. screens' = [screens EXCEPT ![t] = NoScreen] /\ UNCHANGED <<today, suppliers, import, imports>>
      BY DEF SaveProduct
  <2>3. e \in DOMAIN catalogue /\ DOMAIN catalogue[e] = {"text", "active", "prices"}
      BY <1>1, <1>2, <1>7 DEF ProductsOK, ProductOK
  <2>4. catalogue' = [catalogue EXCEPT ![e] = x]
    <3> HIDE DEF s, e, gone
    <3> QED
        BY <1>10, <2>1, <2>3
  <2> QED
      BY <2>2, <2>4
<1>12. DOMAIN x = {"text", "active", "prices"} /\ x.prices = rest \cup ins
    BY <1>7, <1>10 DEF ProductOK
<1>13. ProductOK(x, nextId') /\ x.prices # {} /\ \A p \in x.prices : p \in catalogue[e].prices \/ p.id >= nextId
    BY <1>4, <1>5, <1>9, <1>12 DEF ProductOK
<1>14. calm => Apart(x.prices)
  <2> SUFFICES ASSUME calm PROVE Apart(x.prices)
      OBVIOUS
  <2>1. s.loaded.prices = catalogue[e].prices
      BY <1>2 DEF ScreenOK
  <2>2. rest = {}
      BY <2>1
  <2> HIDE DEF rest, ins
  <2> QED
      BY <1>4, <1>12, <2>2
<1>15. \A u \in Clerks : screens'[u] = IF u = t THEN NoScreen ELSE screens[u]
    BY <1>1, <1>11 DEF ScreensOK
<1>16. \A d \in Products : catalogue'[d] = IF d = e THEN x ELSE catalogue[d]
    BY <1>1, <1>11 DEF ProductsOK
<1> HIDE DEF s, e
<1>17. ScreensOK'
  <2>1. DOMAIN screens' = Clerks
      BY <1>1, <1>11 DEF ScreensOK
  <2>2. ASSUME NEW u \in Clerks PROVE ScreenOK(screens[u])' 
    <3>1. CASE u = t
      <4>1. screens'[u].at = "closed" /\ DOMAIN screens'[u] = {"at", "ean", "shown", "loaded"}
        <5>1. screens'[u] = NoScreen
            BY <1>15, <3>1
        <5>2. NoScreen.at = "closed" /\ DOMAIN NoScreen = {"at", "ean", "shown", "loaded"}
            BY DEF NoScreen
        <5> QED
            BY <5>1, <5>2
      <4> QED
          BY <4>1 DEF ScreenOK
    <3>2. CASE u # t
      <4>1. screens'[u] = screens[u] /\ ScreenOK(screens[u])
          BY <1>1, <1>15, <3>2 DEF ScreensOK
      <4>2. calm => screens[u].at # "loaded"
          BY <1>1, <1>2, <3>2 DEF CalmOK, s
      <4>3. screens[u].at # "closed" => catalogue'[screens[u].ean].prices # {}
          BY <1>13, <1>16, <4>1 DEF ScreenOK
      <4> QED
          BY <4>1, <4>2, <4>3 DEF ScreenOK
    <3> QED
        BY <3>1, <3>2
  <2> QED
      BY <2>1, <2>2 DEF ScreensOK
<1>18. calm => \A u, v \in Clerks : screens'[u].at = "loaded" /\ screens'[v].at = "loaded" => u = v
  <2> SUFFICES ASSUME calm, NEW u \in Clerks, NEW v \in Clerks,
                      screens'[u].at = "loaded", screens'[v].at = "loaded"
               PROVE  u = v
      OBVIOUS
  <2>1. NoScreen.at # "loaded"
      BY DEF NoScreen
  <2>2. screens[u].at = "loaded" /\ screens[v].at = "loaded"
      BY <1>15, <2>1
  <2> QED
      BY <1>1, <2>2 DEF CalmOK
<1> QED
    BY <1>2, <1>6, <1>11, <1>13, <1>14, <1>17, <1>18, ProductWritten

\* More identifiers may be given.
LEMMA MoreIdentifiers ==
    ASSUME NEW n \in Nat, NEW k \in Nat, n <= k, NEW x, ProductOK(x, n)
    PROVE  ProductOK(x, k)
<1>1. \A p \in x.prices : p.id \in Nat
    BY DEF ProductOK, RowsOK, PriceOK
<1> QED
    BY <1>1 DEF ProductOK

\* The import goes on and commits nothing.
LEMMA ImportMoved ==
    ASSUME CatalogueInv, UNCHANGED <<today, catalogue, screens, calm>>, SuppliersOK',
           nextId' \in Nat, nextId <= nextId', ImportOK',
           calm => /\ import'.at # "idle" => \A t \in Clerks : screens[t].at # "loaded"
                   /\ \A e \in DOMAIN import'.work : CalmWork(e)'
                   /\ import'.at = "refused" => \A e \in import'.unknown : ~InCatalogue(e)
                   /\ CalmMarks'
    PROVE  CatalogueInv'
<1>1. ProductsOK /\ ScreensOK /\ CalmOK
    BY DEF CatalogueInv
<1>2. ProductsOK'
  <2>1. nextId \in Nat /\ nextId' \in Nat \ {0}
      BY <1>1 DEF ProductsOK
  <2>2. \A e \in Products : ProductOK(catalogue[e], nextId')
      BY <1>1, <2>1, MoreIdentifiers DEF ProductsOK
  <2> QED
      BY <1>1, <2>1, <2>2 DEF ProductsOK, InCatalogue
<1>3. ScreensOK'
    BY <1>1 DEF ScreensOK, ScreenOK
<1>4. CalmOK'
  <2> SUFFICES ASSUME calm PROVE CalmOK'
      BY DEF CalmOK
  <2>1. \A e \in Products : Apart(catalogue'[e].prices)
      BY <1>1 DEF CalmOK
  <2>2. \A t, u \in Clerks : screens'[t].at = "loaded" /\ screens'[u].at = "loaded" => t = u
      BY <1>1 DEF CalmOK
  <2>3. import'.at = "refused" => \A e \in import'.unknown : ~InCatalogue(e)'
      BY DEF InCatalogue
  <2> QED
      BY <2>1, <2>2, <2>3 DEF CalmOK
<1> QED
    BY <1>2, <1>3, <1>4 DEF CatalogueInv

\* Before the notices and after the commit the session has written nothing.
LEMMA NothingWritten ==
    ASSUME CatalogueInv, UNCHANGED <<today, catalogue, screens, nextId, calm>>, SuppliersOK',
           DOMAIN import' = {"at", "lines", "record", "added", "want", "read", "work", "told", "marks", "unknown"},
           DOMAIN import'.lines \subseteq Glns, DOMAIN import'.work = {},
           import'.marks \in Seq(Products), import'.at # "refused",
           calm => import'.marks = << >>,
           calm => (import'.at # "idle" => \A t \in Clerks : screens[t].at # "loaded")
    PROVE  CatalogueInv'
<1>1. nextId \in Nat
    BY DEF CatalogueInv, ProductsOK
<1>2. ImportOK'
    BY EmptyFunction DEF ImportOK
<1>3. calm => CalmMarks'
    BY EmptyFunction DEF CalmMarks
<1> QED
    BY <1>1, <1>2, <1>3, ImportMoved

\* What NoImport is.
LEMMA NoImportIs ==
    /\ DOMAIN NoImport = {"at", "lines", "record", "added", "want", "read", "work", "told", "marks", "unknown"}
    /\ NoImport.at = "idle" /\ DOMAIN NoImport.lines = {} /\ DOMAIN NoImport.work = {}
    /\ NoImport.marks = << >>
BY EmptyFunction DEF NoImport

\* An import ends, or the process dies.
LEMMA ImportGone ==
    ASSUME CatalogueInv, UNCHANGED <<today, catalogue, suppliers, screens, nextId, calm>>, import' = NoImport
    PROVE  CatalogueInv'
<1>1. SuppliersOK'
    BY DEF CatalogueInv, SuppliersOK
<1>2. NoImport.marks \in Seq(Products)
    BY NoImportIs, EmptyFunction
<1> QED
    BY <1>1, <1>2, NothingWritten, NoImportIs

\* The marks of an import that has not read its notices.
LEMMA NoMarks ==
    ASSUME CatalogueInv, calm, import.at \in {"distributors", "services"}
    PROVE  import.marks = << >> /\ DOMAIN import.work = {} /\ \A t \in Clerks : screens[t].at # "loaded"
<1>1. Len(import.marks) = 0 /\ import.marks \in Seq(Products)
    BY DEF CatalogueInv, CalmOK, CalmMarks, ImportOK
<1>2. import.marks = << >>
    BY <1>1, EmptySeq
<1> QED
    BY <1>2 DEF CatalogueInv, CalmOK, ImportOK

\* An import begins when none is running.
LEMMA BeginImportInv ==
    ASSUME CatalogueInv, UNCHANGED calm, BeginImport
    PROVE  CatalogueInv'
<1>1. SuppliersOK'
    BY DEF CatalogueInv, SuppliersOK, BeginImport
<1>2. import' = [NoImport EXCEPT !.at = "distributors", !.want = suppliers]
    BY DEF BeginImport
<1>3. /\ DOMAIN import' = {"at", "lines", "record", "added", "want", "read", "work", "told", "marks", "unknown"}
      /\ import'.at = "distributors" /\ DOMAIN import'.lines = {} /\ DOMAIN import'.work = {}
      /\ import'.marks = << >>
    BY <1>2, NoImportIs
<1>4. import'.marks \in Seq(Products)
    BY <1>3, EmptyFunction
<1>5. UNCHANGED <<today, catalogue, screens, nextId>> /\ (calm => \A t \in Clerks : screens[t].at # "loaded")
  <2> USE DEF BeginImport
  <2>1. UNCHANGED <<catalogue, screens, nextId>> /\ (calm => \A t \in Clerks : screens[t].at # "loaded")
      OBVIOUS
  <2>2. UNCHANGED today
      OBVIOUS
  <2> QED
      BY <2>1, <2>2
<1> QED
    BY <1>1, <1>3, <1>4, <1>5, NothingWritten

\* What the reading of a line changes.
LEMMA LineRead ==
    ASSUME NEW g, NEW mvt, ReadLine(g, mvt), DOMAIN import = DOMAIN NoImport
    PROVE  /\ DOMAIN import' = DOMAIN import /\ import'.work = import.work
           /\ import'.marks = import.marks /\ import'.at = import.at /\ import.at = "distributors"
           /\ DOMAIN import'.lines = DOMAIN import.lines \cup {g}
           /\ \A h \in DOMAIN import'.lines : import'.lines[h] = IF h = g THEN mvt ELSE import.lines[h]
           /\ import'.record = import.record \cup {g} /\ import'.added = import.added \ {g}
           /\ import'.want = [import.want EXCEPT ![g] = Asked(import.want[g], mvt)]
           /\ UNCHANGED <<suppliers, imports>> /\ (calm => g \notin import.record)
<1> DEFINE f == [h \in DOMAIN import.lines \cup {g} |-> IF h = g THEN mvt ELSE import.lines[h]]
           w == [import.want EXCEPT ![g] = Asked(import.want[g], mvt)]
<1>1. import' = [import EXCEPT !.lines = f, !.record = import.record \cup {g},
                       !.added = import.added \ {g}, !.read = import.read + 1, !.want = w]
    BY DEF ReadLine
<1>2. import.at = "distributors" /\ UNCHANGED <<suppliers, imports>> /\ (calm => g \notin import.record)
    BY DEF ReadLine
<1> HIDE DEF f, w
<1>3. /\ import'.lines = f /\ import'.want = w /\ import'.at = import.at /\ import'.work = import.work
      /\ import'.marks = import.marks /\ DOMAIN import' = DOMAIN import
      /\ import'.record = import.record \cup {g} /\ import'.added = import.added \ {g}
    BY <1>1, NoImportIs
<1>4. DOMAIN f = DOMAIN import.lines \cup {g} /\ \A h \in DOMAIN f : f[h] = IF h = g THEN mvt ELSE import.lines[h]
    BY DEF f
<1> QED
    BY <1>2, <1>3, <1>4 DEF w

\* A line of the distributors is read, their end is reached, or the services are passed.
LEMMA ReadingInv ==
    ASSUME CatalogueInv, UNCHANGED calm,
           \/ EndDistributors \/ UpdateServices
           \/ \E g \in Glns, mvt \in Movements : ReadLine(g, mvt)
    PROVE  CatalogueInv'
<1>1. ImportOK /\ import.at \in {"distributors", "services"}
      /\ UNCHANGED <<today, catalogue, suppliers, screens, nextId>>
    BY DEF CatalogueInv, EndDistributors, UpdateServices, ReadLine
<1>2. SuppliersOK'
    BY <1>1 DEF CatalogueInv, SuppliersOK
<1>3. /\ import.marks \in Seq(Products) /\ DOMAIN import.work = {}
      /\ DOMAIN import = DOMAIN NoImport /\ DOMAIN import.lines \subseteq Glns
    BY <1>1, NoImportIs DEF ImportOK
<1>4. \/ import' = NoImport
      \/ import' = [NoImport EXCEPT !.at = "services"]
      \/ /\ DOMAIN import' = DOMAIN import /\ import'.work = import.work /\ import'.marks = import.marks
         /\ import'.at \in {"distributors", "books"} /\ DOMAIN import'.lines \subseteq Glns
  <2>1. CASE EndDistributors \/ UpdateServices
      BY <1>3, <2>1, NoImportIs DEF EndDistributors, UpdateServices
  <2>2. ASSUME NEW g \in Glns, NEW mvt \in Movements, ReadLine(g, mvt)
        PROVE  /\ DOMAIN import' = DOMAIN import /\ import'.work = import.work /\ import'.marks = import.marks
               /\ import'.at \in {"distributors", "books"} /\ DOMAIN import'.lines \subseteq Glns
    <3>1. /\ DOMAIN import' = DOMAIN import /\ import'.work = import.work
          /\ import'.marks = import.marks /\ import'.at = import.at /\ import.at = "distributors"
          /\ DOMAIN import'.lines = DOMAIN import.lines \cup {g}
        BY <1>3, <2>2, NoImportIs, Zenon, LineRead
    <3> QED
        BY <1>3, <3>1
  <2> QED
      BY <2>1, <2>2
<1>5. CASE import' = [NoImport EXCEPT !.at = "services"]
  <2>1. NoImport.marks \in Seq(Products) /\ NoImport.marks = << >>
      BY NoImportIs, EmptyFunction
  <2>2. /\ DOMAIN import' = DOMAIN NoImport /\ import'.at = "services" /\ import'.marks = NoImport.marks
        /\ DOMAIN import'.lines = {} /\ DOMAIN import'.work = {}
      BY <1>5, NoImportIs
  <2>3. import'.marks \in Seq(Products)
      BY <2>1, <2>2
  <2> QED
      BY <1>1, <1>2, <2>1, <2>2, <2>3, NoImportIs, NoMarks, NothingWritten
<1> QED
    BY <1>1, <1>2, <1>3, <1>4, <1>5, ImportGone, NoImportIs, NoMarks, NothingWritten

\* The suppliers of the file are merged, or the file is refused.
LEMMA SyncDistributorsInv ==
    ASSUME CatalogueInv, UNCHANGED calm, SyncDistributors
    PROVE  CatalogueInv'
<1>1. ImportOK /\ SuppliersOK /\ import.at = "distributors"
      /\ UNCHANGED <<today, catalogue, screens, nextId>>
    BY DEF CatalogueInv, SyncDistributors
<1> DEFINE lines == import.lines
           new == {g \in DOMAIN lines : ~suppliers[g].known}
<1>2. \/ import' = NoImport /\ UNCHANGED suppliers
      \/ /\ suppliers' = [g \in Glns |->
                        IF g \in DOMAIN lines \ import.added THEN Merged(suppliers[g], lines[g])
                        ELSE suppliers[g]]
         /\ import' = [import EXCEPT !.record = {}, !.added = import.added \cup new]
    BY Zenon DEF SyncDistributors
<1>3. CASE import' = NoImport /\ UNCHANGED suppliers
    BY <1>1, <1>3, ImportGone
<1>4. CASE /\ suppliers' = [g \in Glns |->
                        IF g \in DOMAIN lines \ import.added THEN Merged(suppliers[g], lines[g])
                        ELSE suppliers[g]]
           /\ import' = [import EXCEPT !.record = {}, !.added = import.added \cup new]
  <2>1. ASSUME NEW s, s.known \in BOOLEAN, s.active \in BOOLEAN, NEW mvt
        PROVE  /\ DOMAIN Merged(s, mvt) = {"known", "active", "terms"}
               /\ Merged(s, mvt).known \in BOOLEAN /\ Merged(s, mvt).active \in BOOLEAN
    <3>1. DOMAIN Merged(s, mvt) = {"known", "active", "terms"} /\ Merged(s, mvt).known
        BY DEF Merged
    <3>2. Merged(s, mvt).active = IF Tells(mvt) THEN Opens(mvt) ELSE (s.known => s.active)
        BY Zenon DEF Merged
    <3>3. Opens(mvt) \in BOOLEAN /\ (s.known => s.active) \in BOOLEAN
        BY DEF Opens
    <3>4. Merged(s, mvt).active \in BOOLEAN
        BY Zenon, <3>2, <3>3
    <3>5. Merged(s, mvt).known = TRUE
        BY Zenon DEF Merged
    <3> QED
        BY <3>1, <3>4, <3>5
  <2>2. SuppliersOK'
    <3> HIDE DEF lines
    <3>1. ASSUME NEW g \in Glns
          PROVE  /\ DOMAIN suppliers'[g] = {"known", "active", "terms"}
                 /\ suppliers'[g].known \in BOOLEAN /\ suppliers'[g].active \in BOOLEAN
      <4>1. suppliers'[g] = Merged(suppliers[g], lines[g]) \/ suppliers'[g] = suppliers[g]
          BY <1>4
      <4> QED
          BY <1>1, <2>1, <4>1 DEF SuppliersOK
    <3>2. DOMAIN suppliers' = Glns
        BY <1>4
    <3> QED
        BY <3>1, <3>2 DEF SuppliersOK
  <2>3. /\ DOMAIN import = {"at", "lines", "record", "added", "want", "read", "work", "told", "marks", "unknown"}
        /\ DOMAIN import.work = {} /\ import.marks \in Seq(Products)
      BY <1>1 DEF ImportOK
  <2>4. /\ DOMAIN import' = {"at", "lines", "record", "added", "want", "read", "work", "told", "marks", "unknown"}
        /\ import'.at = "distributors" /\ import'.lines = import.lines
        /\ import'.work = import.work /\ import'.marks = import.marks
    <3> HIDE DEF new
    <3> QED
        BY <1>1, <1>4, <2>3
  <2>5. DOMAIN import'.lines \subseteq Glns
      BY <1>1, <2>4 DEF ImportOK
  <2> QED
      BY <1>1, <2>2, <2>3, <2>4, <2>5, NoMarks, NothingWritten
<1> QED
    BY <1>2, <1>3, <1>4

\* A notice of an unknown product is refused; nothing is written.
LEMMA MissNoticeInv ==
    ASSUME CatalogueInv, UNCHANGED calm, NEW e \in Products, MissNotice(e)
    PROVE  CatalogueInv'
<1>1. ImportOK /\ CalmOK /\ import.at = "books" /\ ~InCatalogue(e)
      /\ UNCHANGED <<today, catalogue, suppliers, imports, screens, nextId>>
    BY DEF CatalogueInv, MissNotice
<1>2. SuppliersOK'
    BY <1>1 DEF CatalogueInv, SuppliersOK
<1>3. import' = [import EXCEPT !.at = "refused", !.read = @ + 1, !.unknown = {e}]
    BY DEF MissNotice
<1>4. /\ DOMAIN import' = DOMAIN import /\ import'.at = "refused" /\ import'.unknown = {e}
      /\ import'.lines = import.lines /\ import'.work = import.work
      /\ import'.told = import.told /\ import'.marks = import.marks
    BY <1>1, <1>3 DEF ImportOK
<1>5. ImportOK'
  <2>1. \A d \in DOMAIN import'.work : d \in Products /\ WorkOK(d)'
      BY <1>1, <1>4 DEF ImportOK, WorkOK, SameRow
  <2> QED
      BY <1>1, <1>4, <2>1 DEF ImportOK
<1>6. calm => \A d \in DOMAIN import'.work : CalmWork(d)'
    BY <1>1, <1>4 DEF CalmOK, CalmWork
<1>7. CalmMarks'
    BY <1>4 DEF CalmMarks
<1>8. nextId' \in Nat /\ nextId <= nextId'
    BY <1>1 DEF CatalogueInv, ProductsOK
<1> QED
    BY <1>1, <1>2, <1>4, <1>5, <1>6, <1>7, <1>8, ImportMoved DEF CalmOK

\* A mark is set and leaves the list.
LEMMA MarkImportedInv ==
    ASSUME CatalogueInv, UNCHANGED calm, MarkImported
    PROVE  CatalogueInv'
<1>1. /\ ImportOK /\ CalmOK /\ import.at = "marking" /\ import.marks # << >>
      /\ UNCHANGED <<today, catalogue, suppliers, imports, screens, nextId>>
      /\ import' = NoImport \/ import' = [import EXCEPT !.marks = Tail(@)]
    BY DEF CatalogueInv, MarkImported
<1>2. CASE import' = NoImport
    BY <1>1, <1>2, ImportGone
<1>3. CASE import' = [import EXCEPT !.marks = Tail(@)]
  <2>1. SuppliersOK'
      BY <1>1 DEF CatalogueInv, SuppliersOK
  <2>2. /\ DOMAIN import' = DOMAIN import /\ import'.at = "marking" /\ import'.marks = Tail(import.marks)
        /\ import'.lines = import.lines /\ import'.work = import.work
      BY <1>1, <1>3 DEF ImportOK
  <2>3. import.marks \in Seq(Products) /\ DOMAIN import.work = {}
      BY <1>1 DEF ImportOK
  <2>4. /\ Tail(import.marks) \in Seq(Products)
        /\ Len(Tail(import.marks)) = Len(import.marks) - 1
        /\ \A i \in 1 .. Len(Tail(import.marks)) : Tail(import.marks)[i] = import.marks[i + 1]
      BY <1>1, <2>3
  <2>5. ImportOK'
      BY <1>1, <2>2, <2>3, <2>4 DEF ImportOK
  <2>6. calm => CalmMarks'
    <3> SUFFICES ASSUME calm, NEW i \in 1 .. Len(import'.marks)
                 PROVE  catalogue[import'.marks[i]].text = imports
        BY <1>1, <2>2 DEF CalmMarks
    <3>1. i + 1 \in 1 .. Len(import.marks) /\ import'.marks[i] = import.marks[i + 1]
        BY <2>2, <2>3, <2>4
    <3> QED
        BY <1>1, <3>1 DEF CalmOK, CalmMarks
  <2>7. nextId' \in Nat /\ nextId <= nextId'
      BY <1>1 DEF CatalogueInv, ProductsOK
  <2> QED
      BY <1>1, <2>1, <2>2, <2>3, <2>5, <2>6, <2>7, ImportMoved DEF CalmOK
<1> QED
    BY <1>1, <1>2, <1>3

\* The import has marked all, or the process dies.
LEMMA ImportEnds ==
    ASSUME CatalogueInv, UNCHANGED calm, EndImport \/ Stop
    PROVE  CatalogueInv'
<1>1. import' = NoImport /\ UNCHANGED <<today, catalogue, suppliers, screens, nextId>>
    BY DEF EndImport, Stop
<1> QED
    BY <1>1, ImportGone

\* What the session holds of the product e before its notice.
Mine(i, e) == IF e \in DOMAIN i.work THEN i.work[e] ELSE [old |-> catalogue[e], new |-> catalogue[e]]

\* The session i goes on from that of the import, or from an empty one after a rollback.
GoesOn(i) ==
    /\ DOMAIN i = {"at", "lines", "record", "added", "want", "read", "work", "told", "marks", "unknown"}
    /\ i.at = "books" /\ i.lines = import.lines /\ i.marks = import.marks
    /\ \/ i.work = import.work /\ i.told = import.told
       \/ DOMAIN i.work = {}
    /\ calm => import.at = "books" /\ i.work = import.work

\* What a session that goes on holds of a product is still a product.
LEMMA MineOK ==
    ASSUME CatalogueInv, NEW i, GoesOn(i), NEW e \in Products
    PROVE  LET m == Mine(i, e)
           IN  /\ DOMAIN m = {"old", "new"} /\ ProductOK(m.old, nextId) /\ ProductOK(m.new, nextId)
               /\ \A v \in m.new.prices, p \in catalogue[e].prices : v.id = p.id =>
                    /\ v.vat = p.vat /\ v.from = p.from
                    /\ v.price = p.price \/ [ean |-> e, vat |-> p.vat, from |-> p.from] \in i.told
               /\ calm => /\ m.old = catalogue[e]
                          /\ \A p \in m.old.prices : \E v \in m.new.prices : v.id = p.id
                          /\ Apart(m.new.prices)
<1>1. ProductsOK /\ ImportOK /\ CalmOK
    BY DEF CatalogueInv
<1>2. ProductOK(catalogue[e], nextId)
    BY <1>1 DEF ProductsOK
<1>3. CASE e \in DOMAIN i.work
  <2>1. i.work = import.work /\ i.told = import.told /\ e \in DOMAIN import.work /\ Mine(i, e) = import.work[e]
      BY <1>3 DEF GoesOn, Mine
  <2>2. WorkOK(e) /\ (calm => CalmWork(e))
      BY <1>1, <2>1 DEF ImportOK, CalmOK
  <2> QED
      BY <2>1, <2>2 DEF WorkOK, CalmWork, SameRow
<1>4. CASE e \notin DOMAIN i.work
  <2>1. PICK m : m = [old |-> catalogue[e], new |-> catalogue[e]]
      OBVIOUS
  <2>2. Mine(i, e) = m /\ DOMAIN m = {"old", "new"} /\ m.old = catalogue[e] /\ m.new = catalogue[e]
      BY <1>4, <2>1 DEF Mine
  <2>3. \A v, p \in catalogue[e].prices : v.id = p.id => v = p
      BY <1>2 DEF ProductOK, RowsOK
  <2>4. calm => Apart(catalogue[e].prices)
      BY <1>1 DEF CalmOK
  <2> QED
      BY <1>2, <2>2, <2>3, <2>4
<1> QED
    BY <1>3, <1>4

\* The product of a notice after it.
Noted(i, e, hist) ==
    [Mine(i, e) EXCEPT !.new = [Mine(i, e).new EXCEPT
        !.text = imports, !.prices = ApplyRows(Mine(i, e).new.prices, hist)]]

\* What the rows of a notice make of the product, when they have new identifiers.
LEMMA NotedOK ==
    ASSUME CatalogueInv, NEW i, GoesOn(i), NEW e \in Products,
           NEW hist, RowsOK(hist), Ordered(hist), NEW k \in Nat, nextId <= k,
           \A p \in hist : p.id >= nextId /\ p.id < k
    PROVE  LET n == Noted(i, e, hist)
           IN  /\ DOMAIN n = {"old", "new"} /\ n.old = Mine(i, e).old /\ n.new.text = imports
               /\ ProductOK(n.old, k) /\ ProductOK(n.new, k)
               /\ \A v \in n.new.prices, p \in catalogue[e].prices : v.id = p.id =>
                    /\ v.vat = p.vat /\ v.from = p.from
                    /\ \/ v.price = p.price
                       \/ [ean |-> e, vat |-> p.vat, from |-> p.from] \in i.told
                       \/ \E x \in hist : x.vat = p.vat /\ x.from = p.from
               /\ calm => /\ \A p \in n.old.prices : \E v \in n.new.prices : v.id = p.id
                          /\ Apart(n.new.prices)
<1> DEFINE m == Mine(i, e)
           out == ApplyRows(m.new.prices, hist)
           n == Noted(i, e, hist)
<1>1. /\ DOMAIN m = {"old", "new"} /\ ProductOK(m.old, nextId) /\ ProductOK(m.new, nextId)
      /\ \A v \in m.new.prices, p \in catalogue[e].prices : v.id = p.id =>
            /\ v.vat = p.vat /\ v.from = p.from
            /\ v.price = p.price \/ [ean |-> e, vat |-> p.vat, from |-> p.from] \in i.told
      /\ calm => /\ m.old = catalogue[e]
                 /\ \A p \in m.old.prices : \E v \in m.new.prices : v.id = p.id
                 /\ Apart(m.new.prices)
    BY MineOK
<1>2. n = [m EXCEPT !.new = [m.new EXCEPT !.text = imports, !.prices = out]]
    BY DEF Noted
<1> HIDE DEF m, n
<1>3. nextId \in Nat \ {0}
    BY DEF CatalogueInv, ProductsOK
<1>4. RowsOK(m.new.prices) /\ \A p \in m.new.prices : p.id # 0 /\ p.id < nextId /\ p.id \in Nat
    BY <1>1 DEF ProductOK, RowsOK, PriceOK
<1>5. \A x \in hist : x.id \in Nat
    BY DEF RowsOK, PriceOK
<1>6. \A p \in m.new.prices, x \in hist : p.id # x.id
    BY <1>3, <1>4, <1>5
<1>7. /\ RowsOK(out)
      /\ \A w \in out : (\E x \in hist : w.id = x.id) \/ \E v \in m.new.prices : GoesBack(w, v, hist)
      /\ \A v \in m.new.prices : \E w \in out : w.id = v.id
      /\ Ordered(m.new.prices) /\ Disjoint(m.new.prices) => Ordered(out) /\ Disjoint(out)
    BY <1>4, <1>6, RowsApplied
<1> HIDE DEF out
<1>8. DOMAIN n = {"old", "new"} /\ n.old = m.old /\ n.new.text = imports /\ n.new.prices = out
      /\ DOMAIN n.new = {"text", "active", "prices"}
  <2>1. PICK x : x = [m.new EXCEPT !.text = imports, !.prices = out]
      OBVIOUS
  <2>2. DOMAIN x = {"text", "active", "prices"} /\ x.text = imports /\ x.prices = out
      BY <1>1, <2>1 DEF ProductOK
  <2>3. n = [m EXCEPT !.new = x]
      BY <1>2, <2>1
  <2>4. DOMAIN n = {"old", "new"} /\ n.old = m.old /\ n.new = x
      BY <1>1, <2>3
  <2> QED
      BY <2>2, <2>4
<1>9. \A w \in out : w.id # 0 /\ w.id < k
  <2> SUFFICES ASSUME NEW w \in out PROVE w.id # 0 /\ w.id < k
      OBVIOUS
  <2>1. CASE \E x \in hist : w.id = x.id
      BY <1>3, <1>5, <2>1
  <2>2. CASE \E v \in m.new.prices : GoesBack(w, v, hist)
      BY <1>3, <1>4, <2>2 DEF GoesBack
  <2> QED
      BY <1>7, <2>1, <2>2
<1>10. ProductOK(n.new, k)
    BY <1>7, <1>8, <1>9 DEF ProductOK
<1>11. ProductOK(n.old, k)
    BY <1>1, <1>3, <1>8, MoreIdentifiers
<1>12. ASSUME NEW v \in out, NEW p \in catalogue[e].prices, v.id = p.id
       PROVE  /\ v.vat = p.vat /\ v.from = p.from
              /\ \/ v.price = p.price
                 \/ [ean |-> e, vat |-> p.vat, from |-> p.from] \in i.told
                 \/ \E x \in hist : x.vat = p.vat /\ x.from = p.from
  <2>1. p.id < nextId /\ p.id \in Nat
      BY DEF CatalogueInv, ProductsOK, ProductOK, RowsOK, PriceOK
  <2>2. PICK u \in m.new.prices : GoesBack(v, u, hist)
      BY <1>3, <1>5, <1>7, <1>12, <2>1
  <2>3. u.id = p.id
      BY <1>12, <2>2 DEF GoesBack
  <2>4. /\ u.vat = p.vat /\ u.from = p.from
        /\ u.price = p.price \/ [ean |-> e, vat |-> p.vat, from |-> p.from] \in i.told
      BY <1>1, <2>3
  <2> QED
      BY <2>2, <2>4 DEF GoesBack
<1>13. calm => /\ \A p \in n.old.prices : \E v \in n.new.prices : v.id = p.id
               /\ Apart(n.new.prices)
  <2> SUFFICES ASSUME calm PROVE (\A p \in m.old.prices : \E v \in out : v.id = p.id) /\ Apart(out)
      BY <1>8
  <2>1. Apart(out)
      BY <1>1, <1>7 DEF Apart
  <2>2. ASSUME NEW p \in m.old.prices PROVE \E v \in out : v.id = p.id
    <3>1. PICK v \in m.new.prices : v.id = p.id
        BY <1>1
    <3> QED
        BY <1>7, <3>1
  <2> QED
      BY <2>1, <2>2
<1> QED
  <2>1. \A v \in n.new.prices, p \in catalogue[e].prices : v.id = p.id =>
              /\ v.vat = p.vat /\ v.from = p.from
              /\ \/ v.price = p.price
                 \/ [ean |-> e, vat |-> p.vat, from |-> p.from] \in i.told
                 \/ \E x \in hist : x.vat = p.vat /\ x.from = p.from
      BY <1>8, <1>12
  <2> QED
      BY <1>8, <1>10, <1>11, <1>13, <2>1 DEF m, n

\* The session after a notice, part by part.
LEMMA AfterIs ==
    ASSUME NEW i, GoesOn(i), NEW e, NEW hist
    PROVE  LET a == After(i, e, hist)
           IN  /\ DOMAIN a = {"at", "lines", "record", "added", "want", "read", "work", "told", "marks", "unknown"}
               /\ a.at = "books" /\ a.lines = import.lines /\ a.marks = Append(import.marks, e)
               /\ a.told = i.told \cup {[ean |-> e, vat |-> p.vat, from |-> p.from] : p \in hist}
               /\ DOMAIN a.work = DOMAIN i.work \cup {e}
               /\ a.work[e] = Noted(i, e, hist)
               /\ \A d \in DOMAIN i.work : d # e => a.work[d] = i.work[d]
<1> DEFINE told == i.told \cup {[ean |-> e, vat |-> p.vat, from |-> p.from] : p \in hist}
           work == [x \in DOMAIN i.work \cup {e} |-> IF x = e THEN Noted(i, e, hist) ELSE i.work[x]]
<1>1. After(i, e, hist) = [i EXCEPT !.work = work, !.told = told, !.marks = Append(i.marks, e)]
    BY DEF After, Noted, Mine, NoticeText
<1>2. /\ DOMAIN work = DOMAIN i.work \cup {e} /\ work[e] = Noted(i, e, hist)
      /\ \A d \in DOMAIN i.work : d # e => work[d] = i.work[d]
    OBVIOUS
<1> HIDE DEF told, work
<1>3. PICK a : a = [i EXCEPT !.work = work, !.told = told, !.marks = Append(i.marks, e)]
    OBVIOUS
<1>4. /\ DOMAIN a = DOMAIN i /\ a.at = i.at /\ a.lines = i.lines /\ a.work = work /\ a.told = told
      /\ a.marks = Append(i.marks, e)
    BY <1>3 DEF GoesOn
<1>5. After(i, e, hist) = a
    BY <1>1, <1>3
<1> QED
  <2>1. a.told = i.told \cup {[ean |-> e, vat |-> p.vat, from |-> p.from] : p \in hist}
      BY <1>4 DEF told
  <2> QED
      BY <1>2, <1>4, <1>5, <2>1 DEF GoesOn

\* A notice is merged.
LEMMA MergeInv ==
    ASSUME CatalogueInv, UNCHANGED <<today, catalogue, suppliers, imports, screens, calm>>,
           import.at \in {"books", "refused"}, NEW i, GoesOn(i), NEW e \in Products, InCatalogue(e), Merge(i, e)
    PROVE  CatalogueInv'
<1>1. /\ ProductsOK /\ ImportOK /\ CalmOK /\ nextId \in Nat \ {0} /\ today \in Days
      /\ catalogue[e].prices # {}
    BY DEF CatalogueInv, ProductsOK
<1>2. PICK told \in Notices :
        /\ import' = After(i, e, NoticeRows(told))
        /\ nextId' = nextId + Cardinality(NoticeRows(told))
    BY DEF Merge
<1>3. PICK hist : hist = NoticeRows(told)
    OBVIOUS
<1>4. /\ RowsOK(hist) /\ Ordered(hist) /\ Cardinality(hist) \in Nat
      /\ \A p \in hist : p.id >= nextId /\ p.id < nextId + Cardinality(hist)
    BY <1>1, <1>3, NoticeRowsOK
<1>5. nextId' \in Nat /\ nextId <= nextId' /\ \A p \in hist : p.id >= nextId /\ p.id < nextId'
    BY <1>1, <1>2, <1>3, <1>4
<1>6. /\ DOMAIN import' = {"at", "lines", "record", "added", "want", "read", "work", "told", "marks", "unknown"}
      /\ import'.at = "books" /\ import'.lines = import.lines /\ import'.marks = Append(import.marks, e)
      /\ import'.told = i.told \cup {[ean |-> e, vat |-> p.vat, from |-> p.from] : p \in hist}
      /\ DOMAIN import'.work = DOMAIN i.work \cup {e}
      /\ import'.work[e] = Noted(i, e, hist)
      /\ \A d \in DOMAIN i.work : d # e => import'.work[d] = i.work[d]
    BY <1>2, <1>3, AfterIs
<1> DEFINE n == Noted(i, e, hist)
<1>7. /\ DOMAIN n = {"old", "new"} /\ n.old = Mine(i, e).old /\ n.new.text = imports
      /\ ProductOK(n.old, nextId') /\ ProductOK(n.new, nextId')
      /\ \A v \in n.new.prices, p \in catalogue[e].prices : v.id = p.id =>
            /\ v.vat = p.vat /\ v.from = p.from
            /\ \/ v.price = p.price
               \/ [ean |-> e, vat |-> p.vat, from |-> p.from] \in i.told
               \/ \E x \in hist : x.vat = p.vat /\ x.from = p.from
      /\ calm => /\ \A p \in n.old.prices : \E v \in n.new.prices : v.id = p.id
                 /\ Apart(n.new.prices)
    BY <1>4, <1>5, NotedOK
<1>8. calm => n.old = catalogue[e]
    BY <1>7, MineOK
<1> HIDE DEF n
<1>9. import'.work[e] = n
    BY <1>6 DEF n
<1>10. ASSUME NEW d \in DOMAIN import'.work PROVE d \in Products /\ WorkOK(d)'
  <2>1. CASE d = e
    <3>1. \A v \in n.new.prices, p \in catalogue[e].prices : v.id = p.id => SameRow(e, v, p)'
      <4> SUFFICES ASSUME NEW v \in n.new.prices, NEW p \in catalogue[e].prices, v.id = p.id
                   PROVE  SameRow(e, v, p)'
          OBVIOUS
      <4>1. /\ v.vat = p.vat /\ v.from = p.from
            /\ \/ v.price = p.price
               \/ [ean |-> e, vat |-> p.vat, from |-> p.from] \in i.told
               \/ \E x \in hist : x.vat = p.vat /\ x.from = p.from
          BY <1>7
      <4>2. v.price = p.price \/ [ean |-> e, vat |-> p.vat, from |-> p.from] \in import'.told
          BY <1>6, <4>1
      <4> QED
          BY <4>1, <4>2 DEF SameRow
    <3> QED
        BY <1>1, <1>7, <1>9, <2>1, <3>1 DEF WorkOK
  <2>2. CASE d # e
    <3>1. d \in DOMAIN i.work /\ import'.work[d] = import.work[d] /\ i.work = import.work /\ i.told = import.told
        BY <1>6, <1>10, <2>2 DEF GoesOn
    <3>2. d \in Products /\ WorkOK(d)
        BY <1>1, <3>1 DEF ImportOK
    <3>3. /\ DOMAIN import.work[d] = {"old", "new"} /\ catalogue[d].prices # {}
          /\ ProductOK(import.work[d].old, nextId') /\ ProductOK(import.work[d].new, nextId')
        BY <1>1, <1>5, <3>2, MoreIdentifiers DEF WorkOK
    <3>4. \A v \in import.work[d].new.prices, p \in catalogue[d].prices : v.id = p.id => SameRow(d, v, p)'
        BY <1>6, <3>1, <3>2 DEF WorkOK, SameRow
    <3> QED
        BY <3>1, <3>2, <3>3, <3>4 DEF WorkOK
  <2> QED
      BY <2>1, <2>2
<1>11. Append(import.marks, e) \in Seq(Products)
    BY <1>1 DEF ImportOK
<1>12. ImportOK'
    BY <1>1, <1>6, <1>10, <1>11 DEF ImportOK
<1>13. ASSUME calm, NEW d \in DOMAIN import'.work PROVE CalmWork(d)'
  <2>1. CASE d = e
      BY <1>7, <1>8, <1>9, <1>13, <2>1 DEF CalmWork
  <2>2. CASE d # e
    <3>1. d \in DOMAIN import.work /\ import'.work[d] = import.work[d]
        BY <1>6, <1>13, <2>2 DEF GoesOn
    <3>2. CalmWork(d)
        BY <1>1, <1>13, <3>1 DEF CalmOK
    <3> QED
        BY <3>1, <3>2 DEF CalmWork
  <2> QED
      BY <2>1, <2>2
<1>14. calm => CalmMarks'
  <2> SUFFICES ASSUME calm, NEW j \in 1 .. Len(Append(import.marks, e))
               PROVE  LET d == Append(import.marks, e)[j]
                      IN  d \in DOMAIN import'.work /\ import'.work[d].new.text = imports
      BY <1>6 DEF CalmMarks
  <2>1. i.work = import.work /\ import.at = "books"
      BY DEF GoesOn
  <2>2. import.marks \in Seq(Products)
      BY <1>1 DEF ImportOK
  <2>3. CASE j = Len(import.marks) + 1
    <3>1. Append(import.marks, e)[j] = e
        BY <2>2, <2>3
    <3> QED
        BY <1>6, <1>7, <1>9, <3>1
  <2>4. CASE j # Len(import.marks) + 1
    <3>1. j \in 1 .. Len(import.marks) /\ Append(import.marks, e)[j] = import.marks[j]
        BY <2>2, <2>4
    <3>2. PICK d : d = import.marks[j]
        OBVIOUS
    <3>3. d \in DOMAIN import.work /\ import.work[d].new.text = imports
        BY <1>1, <2>1, <3>1, <3>2 DEF CalmOK, CalmMarks
    <3>4. d \in DOMAIN import'.work /\ import'.work[d].new.text = imports
        BY <1>6, <1>7, <1>9, <2>1, <3>3
    <3> QED
        BY <3>1, <3>2, <3>4
  <2> QED
      BY <2>3, <2>4
<1>15. SuppliersOK'
    BY DEF CatalogueInv, SuppliersOK
<1>16. import.at # "idle"
    OBVIOUS
<1> QED
    BY <1>1, <1>5, <1>6, <1>12, <1>13, <1>14, <1>15, <1>16, ImportMoved DEF CalmOK

\* A notice of a known product.
LEMMA MergeNoticeInv ==
    ASSUME CatalogueInv, UNCHANGED calm, NEW e \in Products, MergeNotice(e)
    PROVE  CatalogueInv'
<1>1. ImportOK /\ import.at = "books" /\ InCatalogue(e) /\ UNCHANGED <<today, catalogue, suppliers, imports, screens>>
    BY DEF CatalogueInv, MergeNotice
<1>2. PICK i : i = [import EXCEPT !.read = @ + 1]
    OBVIOUS
<1>3. Merge(i, e)
    BY <1>2 DEF MergeNotice
<1>4. GoesOn(i)
    BY <1>1, <1>2 DEF GoesOn, ImportOK
<1> QED
    BY <1>1, <1>3, <1>4, MergeInv

\* After a refusal the import stops; a product created since resumes it, never in a
\* calm behaviour.
LEMMA RecoverInv ==
    ASSUME CatalogueInv, UNCHANGED calm, Recover
    PROVE  CatalogueInv'
<1> DEFINE c == CHOOSE x \in import.unknown : TRUE
<1>1. /\ ImportOK /\ CalmOK /\ import.at = "refused"
      /\ UNCHANGED <<today, catalogue, suppliers, imports, screens>>
      /\ IF InCatalogue(c) THEN Merge(RolledBack, c) ELSE import' = NoImport /\ UNCHANGED nextId
    BY DEF CatalogueInv, Recover
<1>2. c \in Products /\ c \in import.unknown
    BY <1>1 DEF ImportOK
<1> HIDE DEF c
<1>3. CASE ~InCatalogue(c)
    BY <1>1, <1>3, ImportGone
<1>4. CASE InCatalogue(c)
  <2>1. ~calm
      BY <1>1, <1>2, <1>4 DEF CalmOK
  <2>2. PICK i : i = [import EXCEPT !.at = "books", !.told = {}, !.unknown = {}, !.work = << >>]
      OBVIOUS
  <2>3. DOMAIN i = DOMAIN import /\ i.at = "books" /\ i.lines = import.lines /\ i.marks = import.marks
        /\ i.work = << >>
      BY <1>1, <2>2 DEF ImportOK
  <2>4. GoesOn(i)
      BY <1>1, <2>1, <2>3, EmptyFunction DEF GoesOn, ImportOK
  <2>5. Merge(i, c)
      BY <1>1, <1>4, <2>2 DEF RolledBack
  <2> QED
      BY <1>1, <1>2, <1>4, <2>4, <2>5, MergeInv
<1> QED
    BY <1>3, <1>4

\* What a commit makes of a product.
LEMMA WrittenOK ==
    ASSUME CatalogueInv, NEW e \in DOMAIN import.work
    PROVE  LET r == Written(e)
               w == import.work[e]
               changed == {p.id : p \in w.new.prices \ w.old.prices}
           IN  /\ e \in Products
               /\ ProductOK(r, nextId) /\ r.text = w.new.text
               /\ r.prices = {p \in catalogue[e].prices : p.id \notin changed} \cup (w.new.prices \ w.old.prices)
               /\ r.prices # {}
               /\ calm => r.prices \subseteq w.new.prices
<1> DEFINE w == import.work[e]
           diff == w.new.prices \ w.old.prices
           changed == {p.id : p \in diff}
           kept == {p \in catalogue[e].prices : p.id \notin changed}
<1>1. e \in Products /\ WorkOK(e) /\ ProductOK(catalogue[e], nextId)
    BY DEF CatalogueInv, ImportOK, ProductsOK
<1>2. PICK r : r = [catalogue[e] EXCEPT !.text = w.new.text, !.prices = kept \cup diff]
    OBVIOUS
<1>3. Written(e) = r
    BY <1>2 DEF Written
<1>4. DOMAIN r = {"text", "active", "prices"} /\ r.text = w.new.text /\ r.prices = kept \cup diff
    BY <1>1, <1>2 DEF ProductOK
<1>5. RowsOK(kept) /\ RowsOK(diff)
    BY <1>1, FewerRows DEF WorkOK, ProductOK
<1>6. RowsOK(kept \cup diff)
  <2>1. IsFiniteSet(kept \cup diff)
      BY <1>5, FS_Union DEF RowsOK
  <2>2. \A p \in kept, q \in diff : p.id # q.id
      OBVIOUS
  <2> HIDE DEF kept, diff
  <2> QED
      BY <1>5, <2>1, <2>2 DEF RowsOK
<1>7. \A p \in kept \cup diff : p.id # 0 /\ p.id < nextId
    BY <1>1 DEF WorkOK, ProductOK
<1>8. ProductOK(r, nextId)
    BY <1>4, <1>6, <1>7 DEF ProductOK
<1>9. kept \cup diff # {}
    BY <1>1 DEF WorkOK
<1>10. calm => kept \cup diff \subseteq w.new.prices
  <2> SUFFICES ASSUME calm, NEW p \in kept PROVE p \in w.new.prices
      OBVIOUS
  <2>1. CalmWork(e)
      BY DEF CatalogueInv, CalmOK
  <2>2. p \in w.old.prices
      BY <2>1 DEF CalmWork
  <2>3. PICK v \in w.new.prices : v.id = p.id
      BY <2>1, <2>2 DEF CalmWork
  <2>4. v \in w.old.prices
      BY <2>3
  <2>5. v = p
      BY <1>1, <2>2, <2>3, <2>4 DEF WorkOK, ProductOK, RowsOK
  <2> QED
      BY <2>3, <2>5
<1> QED
    BY <1>1, <1>3, <1>4, <1>8, <1>9, <1>10

\* Some rows of a history are a history.
LEMMA FewerApart ==
    ASSUME NEW S, Apart(S), NEW T, T \subseteq S
    PROVE  Apart(T)
BY DEF Apart, Ordered, Disjoint

\* The session commits what it has written.
LEMMA CommitBooksInv ==
    ASSUME CatalogueInv, UNCHANGED calm, CommitBooks
    PROVE  CatalogueInv'
<1>1. /\ ProductsOK /\ SuppliersOK /\ ScreensOK /\ ImportOK /\ CalmOK /\ import.at = "books"
      /\ UNCHANGED <<today, suppliers, imports, screens, nextId>>
    BY DEF CatalogueInv, CommitBooks
<1>2. catalogue' = [e \in Products |-> IF e \in DOMAIN import.work THEN Written(e) ELSE catalogue[e]]
    BY DEF CommitBooks
<1>3. /\ DOMAIN import' = DOMAIN import /\ import'.at = "marking" /\ import'.work = << >>
      /\ import'.lines = import.lines /\ import'.marks = import.marks
    BY <1>1 DEF CommitBooks, ImportOK
<1>4. ASSUME NEW e \in Products
      PROVE  /\ ProductOK(catalogue'[e], nextId)
             /\ catalogue[e].prices # {} => catalogue'[e].prices # {}
             /\ catalogue'[e] # NoProduct => catalogue'[e].prices # {}
             /\ calm => Apart(catalogue'[e].prices)
  <2>1. CASE e \in DOMAIN import.work
    <3>1. catalogue'[e] = Written(e)
        BY <1>2, <2>1
    <3>2. /\ ProductOK(Written(e), nextId) /\ Written(e).prices # {}
          /\ calm => Written(e).prices \subseteq import.work[e].new.prices
        BY <2>1, WrittenOK
    <3>3. calm => Apart(import.work[e].new.prices)
        BY <1>1, <2>1 DEF CalmOK, CalmWork
    <3> QED
        BY <3>1, <3>2, <3>3, FewerApart
  <2>2. CASE e \notin DOMAIN import.work
    <3>1. catalogue'[e] = catalogue[e]
        BY <1>2, <2>2
    <3> QED
        BY <1>1, <3>1 DEF ProductsOK, CalmOK, InCatalogue
  <2> QED
      BY <2>1, <2>2
<1>5. ProductsOK'
    BY <1>1, <1>2, <1>4 DEF ProductsOK, InCatalogue
<1>6. ScreensOK'
  <2>1. ASSUME NEW t \in Clerks PROVE ScreenOK(screens[t])'
    <3>1. ScreenOK(screens[t]) /\ screens'[t] = screens[t]
        BY <1>1 DEF ScreensOK
    <3>2. calm => screens[t].at # "loaded"
        BY <1>1 DEF CalmOK
    <3>3. screens[t].at # "closed" => catalogue'[screens[t].ean].prices # {}
        BY <1>4, <3>1 DEF ScreenOK
    <3> QED
        BY <3>1, <3>2, <3>3 DEF ScreenOK
  <2> QED
      BY <1>1, <2>1 DEF ScreensOK
<1>7. ImportOK'
    BY <1>1, <1>3, EmptyFunction DEF ImportOK
<1>8. SuppliersOK'
    BY <1>1 DEF SuppliersOK
<1>9. CalmOK'
  <2> SUFFICES ASSUME calm PROVE CalmOK'
      BY DEF CalmOK
  <2>1. CalmMarks'
    <3> SUFFICES ASSUME NEW j \in 1 .. Len(import.marks) PROVE catalogue'[import.marks[j]].text = imports
        BY <1>1, <1>3 DEF CalmMarks
    <3>1. PICK d : d = import.marks[j]
        OBVIOUS
    <3>2. d \in DOMAIN import.work /\ import.work[d].new.text = imports
        BY <1>1, <3>1 DEF CalmOK, CalmMarks
    <3>3. d \in Products /\ Written(d).text = imports
        BY <3>2, WrittenOK
    <3> QED
        BY <1>2, <3>1, <3>2, <3>3
  <2>2. DOMAIN import'.work = {}
      BY <1>3, EmptyFunction
  <2>3. \A e \in Products : Apart(catalogue'[e].prices)
      BY <1>4
  <2>4. \A t \in Clerks : screens'[t].at # "loaded"
      BY <1>1 DEF CalmOK
  <2> QED
      BY <1>3, <2>1, <2>2, <2>3, <2>4 DEF CalmOK
<1>10. calm' \in BOOLEAN
    BY DEF CatalogueInv
<1> QED
    BY <1>5, <1>6, <1>7, <1>8, <1>9, <1>10 DEF CatalogueInv

\* Every step keeps the invariant of the catalogue.
LEMMA CatalogueNextInv == CatalogueInv /\ [CatalogueNext]_catalogueVars => CatalogueInv'
<1> SUFFICES ASSUME CatalogueInv, [CatalogueNext]_catalogueVars PROVE CatalogueInv'
    OBVIOUS
<1>1. CASE UNCHANGED catalogueVars
  <2>1. UNCHANGED <<today, suppliers, catalogue, import, imports, screens, nextId, calm>>
      BY <1>1 DEF catalogueVars
  <2>2. SuppliersOK' /\ today' \in Days
      BY <2>1 DEF CatalogueInv, SuppliersOK, ProductsOK
  <2> QED
      BY <2>1, <2>2, AsideInv
<1>2. CASE CatalogueNext
  <2>1. UNCHANGED calm /\ CatalogueStep
      BY <1>2 DEF CatalogueNext
  <2>2. CASE NextDay \/ (\E r \in Rates : CloseRate(r)) \/ \E e \in Products : AddToDilicom(e)
      BY <2>1, <2>2, DaysInv
  <2>3. CASE \E e \in Products : CreateProduct(e) \/ ToggleProduct(e)
      BY <2>1, <2>3, CreateProductInv, ToggleProductInv
  <2>4. CASE \E t \in Clerks : LoadProduct(t) \/ SaveProduct(t) \/ \E e \in Products : OpenScreen(t, e)
      BY <2>1, <2>4, LoadProductInv, SaveProductInv, OpenScreenInv
  <2>5. CASE \E g \in Glns : CreateSupplier(g) \/ EditSupplier(g) \/ ToggleSupplier(g)
      BY <2>1, <2>5, SuppliersInv
  <2>6. CASE BeginImport \/ SyncDistributors
      BY <2>1, <2>6, BeginImportInv, SyncDistributorsInv
  <2>7. CASE EndDistributors \/ UpdateServices \/ \E g \in Glns, mvt \in Movements : ReadLine(g, mvt)
      BY <2>1, <2>7, ReadingInv
  <2>8. CASE \E e \in Products : MergeNotice(e) \/ MissNotice(e)
      BY <2>1, <2>8, MergeNoticeInv, MissNoticeInv
  <2>9. CASE Recover \/ CommitBooks
      BY <2>1, <2>9, RecoverInv, CommitBooksInv
  <2>10. CASE MarkImported \/ EndImport \/ Stop
      BY <2>1, <2>10, MarkImportedInv, ImportEnds
  <2> QED
      BY <2>1, <2>2, <2>3, <2>4, <2>5, <2>6, <2>7, <2>8, <2>9, <2>10 DEF CatalogueStep
<1> QED
    BY <1>1, <1>2

\* The catalogue, the screens and the session of the import always fit together.
THEOREM CatalogueInductive == CatalogueSpec => []CatalogueInv
<1>1. CatalogueInit => CatalogueInv
    BY CatalogueInitInv
<1>2. CatalogueInv /\ [CatalogueNext]_catalogueVars => CatalogueInv'
    BY CatalogueNextInv
<1> QED
    BY <1>1, <1>2, PTL DEF CatalogueSpec

\* The two computations of a price agree, and in a calm behaviour a day has at most one
\* price per rate (get_price, _apply_price_rows).
THEOREM PricesSound == CatalogueSpec => []PricesAreSound
<1>1. CatalogueInv => PricesAreSound
  <2> SUFFICES ASSUME CatalogueInv PROVE PricesAreSound
      OBVIOUS
  <2>1. ProductsOK /\ CalmOK
      BY DEF CatalogueInv
  <2>2. PricesAgree
    <3> SUFFICES ASSUME NEW e \in Products, NEW b \in catalogue[e].prices, b.from <= today
                 PROVE  SqlPrice(catalogue[e].prices) = CurrentPrice(catalogue[e].prices)
        BY <2>1 DEF PricesAgree, ProductsOK
    <3> DEFINE hist == catalogue[e].prices
               past == {p \in hist : p.from <= today}
    <3>1. {p \in past : p.to >= today} = ValidOn(hist, today)
      <4>1. today \in Nat /\ \A p \in hist : p.to \in Nat
          BY <2>1, CatalogueAssumption DEF ProductsOK, ProductOK, RowsOK, PriceOK, Days
      <4> QED
          BY <4>1 DEF ValidOn
    <3>2. past # {}
        OBVIOUS
    <3> QED
        BY <3>1, <3>2 DEF SqlPrice, CurrentPrice
  <2>3. calm => PeriodsDisjoint
      BY <2>1 DEF ProductsOK, CalmOK, Apart, PeriodsDisjoint
  <2> QED
      BY <2>2, <2>3 DEF PricesAreSound
<1> QED
    BY <1>1, CatalogueInductive, PTL

\* In a calm behaviour an import marks only what it committed (_update_synced).
THEOREM BatchesWhole == CatalogueSpec => []BatchIsWhole
<1>1. CatalogueInv => BatchIsWhole
  <2> SUFFICES ASSUME CatalogueInv, calm, import.at = "marking", NEW e \in ToSet(import.marks)
               PROVE  catalogue[e].text = imports
      BY DEF BatchIsWhole
  <2>1. CalmMarks /\ import.marks \in Seq(Products)
      BY DEF CatalogueInv, CalmOK, ImportOK
  <2>2. PICK j \in 1 .. Len(import.marks) : import.marks[j] = e
      BY <2>1 DEF ToSet
  <2> QED
      BY <2>1, <2>2 DEF CalmMarks
<1> QED
    BY <1>1, CatalogueInductive, PTL

\* Only the commit takes the import from its notices to the marks.
LEMMA OnlyCommitBooks ==
    ASSUME CatalogueInv, [CatalogueNext]_catalogueVars, import.at = "books", import'.at = "marking"
    PROVE  CommitBooks
<1>1. ImportOK
    BY DEF CatalogueInv
<1>2. import' # import
    OBVIOUS
<1>3. CatalogueStep
    BY <1>2 DEF CatalogueNext, catalogueVars
<1>4. import' # NoImport
    BY NoImportIs
<1>5. ASSUME NEW e \in Products PROVE ~MergeNotice(e) /\ ~MissNotice(e)
  <2>1. ASSUME MergeNotice(e) PROVE FALSE
    <3>1. PICK i : i = [import EXCEPT !.read = @ + 1]
        OBVIOUS
    <3>2. GoesOn(i)
        BY <1>1, <3>1 DEF GoesOn, ImportOK
    <3>3. \E told \in Notices : import' = After(i, e, NoticeRows(told))
        BY <2>1, <3>1 DEF MergeNotice, Merge
    <3>4. import'.at = "books"
        BY <3>2, <3>3, AfterIs
    <3> QED
        BY <3>4
  <2>2. ASSUME MissNotice(e) PROVE FALSE
      BY <1>1, <2>2 DEF MissNotice, ImportOK
  <2> QED
      BY <2>1, <2>2
<1>6. ~NextDay /\ ~(\E r \in Rates : CloseRate(r))
    BY <1>2 DEF NextDay, CloseRate
<1>7. \A e \in Products : ~CreateProduct(e) /\ ~ToggleProduct(e) /\ ~AddToDilicom(e)
    BY <1>2 DEF CreateProduct, ToggleProduct, AddToDilicom
<1>8. \A t \in Clerks : ~LoadProduct(t) /\ ~SaveProduct(t) /\ \A e \in Products : ~OpenScreen(t, e)
    BY <1>2 DEF LoadProduct, SaveProduct, OpenScreen
<1>9. \A g \in Glns : /\ ~CreateSupplier(g) /\ ~EditSupplier(g) /\ ~ToggleSupplier(g)
                      /\ \A mvt \in Movements : ~ReadLine(g, mvt)
    BY <1>2 DEF CreateSupplier, EditSupplier, ToggleSupplier, ReadLine
<1>10. ~BeginImport /\ ~SyncDistributors /\ ~EndDistributors /\ ~UpdateServices /\ ~Recover
    BY DEF BeginImport, SyncDistributors, EndDistributors, UpdateServices, Recover
<1>11. ~MarkImported /\ ~EndImport /\ ~Stop
    BY <1>4 DEF MarkImported, EndImport, Stop
<1> QED
    BY <1>3, <1>5, <1>6, <1>7, <1>8, <1>9, <1>10, <1>11 DEF CatalogueStep

\* An import changes no future price it does not announce.
THEOREM FutureKept == CatalogueSpec => FuturePricesKept
<1> DEFINE Kept ==
      import.at = "books" /\ import'.at = "marking" =>
        \A e \in DOMAIN catalogue : \A p \in catalogue[e].prices :
            p.from > today /\ [ean |-> e, vat |-> p.vat, from |-> p.from] \notin import.told =>
                \E q \in catalogue'[e].prices :
                    q.id = p.id /\ q.from = p.from /\ q.price = p.price
<1>1. CatalogueInv /\ [CatalogueNext]_catalogueVars => [Kept]_catalogueVars
  <2> SUFFICES ASSUME CatalogueInv, [CatalogueNext]_catalogueVars,
                      import.at = "books", import'.at = "marking",
                      NEW e \in DOMAIN catalogue, NEW p \in catalogue[e].prices,
                      [ean |-> e, vat |-> p.vat, from |-> p.from] \notin import.told
               PROVE  \E q \in catalogue'[e].prices : q.id = p.id /\ q.from = p.from /\ q.price = p.price
      BY DEF Kept
  <2>1. e \in Products /\ ImportOK
      BY DEF CatalogueInv, ProductsOK
  <2>2. catalogue'[e] = IF e \in DOMAIN import.work THEN Written(e) ELSE catalogue[e]
      BY <2>1, OnlyCommitBooks DEF CommitBooks
  <2>3. CASE e \notin DOMAIN import.work
      BY <2>2, <2>3
  <2>4. CASE e \in DOMAIN import.work
    <3> DEFINE w == import.work[e]
               changed == {r.id : r \in w.new.prices \ w.old.prices}
    <3>1. catalogue'[e].prices =
            {r \in catalogue[e].prices : r.id \notin changed} \cup (w.new.prices \ w.old.prices)
        BY <2>2, <2>4, WrittenOK
    <3>2. CASE p.id \notin changed
        BY <3>1, <3>2
    <3>3. CASE p.id \in changed
      <4>1. PICK v \in w.new.prices \ w.old.prices : v.id = p.id
          BY <3>3
      <4>2. SameRow(e, v, p)
          BY <2>1, <2>4, <4>1 DEF ImportOK, WorkOK
      <4>3. v.from = p.from /\ v.price = p.price
          BY <4>2 DEF SameRow
      <4> QED
          BY <3>1, <4>1, <4>3
    <3> QED
        BY <3>2, <3>3
  <2> QED
      BY <2>3, <2>4
<1> QED
    BY <1>1, CatalogueInductive, PTL DEF CatalogueSpec, FuturePricesKept, Kept

-----------------------------------------------------------------------------
(* The suppliers and the lines of an import *)

\* The activity and the terms of two states of a supplier.
Agree(s, u) == s.active = u.active /\ s.terms = u.terms

\* A GLN of the record that is read is to be merged as the dictionary says; the others
\* are as the lines ask, and what the dictionary still says of them is already there.
LineOK(g) ==
    IF g \in import.record
    THEN /\ g \in DOMAIN import.lines /\ g \notin import.added
         /\ Agree(import.want[g], Asked(suppliers[g], import.lines[g]))
    ELSE /\ Agree(import.want[g], suppliers[g])
         /\ g \in DOMAIN import.lines =>
              suppliers[g].known /\ Agree(Asked(suppliers[g], import.lines[g]), suppliers[g])

SupplierFields(s) == DOMAIN s = {"known", "active", "terms"}

LinesInv ==
    calm /\ import.at = "distributors" =>
        /\ DOMAIN import.want = Glns
        /\ \A g \in Glns : SupplierFields(import.want[g]) /\ LineOK(g)

\* What a line asks, field by field.
LEMMA AskedIs ==
    ASSUME NEW s, NEW mvt, SupplierFields(s)
    PROVE  /\ SupplierFields(Asked(s, mvt))
           /\ Tells(mvt) => Asked(s, mvt).active = Opens(mvt)
           /\ ~Tells(mvt) => Asked(s, mvt).active = s.active
           /\ Arranges(mvt) => Asked(s, mvt).terms = imports
           /\ ~Arranges(mvt) => Asked(s, mvt).terms = s.terms
<1> DEFINE a == IF Tells(mvt) THEN Opens(mvt) ELSE s.active
           b == IF Arranges(mvt) THEN imports ELSE s.terms
<1>1. Asked(s, mvt) = [s EXCEPT !.active = a, !.terms = b]
    BY Zenon DEF Asked
<1>2. (Tells(mvt) => a = Opens(mvt)) /\ (~Tells(mvt) => a = s.active)
    BY Zenon
<1>3. (Arranges(mvt) => b = imports) /\ (~Arranges(mvt) => b = s.terms)
    BY Zenon
<1> HIDE DEF a, b
<1>4. SupplierFields(Asked(s, mvt)) /\ Asked(s, mvt).active = a /\ Asked(s, mvt).terms = b
    BY <1>1 DEF SupplierFields
<1> QED
    BY Zenon, <1>2, <1>3, <1>4

\* What merging a line leaves, field by field.
LEMMA MergedIs ==
    ASSUME NEW s, NEW mvt
    PROVE  /\ SupplierFields(Merged(s, mvt)) /\ Merged(s, mvt).known
           /\ Tells(mvt) => Merged(s, mvt).active = Opens(mvt)
           /\ ~Tells(mvt) => Merged(s, mvt).active = (s.known => s.active)
           /\ Arranges(mvt) => Merged(s, mvt).terms = imports
           /\ ~Arranges(mvt) => Merged(s, mvt).terms = s.terms
<1> DEFINE k == TRUE
           a == IF Tells(mvt) THEN Opens(mvt) ELSE (s.known => s.active)
           b == IF Arranges(mvt) THEN imports ELSE s.terms
<1>1. Merged(s, mvt) = [known |-> k, active |-> a, terms |-> b] /\ k
    BY Zenon DEF Merged
<1>2. (Tells(mvt) => a = Opens(mvt)) /\ (~Tells(mvt) => a = (s.known => s.active))
    BY Zenon
<1>3. (Arranges(mvt) => b = imports) /\ (~Arranges(mvt) => b = s.terms)
    BY Zenon
<1> HIDE DEF k, a, b
<1>4. /\ SupplierFields(Merged(s, mvt)) /\ Merged(s, mvt).known = k
      /\ Merged(s, mvt).active = a /\ Merged(s, mvt).terms = b
    BY <1>1 DEF SupplierFields
<1> QED
    BY Zenon, <1>1, <1>2, <1>3, <1>4

\* Suppliers that agree are asked the same.
LEMMA AskedAgree ==
    ASSUME NEW s, NEW u, NEW mvt, SupplierFields(s), SupplierFields(u), Agree(s, u)
    PROVE  Agree(Asked(s, mvt), Asked(u, mvt))
BY AskedIs DEF Agree

\* Merging a line gives what it asks, to a supplier that is known or that it names.
LEMMA MergedAgree ==
    ASSUME NEW s, NEW mvt, SupplierFields(s), s.active \in BOOLEAN, s.known \/ Names(mvt)
    PROVE  /\ Agree(Merged(s, mvt), Asked(s, mvt))
           /\ Agree(Asked(Merged(s, mvt), mvt), Merged(s, mvt))
<1>1. Names(mvt) => Tells(mvt)
    BY DEF Names, Tells
<1>2. ASSUME ~Tells(mvt) PROVE (s.known => s.active) = s.active
    BY Zenon, <1>1, <1>2
<1>3. Merged(s, mvt).active = Asked(s, mvt).active
  <2>1. CASE Tells(mvt)
      BY <2>1, AskedIs, MergedIs
  <2>2. CASE ~Tells(mvt)
    <3>1. Merged(s, mvt).active = (s.known => s.active) /\ Asked(s, mvt).active = s.active
        BY <2>2, AskedIs, MergedIs
    <3> QED
        BY Zenon, <1>2, <2>2, <3>1
  <2> QED
      BY <2>1, <2>2
<1>4. Merged(s, mvt).terms = Asked(s, mvt).terms
  <2>1. CASE Arranges(mvt)
      BY <2>1, AskedIs, MergedIs
  <2>2. CASE ~Arranges(mvt)
      BY <2>2, AskedIs, MergedIs
  <2> QED
      BY <2>1, <2>2
<1>5. SupplierFields(Merged(s, mvt))
    BY MergedIs
<1>6. Asked(Merged(s, mvt), mvt).active = Merged(s, mvt).active
    BY <1>5, AskedIs, MergedIs
<1>7. Asked(Merged(s, mvt), mvt).terms = Merged(s, mvt).terms
    BY <1>5, AskedIs, MergedIs
<1> QED
    BY <1>3, <1>4, <1>6, <1>7 DEF Agree

\* A line that is read asks of its supplier, in the dictionary and in the history alike.
LEMMA ReadLineKeeps ==
    ASSUME CatalogueInv, LinesInv, UNCHANGED calm, NEW d \in Glns, NEW mvt, ReadLine(d, mvt)
    PROVE  LinesInv'
<1> SUFFICES ASSUME calm
             PROVE  /\ DOMAIN import'.want = Glns
                    /\ \A g \in Glns : SupplierFields(import'.want[g]) /\ LineOK(g)'
    BY DEF LinesInv
<1>1. ImportOK /\ SuppliersOK
    BY DEF CatalogueInv
<1>2. DOMAIN import = DOMAIN NoImport
    BY <1>1, NoImportIs DEF ImportOK
<1>3. /\ import.at = "distributors" /\ d \notin import.record
      /\ DOMAIN import'.lines = DOMAIN import.lines \cup {d}
      /\ \A h \in DOMAIN import'.lines : import'.lines[h] = IF h = d THEN mvt ELSE import.lines[h]
      /\ import'.record = import.record \cup {d} /\ import'.added = import.added \ {d}
      /\ import'.want = [import.want EXCEPT ![d] = Asked(import.want[d], mvt)]
      /\ UNCHANGED <<suppliers, imports>>
    BY Zenon, <1>2, LineRead
<1>4. /\ DOMAIN import.want = Glns
      /\ \A g \in Glns : SupplierFields(import.want[g]) /\ LineOK(g)
    BY <1>3 DEF LinesInv
<1>5. /\ DOMAIN import'.want = Glns /\ import'.want[d] = Asked(import.want[d], mvt)
      /\ \A g \in Glns : g # d => import'.want[g] = import.want[g]
    BY <1>3, <1>4
<1>6. SupplierFields(import'.want[d]) /\ LineOK(d)'
  <2>1. Agree(import.want[d], suppliers[d]) /\ SupplierFields(suppliers[d])
      BY <1>1, <1>3, <1>4 DEF LineOK, SuppliersOK, SupplierFields
  <2>2. Agree(import'.want[d], Asked(suppliers[d], mvt)) /\ SupplierFields(import'.want[d])
      BY <1>4, <1>5, <2>1, AskedAgree, AskedIs
  <2>3. Asked(suppliers[d], import.lines[d])' = Asked(suppliers[d], mvt)
    <3>1. suppliers'[d] = suppliers[d] /\ import'.lines[d] = mvt /\ imports' = imports
        BY <1>3
    <3> QED
        BY Zenon, <3>1 DEF Asked
  <2>4. d \in import'.record /\ d \in DOMAIN import'.lines /\ d \notin import'.added
      BY <1>3
  <2> QED
      BY <2>2, <2>3, <2>4 DEF LineOK
<1>7. ASSUME NEW g \in Glns, g # d PROVE SupplierFields(import'.want[g]) /\ LineOK(g)'
  <2>1. /\ import'.want[g] = import.want[g] /\ suppliers'[g] = suppliers[g]
        /\ g \in import'.record <=> g \in import.record
        /\ g \in import'.added <=> g \in import.added
        /\ g \in DOMAIN import'.lines <=> g \in DOMAIN import.lines
        /\ g \in DOMAIN import.lines => import'.lines[g] = import.lines[g]
      BY <1>3, <1>5, <1>7
  <2>2. ASSUME g \in DOMAIN import.lines
        PROVE  Asked(suppliers[g], import.lines[g])' = Asked(suppliers[g], import.lines[g])
      BY <1>3, <2>1, <2>2 DEF Asked
  <2>3. SupplierFields(import.want[g]) /\ LineOK(g)
      BY <1>4
  <2> QED
      BY <2>1, <2>2, <2>3 DEF LineOK
<1> QED
    BY <1>5, <1>6, <1>7

\* The merge of a record gives every supplier what the lines ask.
LEMMA SyncKeeps ==
    ASSUME CatalogueInv, LinesInv, UNCHANGED calm, SyncDistributors
    PROVE  LinesInv'
<1> DEFINE lines == import.lines
           new == {g \in DOMAIN lines : ~suppliers[g].known}
<1> SUFFICES ASSUME calm, import'.at = "distributors"
             PROVE  /\ DOMAIN import'.want = Glns
                    /\ \A g \in Glns : SupplierFields(import'.want[g]) /\ LineOK(g)'
    BY DEF LinesInv
<1>1. ImportOK /\ SuppliersOK /\ import.at = "distributors" /\ imports' = imports
    BY DEF CatalogueInv, SyncDistributors
<1>2. /\ suppliers' = [g \in Glns |->
                        IF g \in DOMAIN lines \ import.added THEN Merged(suppliers[g], lines[g])
                        ELSE suppliers[g]]
      /\ import' = [import EXCEPT !.record = {}, !.added = import.added \cup new]
      /\ \A g \in new : Names(lines[g])
  <2>1. import' # NoImport
      BY NoImportIs
  <2> QED
      BY Zenon, <2>1 DEF SyncDistributors
<1>3. /\ DOMAIN import.want = Glns
      /\ \A g \in Glns : SupplierFields(import.want[g]) /\ LineOK(g)
    BY <1>1 DEF LinesInv
<1>4. /\ import'.want = import.want /\ import'.lines = lines /\ import'.record = {}
  <2>1. DOMAIN import = DOMAIN NoImport
      BY <1>1, NoImportIs DEF ImportOK
  <2> HIDE DEF new, lines
  <2>2. import'.want = import.want /\ import'.lines = import.lines /\ import'.record = {}
      BY <1>2, <2>1, NoImportIs
  <2> QED
      BY <2>2 DEF lines
<1>5. ASSUME NEW g \in Glns PROVE LineOK(g)'
  <2>1. /\ LineOK(g) /\ SupplierFields(suppliers[g]) /\ suppliers[g].active \in BOOLEAN
        /\ suppliers'[g] = IF g \in DOMAIN lines \ import.added THEN Merged(suppliers[g], lines[g])
                           ELSE suppliers[g]
      BY <1>1, <1>2, <1>3 DEF SuppliersOK, SupplierFields
  <2>2. SUFFICES /\ Agree(import.want[g], suppliers'[g])
                 /\ g \in DOMAIN lines =>
                      suppliers'[g].known /\ Agree(Asked(suppliers'[g], lines[g]), suppliers'[g])
    <3>1. Asked(suppliers[g], import.lines[g])' = Asked(suppliers'[g], lines[g])
        BY <1>1, <1>4 DEF Asked
    <3> QED
        BY <1>4, <3>1 DEF LineOK
  <2>4. CASE g \notin DOMAIN lines
      BY <2>1, <2>4 DEF LineOK
  <2>5. CASE g \in DOMAIN lines /\ g \in import.added
    <3>1. g \notin import.record /\ suppliers'[g] = suppliers[g]
        BY <2>1, <2>5 DEF LineOK
    <3> QED
        BY <2>1, <2>5, <3>1 DEF LineOK
  <2>6. CASE g \in DOMAIN lines /\ g \notin import.added
    <3> DEFINE s == suppliers[g]
               m == lines[g]
    <3>1. suppliers'[g] = Merged(s, m) /\ (s.known \/ Names(m))
        BY <1>2, <2>1, <2>6
    <3>2. Agree(Merged(s, m), Asked(s, m)) /\ Agree(Asked(Merged(s, m), m), Merged(s, m))
        BY <2>1, <3>1, MergedAgree
    <3>3. Merged(s, m).known
        BY MergedIs
    <3>4. Agree(import.want[g], Asked(s, m))
        BY <2>1, <2>6 DEF LineOK, Agree
    <3> HIDE DEF s, m
    <3>5. Agree(import.want[g], Merged(s, m))
        BY <3>2, <3>4 DEF Agree
    <3> QED
        BY <3>1, <3>2, <3>3, <3>5 DEF m
  <2> QED
      BY <2>4, <2>5, <2>6
<1> QED
    BY <1>3, <1>4, <1>5

\* The other steps of an import and of the screens leave the suppliers and the lines alone.
LEMMA LinesKept == CatalogueInv /\ LinesInv /\ [CatalogueNext]_catalogueVars => LinesInv'
<1> SUFFICES ASSUME CatalogueInv, LinesInv, [CatalogueNext]_catalogueVars, calm', import'.at = "distributors"
             PROVE  LinesInv'
    BY DEF LinesInv
<1>1. calm /\ UNCHANGED calm
    BY DEF CatalogueNext, catalogueVars
<1>2. CASE UNCHANGED <<import, imports, suppliers>>
    BY <1>1, <1>2 DEF LinesInv, LineOK, Asked
<1>3. CASE BeginImport
  <2>1. import' = [NoImport EXCEPT !.at = "distributors", !.want = suppliers] /\ suppliers' = suppliers
      BY <1>3 DEF BeginImport
  <2>2. /\ import'.want = suppliers' /\ import'.record = {} /\ DOMAIN import'.lines = {}
    <3>1. NoImport.record = {}
        BY DEF NoImport
    <3> QED
        BY <2>1, <3>1, NoImportIs
  <2>3. SuppliersOK'
      BY <2>1 DEF CatalogueInv, SuppliersOK
  <2>4. DOMAIN import'.want = Glns /\ \A g \in Glns : SupplierFields(import'.want[g])
      BY <2>2, <2>3 DEF SuppliersOK, SupplierFields
  <2>5. ASSUME NEW g \in Glns PROVE LineOK(g)'
      BY <2>2 DEF LineOK, Agree
  <2> QED
      BY <2>4, <2>5 DEF LinesInv
<1>4. CASE SyncDistributors
    BY <1>1, <1>4, SyncKeeps
<1>5. CASE \E g \in Glns, mvt \in Movements : ReadLine(g, mvt)
    BY <1>1, <1>5, ReadLineKeeps
<1>6. CASE CatalogueStep
  <2>1. ImportOK
      BY DEF CatalogueInv
  <2>2. ASSUME NEW g \in Glns, CreateSupplier(g) \/ EditSupplier(g) \/ ToggleSupplier(g) PROVE FALSE
    <3>1. import' = import /\ import.at = "idle"
        BY <1>1, <2>2 DEF CreateSupplier, EditSupplier, ToggleSupplier, MayAct
    <3> QED
        BY <3>1
  <2>3. CASE NextDay \/ \E r \in Rates : CloseRate(r)
      BY <1>2, <2>3 DEF NextDay, CloseRate
  <2>4. CASE \E e \in Products : CreateProduct(e) \/ ToggleProduct(e) \/ AddToDilicom(e)
      BY <1>2, <2>4 DEF CreateProduct, ToggleProduct, AddToDilicom
  <2>5. CASE \E t \in Clerks : LoadProduct(t) \/ SaveProduct(t) \/ \E e \in Products : OpenScreen(t, e)
      BY <1>2, <2>5 DEF LoadProduct, SaveProduct, OpenScreen
  <2>6. ASSUME NEW e \in Products PROVE ~MergeNotice(e) /\ ~MissNotice(e)
    <3>1. ASSUME MergeNotice(e) PROVE FALSE
      <4>1. PICK i : i = [import EXCEPT !.read = @ + 1]
          OBVIOUS
      <4>2. import.at = "books"
          BY <3>1 DEF MergeNotice
      <4>3. GoesOn(i)
          BY <2>1, <4>1, <4>2 DEF GoesOn, ImportOK
      <4>4. \E told \in Notices : import' = After(i, e, NoticeRows(told))
          BY <3>1, <4>1 DEF MergeNotice, Merge
      <4>5. import'.at = "books"
          BY <4>3, <4>4, AfterIs
      <4> QED
          BY <4>5
    <3>2. ASSUME MissNotice(e) PROVE FALSE
        BY <2>1, <3>2 DEF MissNotice, ImportOK
    <3> QED
        BY <3>1, <3>2
  <2>7. ~Recover /\ ~CommitBooks /\ ~MarkImported /\ ~EndImport /\ ~Stop /\ ~EndDistributors /\ ~UpdateServices
    <3>1. import' # NoImport
        BY NoImportIs
    <3>2. ~MarkImported /\ ~EndImport /\ ~Stop
        BY <2>1, <3>1 DEF MarkImported, EndImport, Stop, ImportOK
    <3>3. ~CommitBooks
        BY <2>1 DEF CommitBooks, ImportOK
    <3>4. ASSUME Recover PROVE FALSE
      <4> DEFINE c == CHOOSE x \in import.unknown : TRUE
      <4>1. import.at = "refused" /\ (~InCatalogue(c) => import' = NoImport)
          BY <3>4 DEF Recover
      <4>2. c \in import.unknown
          BY <2>1, <4>1 DEF ImportOK
      <4> HIDE DEF c
      <4>3. ~InCatalogue(c)
          BY <1>1, <4>1, <4>2 DEF CatalogueInv, CalmOK
      <4> QED
          BY <3>1, <4>1, <4>3
    <3>5. ~EndDistributors /\ ~UpdateServices
        BY <2>1, <3>1, NoImportIs DEF EndDistributors, UpdateServices, ImportOK
    <3> QED
        BY <3>2, <3>3, <3>4, <3>5
  <2> QED
      BY <1>3, <1>4, <1>5, <1>6, <2>2, <2>3, <2>4, <2>5, <2>6, <2>7 DEF CatalogueStep
<1> QED
    BY <1>2, <1>6 DEF CatalogueNext, catalogueVars

\* In a calm behaviour the suppliers are, after each record, as all the lines read so far
\* ask one after another, however the lines are cut into records (_update_distributors).
THEOREM SuppliersFollow == CatalogueSpec => []SuppliersFollowTheirLines
<1>1. CatalogueInit => LinesInv
    BY NoImportIs DEF CatalogueInit, LinesInv
<1>2. CatalogueInv /\ LinesInv => SuppliersFollowTheirLines
    BY DEF CatalogueInv, SuppliersOK, LinesInv, LineOK, Agree, SuppliersFollowTheirLines
<1> QED
    BY <1>1, <1>2, LinesKept, CatalogueInductive, PTL DEF CatalogueSpec

=============================================================================
