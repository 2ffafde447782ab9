------------------------- MODULE DilicomReferential -------------------------
(***************************************************************************)
(* The referential of followed books, kept in dilicom_referential and      *)
(* mirrored at Dilicom (db_models/repositories/stocks/dilicom.py and       *)
(* db_models/services/dilicom/base.py).                                    *)
(*                                                                         *)
(*   - a tab of the stock search opens the modal of a book, which offers   *)
(*     to add or to remove it; the request reads the last row of the EAN   *)
(*     and commits its flags later, or inserts a row when there was none;  *)
(*   - a task, started by cron or by hand, reads the rows not yet          *)
(*     synchronised, uploads one movement for each, then marks the rows it *)
(*     read;                                                               *)
(*   - the import of the ONIX files marks the rows of the books it stored. *)
(*                                                                         *)
(* An UPDATE names only the columns whose value differs from the one read. *)
(* Dilicom is external: it applies a file when it receives it and sends    *)
(* notices of the books it follows for this shop.                          *)
(***************************************************************************)
EXTENDS Integers, Sequences

CONSTANTS
    Eans,           \* the books, by EAN13
    Tabs,           \* browser tabs, each with one request at a time
    Tasks,          \* processes that run send_updates or fetch_returns
    Imports,        \* notices are imported
    Faults,         \* uploads fail, processes die
    Exclusive       \* one request or task at a time touches the table

ASSUME ReferentialAssumption ==
    /\ Imports \in BOOLEAN /\ Faults \in BOOLEAN /\ Exclusive \in BOOLEAN

VARIABLES
    rows,           \* the rows of dilicom_referential, by created_at
    known,          \* Dilicom: EAN -> the shop follows it
    tabs,           \* tab -> the modal or the request it is busy with
    tasks           \* task -> what it does

vars == <<rows, known, tabs, tasks>>

Row == [ean : Eans, create : BOOLEAN, delete : BOOLEAN, synced : BOOLEAN]

\* was: the row as it was read, id: which one it is, 0 when there was none.
Tab == [at : {"home"}]
       \union [at : {"modal"}, ean : Eans, create : BOOLEAN]
       \union [at : {"toggling"}, id : Nat, was : Row, create : BOOLEAN]
Task == [at : {"idle"}]
        \union [at : {"uploading"}, read : SUBSET [id : Nat, row : Row]]
        \union [at : {"marking"}, ids : SUBSET Nat]
        \union [at : {"importing"}, id : Nat, was : Row]

TypeOK ==
    /\ rows \in Seq(Row)
    /\ known \in [Eans -> BOOLEAN]
    /\ tabs \in [Tabs -> Tab]
    /\ tasks \in [Tasks -> Task]

Init ==
    /\ rows = <<>>
    /\ known = [e \in Eans |-> FALSE]
    /\ tabs = [t \in Tabs |-> [at |-> "home"]]
    /\ tasks = [k \in Tasks |-> [at |-> "idle"]]

-----------------------------------------------------------------------------
RowsOf(e) == {i \in DOMAIN rows : rows[i].ean = e}

\* get_last_by_ean13.
IsLast(i) == \A j \in RowsOf(rows[i].ean) : j <= i

\* Nobody else is between its read and its commit.
Alone ==
    Exclusive => /\ \A t \in Tabs : tabs[t].at # "toggling"
                 /\ \A k \in Tasks : tasks[k].at = "idle"

-----------------------------------------------------------------------------
(* The modal of a book and the request it sends.                           *)

\* get_dilicom_referencial: the modal offers to add a book with no row or
\* deleted at Dilicom, to remove one that is active, and nothing in between.
OpenModal(t, e) ==
    /\ tabs[t].at = "home"
    /\ \E create \in BOOLEAN :
         /\ IF create THEN \A i \in RowsOf(e) : IsLast(i) => rows[i].delete /\ rows[i].synced
                      ELSE \E i \in RowsOf(e) : IsLast(i) /\ rows[i].create /\ rows[i].synced
         /\ tabs' = [tabs EXCEPT ![t] = [at |-> "modal", ean |-> e, create |-> create]]
    /\ UNCHANGED <<rows, known, tasks>>

CloseModal(t) ==
    /\ tabs[t].at = "modal"
    /\ tabs' = [tabs EXCEPT ![t] = [at |-> "home"]]
    /\ UNCHANGED <<rows, known, tasks>>

NewRow(e) == [ean |-> e, create |-> FALSE, delete |-> FALSE, synced |-> FALSE]

\* Mutation of Submit: the row of the book is not looked for.
MutSubmit(t) ==
    /\ tabs[t].at = "modal"
    /\ Alone
    /\ tabs' = [tabs EXCEPT ![t] = [at |-> "toggling", id |-> 0,
                                    was |-> NewRow(@.ean), create |-> @.create]]
    /\ UNCHANGED <<rows, known, tasks>>

\* add_object_to_dilicom, remove_object_from_dilicom up to the commit:
\* create_status reads the last row; a removal needs one.
Submit(t) ==
    LET m == tabs[t] IN
    /\ m.at = "modal"
    /\ Alone
    /\ \/ \E i \in RowsOf(m.ean) :
            /\ IsLast(i)
            /\ tabs' = [tabs EXCEPT ![t] = [at |-> "toggling", id |-> i,
                                            was |-> rows[i], create |-> m.create]]
       \/ /\ RowsOf(m.ean) = {}
          /\ tabs' = [tabs EXCEPT ![t] =
               IF m.create THEN [at |-> "toggling", id |-> 0,
                                 was |-> NewRow(m.ean), create |-> TRUE]
                           ELSE [at |-> "home"]]
    /\ UNCHANGED <<rows, known, tasks>>

Changed(old, new, now) == IF old = new THEN now ELSE new

\* Mutation of Toggled: a removal leaves the creation flag.
MutToggled(now, was, create) ==
    [now EXCEPT !.create = @ \/ create,
                !.delete = Changed(was.delete, ~create, @),
                !.synced = FALSE]

\* The flags of "to_create" and "to_delete".
Toggled(now, was, create) ==
    [now EXCEPT !.create = Changed(was.create, create, @),
                !.delete = Changed(was.delete, ~create, @),
                !.synced = Changed(was.synced, FALSE, @)]

\* Mutation of CommitToggle: the row keeps its synchronised flag.
MutCommitToggle(t) ==
    LET q == tabs[t] IN
    /\ q.at = "toggling"
    /\ rows' = IF q.id = 0 THEN Append(rows, Toggled(q.was, q.was, q.create))
                           ELSE [rows EXCEPT ![q.id] =
                                   [Toggled(@, q.was, q.create) EXCEPT !.synced = q.was.synced]]
    /\ tabs' = [tabs EXCEPT ![t] = [at |-> "home"]]
    /\ UNCHANGED <<known, tasks>>

\* create_status: INSERT, or UPDATE of the changed columns.
CommitToggle(t) ==
    LET q == tabs[t] IN
    /\ q.at = "toggling"
    /\ rows' = IF q.id = 0 THEN Append(rows, Toggled(q.was, q.was, q.create))
                           ELSE [rows EXCEPT ![q.id] = Toggled(@, q.was, q.create)]
    /\ tabs' = [tabs EXCEPT ![t] = [at |-> "home"]]
    /\ UNCHANGED <<known, tasks>>

\* The worker dies or the commit fails: rollback.
AbortToggle(t) ==
    /\ Faults
    /\ tabs[t].at = "toggling"
    /\ tabs' = [tabs EXCEPT ![t] = [at |-> "home"]]
    /\ UNCHANGED <<rows, known, tasks>>

-----------------------------------------------------------------------------
(* send_updates.                                                           *)

Unsynced == {i \in DOMAIN rows : ~rows[i].synced}

\* The rows to send; with none the file is not built (ValueError).
ReadUnsynced(k) ==
    /\ tasks[k].at = "idle"
    /\ Alone
    /\ Unsynced # {}
    /\ tasks' = [tasks EXCEPT ![k] =
         [at |-> "uploading", read |-> {[id |-> i, row |-> rows[i]] : i \in Unsynced}]]
    /\ UNCHANGED <<rows, known, tabs>>

\* The directions that a file holds for a book, one line per row.
Sent(read, e) == {x.row.create : x \in {y \in read : y.row.ean = e}}

\* _build_refel_content and the SFTP upload. The query has no order: of two
\* lines for one book, either may come last.
Upload(k) ==
    LET q == tasks[k] IN
    /\ q.at = "uploading"
    /\ known' \in {f \in [Eans -> BOOLEAN] :
         \A e \in Eans : f[e] \in (IF Sent(q.read, e) = {} THEN {known[e]} ELSE Sent(q.read, e))}
    /\ tasks' = [tasks EXCEPT ![k] = [at |-> "marking", ids |-> {x.id : x \in q.read}]]
    /\ UNCHANGED <<rows, tabs>>

\* Mutation of MarkSynced: the commit is forgotten.
MutMarkSynced(k) ==
    /\ tasks[k].at = "marking"
    /\ tasks' = [tasks EXCEPT ![k] = [at |-> "idle"]]
    /\ UNCHANGED <<rows, known, tabs>>

\* dilicom_synced is set on the rows that were read, whatever they are now.
MarkSynced(k) ==
    /\ tasks[k].at = "marking"
    /\ rows' = [i \in DOMAIN rows |->
                  IF i \in tasks[k].ids THEN [rows[i] EXCEPT !.synced = TRUE] ELSE rows[i]]
    /\ tasks' = [tasks EXCEPT ![k] = [at |-> "idle"]]
    /\ UNCHANGED <<known, tabs>>

\* The upload fails, or the process dies before or after it.
AbortTask(k) ==
    /\ Faults
    /\ tasks[k].at # "idle"
    /\ tasks' = [tasks EXCEPT ![k] = [at |-> "idle"]]
    /\ UNCHANGED <<rows, known, tabs>>

-----------------------------------------------------------------------------
(* fetch_returns, for one notice.                                          *)

\* update_status reads the last row; a final row is left alone.
ReadNotice(k, e) ==
    /\ Imports
    /\ tasks[k].at = "idle"
    /\ Alone
    /\ known[e]
    /\ \E i \in RowsOf(e) :
         /\ IsLast(i)
         /\ ~rows[i].synced
         /\ tasks' = [tasks EXCEPT ![k] = [at |-> "importing", id |-> i, was |-> rows[i]]]
    /\ UNCHANGED <<rows, known, tabs>>

\* "to_create" becomes "created", "to_delete" becomes "deleted": the direction
\* is the one that was read, so only dilicom_synced is written.
MarkNotice(k) ==
    /\ tasks[k].at = "importing"
    /\ rows' = [rows EXCEPT ![tasks[k].id].synced = TRUE]
    /\ tasks' = [tasks EXCEPT ![k] = [at |-> "idle"]]
    /\ UNCHANGED <<known, tabs>>

-----------------------------------------------------------------------------
Next ==
    \/ \E t \in Tabs :
         \/ \E e \in Eans : OpenModal(t, e)
         \/ CloseModal(t) \/ Submit(t) \/ CommitToggle(t) \/ AbortToggle(t)
    \/ \E k \in Tasks :
         \/ ReadUnsynced(k) \/ Upload(k) \/ MarkSynced(k) \/ AbortTask(k)
         \/ \E e \in Eans : ReadNotice(k, e)
         \/ MarkNotice(k)

Spec == Init /\ [][Next]_vars

\* cron calls send_updates every day, whatever imports it ran before, and a
\* started task ends; a request that was sent is served. Nobody is obliged to
\* open a modal.
Fairness ==
    /\ \A k \in Tasks :
         /\ SF_vars(ReadUnsynced(k))
         /\ WF_vars(Upload(k) \/ MarkSynced(k) \/ MarkNotice(k))
    /\ \A t \in Tabs : WF_vars(CommitToggle(t))

-----------------------------------------------------------------------------
(* Properties.                                                             *)

OneDirection(row) == row.create = ~row.delete

\* A row asks either for the creation or for the deletion of its book,
\* whatever the tabs interleave: to_pipe and _get_status raise on any other
\* row, and one such row would block the file of all the others.
DirectionKept == \A i \in DOMAIN rows : OneDirection(rows[i])

\* What the search page shows as settled is so at Dilicom: a book shown
\* active is followed, a book shown inactive is not.
StatusIsTrue ==
    /\ \A i \in DOMAIN rows : IsLast(i) /\ rows[i].synced => known[rows[i].ean] = rows[i].create
    /\ \A e \in Eans : RowsOf(e) = {} => ~known[e]

\* A book has one row at most (GeneralObjects.dilicom_referencial is scalar).
OneRowPerEan ==
    \A i, j \in DOMAIN rows : rows[i].ean = rows[j].ean => i = j

\* The changes of a book leave the queue at last ("à la prochaine
\* synchronisation" in dilicom_modal.html), while the tabs go on changing
\* others and when two rows of the book exist, provided that the uploads work.
ChangesAreSent ==
    \A e \in Eans :
      (\E i \in RowsOf(e) : ~rows[i].synced) ~> (\A i \in RowsOf(e) : rows[i].synced)
=============================================================================
