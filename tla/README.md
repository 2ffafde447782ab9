# Sauvetage: a verification project

Sauvetage is the management system of a bookshop: its stock, the orders it
sends to its suppliers, its counter and web customers, its invoices and the
exchanges with three outside services (Henrri for invoicing, Dilicom for the
book referential and the orders, WooCommerce for the web shop). It is a Flask
front end, a FastAPI back end and a shared library of models and services over
PostgreSQL and MongoDB.

This directory holds TLA+ models of the parts of it whose correctness depends
on the order of steps, TLC configurations that check them on small instances,
and TLAPS proofs of what holds for every size of the instance. All paths below
are relative to `src/`.

1. [Inventory](#1-inventory) of the system and of what must be right in it
2. [Modules](#2-modules) and how their states and actions correspond to the code
3. [Runs](#3-runs), bounds and fairness
4. [Findings](#4-findings)
5. [Proofs](#5-proofs)
6. [What is not modelled](#6-what-is-not-modelled)
7. [Plan](#7-plan)

## 1. Inventory

### Processes and shared state

| Process | Where | Concurrency |
| --- | --- | --- |
| `app_front` (Flask) | `app_front/` | gunicorn, 4 synchronous workers (`app_front/entrypoint.sh:84`), several users with several tabs |
| `app_back` (FastAPI) | `app_back/` | gunicorn with 4 uvicorn workers (`app_back/bootstrap.py:171-180`), background tasks, threads started by a request |
| cron | `app_back/run-dilicom-cron.sh` | `send_updates` once a day, `fetch_returns` every hour of the morning, with a client time-out of 180 s; the crons of the shop (`app_back/bootstrap.py`): orders every two hours of the day, rates of VAT every night |
| Traefik, PostgreSQL, MongoDB, backups | `proxy/`, `backup/`, compose files | outside |

Two facts shape everything below.

* **No row is locked.** PostgreSQL runs READ COMMITTED, the SQLAlchemy session
  of a request reads once and keeps what it read, and `UPDATE` names only the
  columns that differ from that read, without checking that they are still the
  same. A request is therefore *two* steps, the read with its checks and the
  commit, and anything may come in between. There is no version column, no
  `SELECT ... FOR UPDATE`; where a unique constraint guards what a check looked
  for (invoice references, identifiers of the shop, addresses), the second
  commit fails, and elsewhere nothing does.
* **A page is older than its request.** The templates show the buttons allowed
  by the state they were rendered with, and the routes check only part of it
  again.

MongoDB is used differently: the Henrri credits are changed by single guarded
updates (`find_one_and_update`), which are atomic.

### Components

| Component | State | Operations | What is hard | What makes it correct |
| --- | --- | --- | --- | --- |
| Henrri monthly credits (`db_models/services/henrri/monthly_credits.py`, `base.py`) | one MongoDB document per UTC month: consumed counter, reservation tokens | reserve, confirm, cancel, seed of the first month | processes that race for the last credit, lost answers, crashes, month change | the month never exceeds its quota; an executed write is always charged; a failed one never is; an ordinary request leaks no credit |
| Supplier orders, returns, reservations (`db_models/repositories/stocks/orders.py`, `app_front/blueprints/stock`) | `order_in`, `order_in_lines`, `inventory_movements` | create, edit, delete a line, confirm, cancel, receive (full, partial, with cancellation), give back, close | several tabs on one order, splits of lines, two transactions per reception, crashes | each pending line has its own movement, of its object and quantity; stock and theoretical stock are explained by the lines; orders close with their last line; nothing is received twice or reserved twice |
| Dilicom referential (`db_models/repositories/stocks/dilicom.py`, `db_models/services/dilicom/base.py`) | `dilicom_referential`: direction and synchronised flag of a book | add, remove, send the movements, import notices | modal older than the row, a row changed during the upload, imports, two rows for a book | what the shop shows as settled is so at Dilicom; a row asks for one direction; every change is sent |
| Inventory workflow (`app_back/v1/inventory.py`, `app_front/static/js/inventory/status.js`) | inventory movements, a status file | parse, prepare, validate, commit in a thread, poll | movements between count and commit, two commits, shared status file | stock equals what was counted plus what moved since; the page announces a success only after a commit |
| Customer orders, shipments, invoices (`db_models/repositories/orders`, `invoices.py`, `shipments.py`, `app_front/blueprints/order/utils.py`) | `orders`, `order_lines`, reservation movements, `invoices`, `shipments`, alerts | create, add, change and remove a line, invoice in parts, ship, cancel, return | line and movement committed apart, invoice committed before its lines are marked, a session that is committed even after a refusal, two invoices that read the same last number | what a line says and what its invoices and shipments say agree; the reservation is the sum of the lines; nothing is shipped that no invoice billed; numbers have no gap and no double |
| Henrri synchronisation (`db_models/services/henrri/`, `app_front/blueprints/order/utils_henrri.py`) | identifiers of customers, contacts, products, documents and lines, a log | upload an invoice step by step, try again, push customers | a refusal, a lost answer or a death between two steps, then another attempt | an attempt after a refusal duplicates nothing; a success in the log is a complete, finalised document |
| WooCommerce orders (`db_models/services/woo_commerce/orders.py`, `repositories/orders/woo.py`) | identifiers of orders and of their lines, the orders of the shop | import, cancel, push, by a periodic task and by the pages | answers lost and calls repeated, a task whose session commits in the middle, customers who cancel meanwhile | an order of the shop is one of the ERP; after a push both have the same lines and one fee; no cancellation is overwritten unseen |
| WooCommerce catalogue (`db_models/services/woo_commerce/products`) | identifiers of products and variations, the products of the shop | compare and push all in batches, push one | the catalogue is read once and written in many batches while tabs push | links never cross; what is told as a success is true |
| VAT rates (`db_models/services/vat.py`, `woo_commerce/products/vat.py`) | the dated rates, the classes and taxes of the shop | create, replace, close, reconcile now or at night | taxes matched by class or by identifier, a unique identifier, an error that is told but not kept | a code has one rate at any instant; the nights bring the taxes to the rates |
| Partner synchronisation (`db_models/services/sync`, `repositories/customers.py`) | customers, their addresses, links and copies, a log | push one, push all, import with the orders | identifiers and log wait for a commit that another customer's link may make or roll back | no account of somebody else; no second copy; what is told is logged |
| Catalogue and Dilicom imports (`db_models/repositories/objects`, `services/dilicom/base.py`) | products, history of prices, suppliers, marks of the referential | import distributors and notices, save a screen | a screen replaces the rows it has shown, a batch rolls back as a whole | one price per rate and day; the two computations of the price agree; an import keeps the future prices; only what is imported is marked |
| Accounts (`app_back/v1/user.py`, `repositories/user.py`, `user_session.py`) | users, passwords with dates, failure counter, sessions | login, logout, change of password, lock, administration | requests read first and commit twice | everyone keeps a password of their own; a new password ends the old sessions; three failures lock |
| Documents, mails, dashboard, logs, administration | single rows | forms, PDF, SMTP | — | database constraints |
| Bootstrap, migrations, backups | outside tools | start-up, dump, restore | — | — |

Components interact through the database and through direct calls: the pages
call the repositories and the Henrri services in the request; the Henrri
services call the transport, which reserves credits; the supplier orders and
the inventories write to the same `inventory_movements`; the search page of
the stock shows the Dilicom status that the tasks of `app_back` change; an
invoice is committed by `CustomerOrders`, uploaded by `HenrriDocuments`, whose
requests take the credits of `HenrriCredits`; the orders that `WooOrders`
imports bring the customers that `Customers` creates.

`PROJECT.json` lists the components with their state of advancement, and under
`hazards` each place where one of these things bites, with its line.

## 2. Modules

| Module | Role |
| --- | --- |
| `CreditBudget` | abstract: each month spends at most its limit, one write at a time |
| `HenrriCredits` | the credits and the HTTP transport; implements `CreditBudget` |
| `HenrriDocuments` | the upload of invoices, customers and products |
| `HenrriProofs` | the proofs of both |
| `SupplierOrders`, `SupplierOrdersProofs` | orders, lines and movements, from several tabs; their proofs |
| `DilicomReferential`, `DilicomReferentialProofs` | the referential, the tasks and Dilicom; their proofs and those of `Catalogue` |
| `InventoryWorkflow`, `InventoryWorkflowProofs` | inventories, their commit threads and the movements around them; their proofs |
| `CustomerOrders`, `CustomerOrdersProofs` | orders, lines, invoices, shipments, reservations; their proofs |
| `WooOrders` | orders and their copies in the shop |
| `WooCatalogue` | products and their copies in the shop |
| `VatRates` | rates and the taxes of the shop |
| `WooShop`, `WooShopProofs` | composes `WooCatalogue` and `VatRates`; the proofs about both and about `WooOrders` |
| `Customers` | customers, the accounts of the shop, the customers of Henrri |
| `Catalogue` | products, prices and suppliers: screens against imports |
| `Accounts`, `AccountsProofs` | logins, sessions, passwords, locks; their proofs and those of `Customers` |
| `Sums` | the theory of sums over finite sets that the ledgers need |
| `MC...` | the instances that TLC checks |

Most of what is right in this code is so under conditions only: one tab or one
task at a time, users who do not type certain things, workers that live. Such a
condition is a *rigid* Boolean variable of the module (`calm`, `serial`,
`alone`, `apart`, `stays`, the negation of `sloppy`): chosen at first, never changed, it
restricts what may start, what may be typed and whether anything dies, and the
properties that need it begin with it (`calm => ...`). The same specification
then says what holds in careful use and what holds whatever happens, and the
proofs are about both. In `DilicomReferential` and `InventoryWorkflow` the
conditions are constants.

An `MC` module often checks its module in several environments at once: the
rigid variable, or a variable `mode` chosen at first, selects an `INSTANCE` of
the module with constants of its own; a property of the other modules that
holds in one environment only says so in its name and in its guard
(`mode = "calm" => ...`). The environment of the cfg's own constants comes
first.

Definitions called `Mut...` are deliberate mistakes, each set beside the
definition it replaces; no specification uses them. They document which error
each property is able to catch.

### HenrriCredits

| Model | Code |
| --- | --- |
| `month` | the UTC calendar (`_ensure_month`) |
| `consumed[m]`, `reservations[m]` | the fields of the month's document |
| `call[c]` | where a process is in `HenrriBaseClient._request`: nothing, about to reserve, about to send, about to settle |
| `written[m]` | external: the writes that Henrri executed |
| `confirmed`, `issued` | history, used by properties only (and to make uuid4 tokens fresh) |
| `ReadMonth`, `Reserve`, `Refuse` | `reserve()`, whose clock reading and update are separate steps |
| `Send` | the HTTP call with its four outcomes: 2xx, refused, executed without an answer, not executed without an answer |
| `Confirm`, `Cancel`, `SettleUnavailable` | `_settle` |
| `Crash`, `NewMonth` | a process dies; the month ends, possibly in the middle of a request |

The transport treats any answer that is not 2xx as a write that did not happen
and gives its credit back. That Henrri never executes a write that it answers
with an error is an assumption about Henrri, made by the code and kept by the
model.

### SupplierOrders

| Model | Code |
| --- | --- |
| `orders` | `order_in`: state and prefix (`CMD-`, `RET-`, `RES-`) |
| `lines` | `order_in_lines` in creation order; a deleted row stays as a tombstone so that identifiers are never reused |
| `moves` | `inventory_movements` since the last inventory |
| `tabs[t]` | a page as it was rendered, a request with what it read, or a reception about to close its order |
| `OpenPage`, `Post...` | the page; the reading half of a request with every check of its route and repository method |
| `Commit...` | the writing half: `edit_order_in_line_db`, `delete_order_in_line_db`, `confirm_order`, `cancel_supplier_order`, `receive_order_line`, `return_reservation` |
| `Fail` | a foreign key or an `UPDATE` that finds no row rolls the transaction back |
| `Close` | `_check_order_completion`, a transaction of its own |
| `Crash` | the worker dies before a commit, or between the reception and `Close` |

`Stock` and `TheoreticalStock` are the sums of `stock.py`, `Available` that of
`get_available_quantity`. The objects of `Counted` have an inventory; of the
others a reservation is checked only once they have a movement (`HasHistory`),
and then nothing is available. A compensation is a
movement of the same type with the opposite quantity. In a `calm` behaviour one
tab works at a time, no worker dies, and the operator makes only receptions
that do not meet the two errors of `receive_order_line` (section 4, `Sound`),
so that the rest of the accounting can be checked and proved beyond them.

### DilicomReferential

| Model | Code |
| --- | --- |
| `rows` | `dilicom_referential`, ordered by `created_at` |
| `known[e]` | external: Dilicom follows the book for this shop |
| `tabs[t]` | an open modal, or `create_status` between its read and its commit |
| `tasks[k]` | `send_updates` or `fetch_returns` in progress, with the rows it read |
| `OpenModal`, `Submit`, `CommitToggle`, `AbortToggle` | the modal and the two routes behind it |
| `ReadUnsynced`, `Upload`, `MarkSynced`, `AbortTask` | `send_updates`: query, SFTP upload, marking |
| `ReadNotice`, `MarkNotice` | `update_status` called by the ONIX import |

`Exclusive` keeps requests and tasks from overlapping: it separates what is
wrong with one actor at a time from what only a race breaks.

### InventoryWorkflow

| Model | Code |
| --- | --- |
| `ledger[o]` | the last inventory of a book and, by type, the sums of its movements since (`get_qty_by_id`); an inventory stamped now resets them |
| `due[o]`, `aside[o]` | copies that pending order lines and reservations stand for |
| `shelf[o]`, `lost[o]` | external: the copies really there, and the copies gone without a movement since the last inventory (history) |
| `tabs[t]` | the step of the page: home, counted, prepared, polling, success, failed |
| `threads[t]` | `_run_commit` of that tab, with the lines it applies |
| `status` | `STATUS_FILE`, one for all threads |
| `alone[t]` | history: no other commit ran or was started since that of the tab |
| `OrderCopy`, `ReceiveCopy`, `ReserveCopy`, `ReleaseCopy`, `SendBackCopy` | what the operations of `SupplierOrders` write, one copy at a time and without their races, which that module is about |
| `LoseCopy` | external: what inventories are made for |
| `Count`, `Prepare`, `StartCommit` | `/parse`, `/prepare`, then `/validate` and `/commit`, which the page chains |
| `WriteRunning`, `Apply`, `Rollback`, `RemoveStatus`, `ReportError` | `_run_commit`: a status before the first movement and after each, the commit or the rollback, the `finally` and the last `except` |
| `Poll` | `/status` and `_poll` |
| `CorrectPrice` | `clone_movement_with_updated_price` |

The status file is written by truncating it, so a poll may read it empty, which
`/status` answers like a missing file: `Torn`. `Closed` says that nothing is
moved while an inventory is in progress, which the code does not check;
`Careful` that no price is corrected for a book that moved since its
inventory, and that no complete inventory takes the negative theoretical stock
of a book for what is on its shelf. `Faults` lets commits fail and statuses be
read half written.

### CustomerOrders

| Model | Code |
| --- | --- |
| `orders`, `lines`, `alerts` | `orders`, `order_lines` in creation order, the open `credit_note_required` alerts |
| `reserved[o]` | the sum of the `reserved` movements of the order |
| `invoices`, `shipped[l]` | invoices with their lines; the sum of the shipment lines of an order line |
| `request[t]` | the request that the worker of a tab is busy with, and what it has read |
| `CreateOrder`, `BeginAddress`/`CommitAddress` | `create_order`, `update_order_delivery_address` |
| `AddLine`, `Reserve` | `add_order_line`: the lines (one per valid price) are committed, then their reservation |
| `BeginRemove`/`CommitRemove`, `BeginUpdate`/`CommitUpdate` | `remove_order_line`, `update_order_line` |
| `BeginInvoice`, `GenerateReference`, `CommitInvoice`, `MarkLine`, `CommitMarks`, `RecalculateStatus` | `invoice_order`: checks, number, commit of the invoice, (Henrri), the lines one by one (`cut_line_for_invoice`), commit, status |
| `BeginShip`, `CommitShipment`, `MarkShipped` | `ship_order` |
| `BeginCancel`/`CommitCancel`, `CreateReturn`, `RaiseAlert` | `cancel_order`, `create_return_order`, the alert |
| `Crash` | the worker dies between two commits |

`app_front/main.py` (`cleanup_session`) commits whatever is pending in the
session at the end of every request, after an error message too. A `serial`
behaviour has one request at a time, no death, and users who avoid the two
cases where this, and a rule that is not in the code, break the sums: removing
a line that is no longer a draft, from a second tab (the refusal comes after the
releasing movement was added, which is then committed), and shipping a line in
part (it stays `invoiced` with its whole quantity, so it can be shipped again).
In other behaviours `ReservationsMatchLines` and `LinesMatchDocuments` fail;
`NothingWithoutInvoice` and `NumbersAreGapless` hold.

### HenrriDocuments

| Model | Code |
| --- | --- |
| `buyer`, `items`, `invoiced` | the committed invoices, their customers and the products of their lines |
| `ids`, `contactIds`, `lineIds`, `logs` | the columns `henrri_id`, and the log of the invoice |
| `remote`, `contacts`, `docs` | external: what Henrri holds |
| `worker[w]` | the request in progress with its SQLAlchemy session, which commits at its end, and between the customers of a batch |
| `CreateInvoice`, `RetryInvoice`, `Lookup`, `Decide` | `invoice_order` after its first commit; `retry_henrri_invoice` with its search for the document that an earlier attempt left |
| `SyncCustomers`, `CreateCustomer`, `UpdateCustomer`, `UpsertContact` | `sync_customer(s)`, `_sync_customer_step` |
| `UpsertProduct`, `CreateDocument`, `UpdateDocument`, `CreateLine`, `Finalize` | the steps of `create_invoice` in `utils_henrri.py` |
| `LinkToShop` | in a batch of customers, `update_info` commits the identifiers of the customers before (`Written`), or rolls them back when the table refuses the link to the shop |
| `Commit`, `Dies` | the commit at the end of a request; a death |

Each request succeeds, is refused (no trace at Henrri) or is executed without
an answer. `apart`: no two workers are on the same invoice. `calm`: one worker
at a time, every request is answered, the table refuses no link of a batch and
nobody dies.

### WooOrders

| Model | Code |
| --- | --- |
| `orders` | `orders` with their lines, links and fee |
| `store`, `nextLine` | external: the orders of the shop and its sequence of line identifiers |
| `wanted`, `edited` | history: the cancellations of the customers; the orders changed since their last push |
| `job` | the periodic task with its identity map |
| `calm` | rigid: no answer is lost, no task dies, customers cancel between two tasks an order that the ERP knows |
| `Start`, `ImportDirect`, `FetchStore`, `HandleStore`, `CreateFromStore`, `StartPush`, `PushRecent`, `FinishSync`, `Die` | `run_full_sync`: import of direct orders, orders of the shop's customers, push of the local ones |
| `PushFromTab` | `push_order_wc` |
| `AddLine`, `CancelLine`, `Bill`, `CancelOrder`, `CreateOrder` | the pages, reduced to what a push reads |
| `NewStoreOrder`, `CancelByCustomer` | external: the customers |

A push is one step with its three tries (`Calls`): what each did at the shop,
and whether the last was heard.

### WooCatalogue

| Model | Code |
| --- | --- |
| `active`, `content`, `wpwc`, `varOn`, `varLink` | products, a version of what is sent of them, the links kept on the rows |
| `shop`, `varShop`, `made` | external: products and variations of the shop, the identifiers it has given |
| `task[t]` | a synchronisation or a push with what it has read and what is left |
| `BeginSync`, `ReadCatalogue`, `SendBatch`, `ApplyBatch`, `Vary`, `Finish` | `export_all_products`: read all, compare, batches of `PRODUCT_BATCH_SIZE`, their answers, the variations |
| `Reconciled`, `Resent`, `ApplyFails` | `_reconcile_product_sku`: a product refused because of its sku is looked up, linked and sent again, and each of these may fail |
| `BeginPush`, then the same steps | `update_product` |
| `ReadFails`, `BatchFails`, `VaryFails`, `Crash` | the errors caught at each step; a death |
| `ToggleProduct`, `EditProduct`, `ToggleVariation`, `ShopCreates`, `ShopDeletes` | the screens; the back office of the shop |

### VatRates

| Model | Code |
| --- | --- |
| `rates` | `vat_rates`: code, value, label, dates, class, identifier |
| `taxes`, `classes`, `given` | external: the taxes and classes of the shop |
| `task[t]` | a request or the cron that reconciles |
| `CreateRate`, `UpdateRate`, `CloseRate` | the screens, with `close_superseded_vat_rates` |
| `Names`, `Read` | `_ensure_wc_tax_classes` and `_diff_vat_rates`: the classes are read and the missing ones created, one by one, then the taxes are read; each may fail. What will be sent is fixed here, whatever the screens change before it is |
| `Reconcile`, `Nightly`, `ExportOne`, `Post`, `PostRefused`, `Apply`, `Keep`, `Leave` | `export_vat_rates`: reads, batch, answers, and a commit that the unique identifier may refuse (`Accepted`) |
| `ImportSlugs` | `import_vat_slugs` |

A `sloppy` administrator types dates that reopen the past of a code and labels
or amounts of another code. `WooShop` puts these tasks beside those of
`WooCatalogue`: they interleave and share no row.

### Customers

| Model | Code |
| --- | --- |
| `customers`, `mails`, `blank` | customers, their addresses, and who holds the empty telephone number (`phone_number` is unique) |
| `accounts`, `copies` | external: the accounts of the shop; for each customer of Henrri whom it was made for |
| `push[p]` | a push: what its session has read, changed, logged and lost |
| `import` | the customers an import of orders has to create |
| `stays` | rigid: no address passes from one customer or account to another |
| `calm` | rigid: one push or import at a time, screens wait for it, no answer is lost, nothing dies |
| `BeginPush`, `NextCustomer`, `LookUp`, `Post`, `Link`, `Upsert`, `EndPush` | `sync_all_customers`, `sync_customer`, `create_wpwc_customer_if_not_exists`, `update_info`, `sync_customer_to_henrri` |
| `BeginImport`, `ImportOne`, `EndImport` | `_resolve_customer_cache`, `_fetch_and_create_customer` |
| `CreateCustomer`, `SetActive`, `SetHome`, `AddMail`, `UpdateMail`, `UpdatePhone` | the pages |
| `Register`, `ChangeAddress` | external: visitors of the shop |

### Catalogue

| Model | Code |
| --- | --- |
| `catalogue[e]` | a product: who wrote its text last (a screen, or an import by its number), its activity, its `object_prices` |
| `suppliers[g]` | activity, and the import that wrote the terms |
| `asked`, `rates`, `today` | the mark of the referential, the open rates, the day |
| `import` | the import with its session; of the distributors the dictionary of their lines, the GLNs of the record being read and the suppliers it has added; `want` (history) is what all lines read so far ask of the suppliers, one after another |
| `screens[t]` | a form as it was shown and as it was loaded again when saved |
| `calm` | rigid: imports and requests take turns, no form has overlapping periods, a record has one line of a GLN, a notice has a price |
| `ReadLine`, `SyncDistributors`, `EndDistributors` | `_update_distributors`: after each record the whole dictionary is merged and committed; a line without a name for an unknown GLN stops the import there |
| `BeginImport`, `UpdateServices`, `MergeNotice` (`Merge`), `MissNotice`, `Recover`, `CommitBooks`, `MarkImported`, `EndImport`, `Stop` | `fetch_returns` and the services it calls |
| `OpenScreen`, `LoadProduct`, `SaveProduct`, `CreateProduct`, `ToggleProduct`, `CreateSupplier`, `EditSupplier`, `ToggleSupplier`, `CloseRate`, `AddToDilicom` | the screens |

### Accounts

| Model | Code |
| --- | --- |
| `users`, `open`, `passwords`, `sessions` | `users`, the password rows without an end date, how many rows there are, `user_sessions` |
| `cookie[b]` | the session a browser names |
| `request[r]` | a request between its reads and its last commit |
| `BeginLogin`, then `CommitReset`/`OpenSession` or `CommitFail`/`RevokeIfLocked` | `log_user`, `login` |
| `BeginChange`, `CommitChange`, `RevokeAll` | `change_password`, `chg_pwd` |
| `Modify`, `CreateUser`, `BeginToggle`, `ToggleLock`, `ToggleActive` | the administration |
| `TurnAway`, `Logout`, `RunOut`, `Stop` | the check before each page, the end of a session, the death of a process |

`alone`: no request begins before the last one has ended, and no process stops.
In `WooCatalogue`, `alone` says the same of the tasks, and that screens and shop
stand still while one runs.

## 3. Runs

| Run | Modes and question |
| --- | --- |
| `henrri_credits` | *faults*: 3 processes, 4 tokens, 2 months, a limit of 2 of which 1 is declared consumed: the quota, the charge of each executed write, the implementation of `CreditBudget`. *calm*: 2 processes, 3 tokens, no failure: every reservation is settled |
| `orders` | *calm*: 2 orders of any kind, an object that an inventory counted and one that none did, one careful tab at a time: the sums, the closing, what covers the reservations. Otherwise: one order, 2 tabs, crashes, any entry: each pending line keeps its own movement |
| `dilicom` | *alone*: 2 books, 2 tabs and a task that do not overlap, failed uploads and deaths: the referential tells the truth. *free*: a second copy of the table, 1 book, 2 tabs, 2 tasks, imports, all interleaved: one direction per row, every change is sent |
| `inventory` | 1 book, 2 tabs with their threads, failed commits, torn reads: the stock is what stands on the shelves; a page whose commit meets no other is answered, and told of a failure only when its own was rolled back |
| `customer_orders` | *serial*: 2 careful tabs one at a time, an order and its return: lines, documents and reservations agree. *crashing*: workers die, lines are cut. *racing*: 2 tabs, two prices. In all: nothing is billed or shipped without an invoice, numbers have no gap |
| `henrri_documents` | *calm*: 2 invoices, 2 customers, 2 products, requests refused anywhere and tried again: nothing twice. *failing*: 2 workers on different invoices, lost answers, deaths: success means finalised |
| `woo_orders` | *calm*: 2 orders, every call answered. *faulty*: lost answers, deaths, hasty customers. *replacing*: lines replaced on an order with a fee |
| `accounts` | *alone*: 2 users, 2 browsers, one request at a time. *crossing*: 2 requests that cross and stop |
| `customers` | *calm*: 2 customers, 2 accounts, a tab and a task, one push at a time. *hasty*: overlapping pushes, lost answers, deaths. *moving*: addresses that pass from one to another |
| `catalogue` | *calm*: imports and screens one after the other. *crossed*: tabs act during an import, overlapping periods, 2 rates. *batch*: 2 books, 2 imports. *distributors*: 2 suppliers, 2 imports of 3 lines cut into any records |
| `woo_catalogue` | *alone*: 2 products, a variation, faults, one task at a time. *crossed*: 2 tasks, screens and shop moving. *rates*: 3 rates over 3 days, typed in order. *nights*: 2 rates of 2 amounts, typed anyhow, the shop fails, and each night reconciles. In both `VatRates` moves while the catalogue stands still |
| `bug_same_label` | the finding of section 4 |

**Bounds.** Two months are enough for a reservation to be settled in the month
after its own, and a limit of two with one credit declared leaves exactly one
credit for three processes to race for. Tokens bound the number of requests:
four allow a request to fail, one to be uncertain, one to succeed and one to be
refused. For supplier orders, `MaxQty = 2` is the smallest quantity that can be
split in received, cancelled and remaining parts two at a time, and `MaxLines`
bounds creation only: a split goes beyond it, and a line split twice occurs.
For Dilicom nothing but the sets is bounded: a tab inserts a row only for a
book in which it read none. In the inventories, books do not interact but
through the threads and the status file, which two tabs race for with one book.

For customer orders, quantity 2 lets a line be cut once by an invoice, three
rows hold two lines and a fee or a line, its rest and a fee, and two invoices
bill both parts; `MaxReserved` and `MaxShipped` stop what a careless user could
repeat for ever. Of Henrri, two objects of an entity are enough to see a double.
In the shop, three line identifiers allow a line to be replaced. Three passwords,
two sessions and the real limit of three failures (two when requests cross) let
a lock, an unlock and a change follow each other. Two customers, two accounts
and three copies let each be confused with the other. For prices, two days and
four rows hold a period that ends, one that runs and one to come, and an import
after a screen. Three rates over three days hold a rate replaced twice; the
nights have two rates of one code, replaced or edited, with equal or different
labels and amounts. Three lines in two imports let two records name the same
supplier, and an import follow another. One object without an inventory and one
with are enough for what a reservation checks.
`CHECK_DEADLOCK FALSE` appears where orders, tokens, rows or logs run out,
which is a bound of the instance.

**Fairness.** Users are never obliged to do anything.

* `HenrriCredits`: weak fairness of the steps of a request that entered the
  transport. Every HTTP call has a time-out (`httpx`), and the calm mode has no
  failure: with failures a reservation is *meant* to stay, that is what
  `WritesHoldTheirCredit` is about.
* `DilicomReferential`: weak fairness of a task that started and of a request
  that was sent, strong fairness of the start of `send_updates`. cron starts
  it every day whatever else ran meanwhile, so an import that always gets in
  first, which weak fairness would allow, is not a behaviour of the system.
  The uploads work in that mode (`Faults = FALSE`).
* `InventoryWorkflow`: weak fairness of a commit thread, which waits for nobody
  and ends, and of the poll, which the page repeats every three seconds. A page
  that other tabs keep busy with commit after commit may wait for ever, as it
  may in the code: the property promises an answer only while no other commit
  meets its own.
* `VatRates`: weak fairness of the cron's reconciliation and of its steps, in
  the mode *nights* only. The failures of the shop and the requests of the
  administrator are finite in number (`MaxEdits`), as "nothing changes any
  more" says in the property.
* The other modules need none: their properties are safety properties.

**What the passing runs show.** The credits are right under every failure that
the code provides for. One tab at a time, the stock is exactly explained by the
lines except for the two receptions of section 4. With several tabs, what
survives is local: a pending line never loses, shares or disagrees with its
movement; the global sums do not survive and no property claims that they do.
The referential is right as long as nothing overlaps and no notice is imported;
with overlaps a row keeps one direction and is always sent in the end.
What is reserved stays covered by what was counted and delivered, as long as two
tabs do not reserve at once. Inventories keep the stock equal to the shelves when
the shop is closed meanwhile, with as many tabs as one likes; the page of a
commit that meets no other can trust a failure, but not a success.

Customer orders follow the same pattern: one careful user at a time, lines,
reservations, invoices, shipments and returns agree; whatever races or dies,
nothing leaves without an invoice and the numbers are 1, 2, 3... because the
unique reference refuses the second of two invoices that read the same last
one. What is sent to Henrri is never doubled by refusals, and a success in the
log can be trusted even after lost answers and deaths, because it is written
last. The shop's orders are never shared by two rows of the ERP, whatever is
lost. The links of the catalogue never cross; what a synchronisation tells is
true when it is alone. Passwords are never lost or shared, whatever crosses;
that sessions end with their password, and that three failures lock, needs one
request at a time.

## 4. Findings

* **A rate replaced by one of the same label is refused for ever** (run
  `bug_same_label`). The closed rate keeps its `wpwc_id`; the new one is
  matched, by its slug, to the same tax, takes its identifier, and the column
  is unique: the commit fails, now and every night, although no two rates in
  force have the same slug (`db_models/services/woo_commerce/products/vat.py:112`,
  `db_models/objects/vat.py:33`). The shop has the right taxes all the same:
  they are sent before the commit, which is why `NightsReconcile` holds.

The models show more disagreements under a changed instance. Those below are
not kept as runs; the hazards of `PROJECT.json` name the line of most.

Supplier orders (`db_models/repositories/stocks/orders.py`), stock, Dilicom:

* `receive_order_line` with nothing received, a part cancelled and a rest
  leaves the original line pending with its whole quantity beside the new
  pending line (`:762`), and two tabs that read before either commits both
  record the reception of one line (`:720`): `StockIsExplained` when not `calm`;
* cancelling a part of a supplier return credits the stock twice (`:575`); two
  tabs that delete the same line compensate its movement twice (`:485`); an
  order stays open when the worker dies before the closing (`:792`,
  `OpenOrdersWait` when not `calm`); two tabs reserve the last copy
  (`ReservationsAreCovered` when not `calm`);
* `has_inventory_history` is said to look for "au moins un mouvement
  d'inventaire" (`stocks/inventory.py:371`), but takes any movement: an object
  that no inventory counted is reserved once without limit
  (`app_front/blueprints/stock/utils.py:290`, and `tests/front/test_stocks.py:975`
  relies on it), and after that first reservation, or a first delivery, never;
* a notice imported between a request and the next file turns a removal that
  waits to be sent into a deleted row (`services/dilicom/base.py:856`); two
  overlapping `send_updates` mark a removal that neither has sent; two tabs
  insert two rows for a book (`StatusIsTrue`, `OneRowPerEan` with
  `Exclusive = FALSE` or `Imports = TRUE`);
* commit threads of inventories share one status file, which each removes when
  it ends: the page of another commit may then announce a success that has not
  come, or never will (`app_back/v1/inventory.py:409`). A page may do so alone
  too: the file is removed before the error is written, and a poll that meets it
  being written reads it as absent. `CommitsAreReported` is therefore about
  failures, and about commits that meet no other;
* the clone of a corrected price is stamped now and makes the sums forget the
  movements since the inventory (`stocks/inventory.py:88`); a movement between
  count and commit is forgotten; a complete inventory records a negative
  theoretical stock (`StockIsShelf` without `Careful` or `Closed`).

Customer orders and Henrri (`app_front/blueprints/order/utils.py`,
`db_models/repositories/orders/repository.py`):

* a removal that is refused still commits its releasing movement, because the
  end of the request commits the session (`app_front/main.py`,
  `repository.py:754`);
* a partial shipment leaves the line invoiced, so that it is shipped again
  (`:954`); neither the invoice nor the shipment looks whether the order is
  cancelled, and the status recomputed from the lines revives it; a line added
  to an order that says `invoiced` cannot be invoiced;
* a death between the commit of the invoice and the marks, or two tabs, lets a
  line be invoiced twice (`:833`); a cut for an invoice drops the discount and
  the variation; removing a line of a return order makes a reservation of
  something never reserved;
* after a lost answer, a death, or with two workers on one customer, the next
  attempt creates the customer, the product or the line at Henrri once more
  (`NoDuplicates` when not `calm`).

Shop, customers, catalogue, accounts:

* every write dates a row after the synchronisation that it notes, so the
  periodic task pushes all recent orders again, for ever
  (`repositories/orders/woo.py:344`); a draft cancelled by the task keeps its
  reservation (`:286`); a death between a push and the last commit forgets the
  link (`OneToOne`'s second half when not `calm`);
* a push from a tab between the two reads of a synchronisation is deleted at
  the shop (`woo_commerce/products/exports.py:22`, `SyncIsMirror` when tasks
  cross); a new rate may be refused because of a stale slug, and an HTTP error
  is told as synchronised (`services/vat.py:109`, `:116`); backdated rates
  overlap (`OneRateInForce` when `sloppy`);
* only one customer of the shop without a telephone can be imported, the empty
  number being unique (`models/woo/customer/customer_get.py:183`); when an
  address passes from one customer or account to another during a push, a link
  leads to someone else's account, or is refused and rolls back the results of
  the customers before it (`LinkedByMail`, `ResultsAreLogged` without `stays`);
  pushes that overlap create a customer twice at Henrri (`OneCopy` when not
  `calm`);
* of two lines of a GLN in one record the first is dropped, also when the second
  tells less (`services/dilicom/base.py:880`); every record merges the
  dictionary of all the records before it again, over what a screen has saved
  between them; a nameless line of an unknown supplier stops the import with the
  earlier records committed (`SuppliersFollowTheirLines` when not `calm`);
* a notice without a price writes a price of 0; an unknown EAN rolls the whole
  batch back (`repositories/objects/objects.py:434`); a form older than an
  import erases the prices that it brought (`PeriodsDisjoint` and
  `BatchIsWhole` when not `calm`);
* a process that stops, or a login that was checked before a change of
  password, leaves a session valid with the old password
  (`SessionsFollowPassword` when not `alone`); two changes at a time leave two
  open passwords (`OnePassword`); concurrent attempts count once.

## 5. Proofs

The proofs hold for any number of processes, tabs, tasks, workers, orders,
lines, books, products, accounts and months and any limit, quantities and
bounds; the assumptions are those of the modules (`BudgetAssumption`,
`HenrriDocumentsAssumption`, `OrdersAssumption`, `ReferentialAssumption`,
`InventoryAssumption`, `CustomerOrdersAssumption`, `AccountsAssumption`,
`SyncersAssumption`, `CustomersAssumption`, `CatalogueAssumption`,
`WooCatalogueAssumption`, `WooShopAssumption`, `WooOrdersAssumption`), which say
that bounds are naturals, kinds of rows are told apart and a new order has a
shipping fee or has not. Only the first
administrators, the products of the shop, the rates of VAT and the prices in use
need to be finite in number.

A property that speaks of one careful tab, worker or task at a time is proved
from two invariants: one that holds whatever is interleaved, loses answers or
dies (types, and what rows say of each other), and one that starts with the
rigid variable and says what the single actor under way knows, has still to
write, or owes. Each step is proved to keep both.

* **`HenrriProofs`, credits.** `TypeCorrect`, `QuotaSafe`, `WritesCharged`,
  `ChargesEarned`, `Refines`. The three safety properties are not inductive:
  that `Confirm` charges once needs to know that the token of a request in
  progress was issued to nobody else and sits in the month it was reserved in,
  and that a request about to confirm was executed and one about to cancel was
  not. The inductive invariant adds these facts: tokens belong to one request
  at a time, reserved and confirmed tokens are disjoint, all are issued, and
  each step of a request says what Henrri did. The refinement maps a spent
  credit to an executed write; each step executes at most one, and the quota
  of the detailed state gives the guard of `Spend`.
* **`HenrriProofs`, uploads.** `UploadsSafe`: with each worker on an invoice of
  its own, whatever is lost or dies, a success in the log is a finalised
  document with all its lines. The property speaks of rows; what makes it
  inductive is said of the sessions: of the invoice of each, the rows read with
  the answers received name documents and lines that are at Henrri (`Base`),
  and at each step every line of the invoice is at Henrri or still to be
  created (`Stage`), so that what is finalised is complete and what is logged
  as a success is final. Documents only grow (`Grown`), which keeps both for
  documents that a lost answer left behind. `CalmSafe`: with one worker and
  refusals only, nothing is ever twice at Henrri. `CalmInv` says that the
  session at work, or the rows when none is, know of each object that Henrri
  holds (`HeldBy`): a refusal changes neither side, an answer changes both, and
  the commit, which follows failures too, gives the rows what the session
  knows. `Pace` adds that a session creates only what it does not know of; that
  a known customer has a contact is why an update never creates one.
* **`SupplierOrdersProofs`.** `TypeCorrect`, `BackingSafe`, `UnsharedSafe`.
  `PendingBacked` is not inductive because an edition writes only the columns
  that differ from a stale read, and a split numbers its movements from the
  length of the ledger. The invariant adds, for each posted edition, that no
  other line uses the movement it read, and that if its line is still pending
  then the line still has that movement and the two were read with the same
  object and quantity: a line and its movement were equal when read and the
  same columns of both are changed, so they stay equal. It also says that
  movements are numbered within the ledger, which is what makes a split safe.
  With one careful tab at a time (`calm`), `StockExplained`, `OpenWhileWaiting`
  and `ReservedIsCovered`. The stock is a sum over the movements, what it should
  be a sum over the lines. A movement and a line are given *weights*, what they
  stand for in the stock and in what is expected on top of it; `CalmInv` says
  that for each book both sums agree (`Balanced`), that the request under way
  read its rows as they are, and that a confirmed order has a pending line
  unless the tab is about to close it. Each commit is proved to change both
  sums by the same amount, with the theory of `Sums`.
* **`DilicomReferentialProofs`.** `TypeCorrect` and `DirectionSafe` (the safety
  half of `FreeChangesAreSent`) for any interleaving: the row that a request
  read had one direction, so either both flags change or none. `StatusSafe` and
  `RowsSafe` under `Exclusive` and without imports, through failed uploads and
  deaths: the invariant adds that whoever is between its read and its commit is
  alone, so the rows are still as it read them, and that a task about to mark
  has told Dilicom the direction of each row.
* **`DilicomReferentialProofs`, catalogue.** `PricesSound`, `BatchesWhole`,
  `FutureKept`, `SuppliersFollow`; `FutureKept` and the agreement of the two
  prices whatever the screens save during an import. `LinesInv` is behind
  `SuppliersFollow`: of a GLN that the record names, the dictionary has still to
  bring what the lines ask; of the others, merging their line once more changes
  nothing (`MergedAgree`), which is why the dictionary may be merged after every
  record. A notice of several rows is
  a fold, which no induction theorem reaches: `AppliedOneByOne` gives its values
  after each row, by a least counterexample among the sets of rows already
  applied. `RowReplaced` says once what one row does (it corrects a row of its
  day, or closes the one before and stops before the next), and `RowsApplied`
  carries along the fold what the properties need: identifiers stay unique and
  are never lost, each row goes back to one of the same rate and day whose
  price only a row of the notice may have changed (`GoesBack`), and periods
  that were apart stay apart. `PricesAreSound` needs more than periods that
  are apart: the session of an import writes over rows that a screen may have
  replaced. `CatalogueInv` therefore says of the session that what it holds
  of a row of the database still has its rate, its day and, unless it was
  announced, its price (`SameRow`), which is what `FuturePricesKept` needs; and
  in a calm behaviour that it has started from the product as it is and has lost
  no identifier (`CalmWork`), so that what it commits is what it holds, and that
  what is marked is in it and then committed (`CalmMarks`). The forms are
  numbered from top to bottom: that no two rows get the same number is a count
  of the rows above each (`RankedRows`).
* **`InventoryWorkflowProofs`.** `TypeCorrect` for any interleaving;
  `StockSafe` under `Closed` and `Careful`, for any books, tabs and
  quantities. `StockIsShelf` is not inductive because a commit writes figures
  that were counted earlier: the invariant adds that what a page counted, what
  it prepared and what a thread is about to apply still agree with the shelves
  (`CountOK`, `LinesOK`, `Exact`). It holds because an inventory in progress
  closes the shop and because another inventory, a price correction or an
  order moves no copy. `FailuresAreTrue`, the safety half of
  `CommitsAreReported`, for any interleaving: between the start of a commit
  that meets no other and its end, an error in the file is not an older one,
  because its first status has replaced it before the first poll.
* **`CustomerOrdersProofs`.** `TypeCorrect`, `NumbersSafe`, `InvoiceSafe`, for
  any tabs, races, deaths and carelessness. `NumbersAreGapless` is not
  inductive: a worker carries a number that it read earlier. The invariant adds
  that this number is at most one above the last; it is then either taken, and
  refused by the unique constraint, or the next one. For `NothingWithoutInvoice`
  the invariant adds that a worker that marks or ships carries only lines that
  a committed invoice lists, that invoices are never removed, and that the rest
  of a line that was cut begins as a draft. The reservations play no part.
  `LinesSafe` and `ReservationsSafe`, for a serial behaviour, between requests.
  There is at most one request (`Sole`), and the tables agree but for what it
  has still to write (`Body`): the lines it will mark are drafts on the last
  invoice, or lines whose quantity was shipped (`Docs`); what it read is so
  (`Fresh`); the reservation of its order waits for what it brings (`Kept`) and
  the status for its marks (`Returned`). Each commit takes `Body` of a request
  to `Body` of what it does next, and `Body(Idle)` is what the properties say.
* **`AccountsProofs`.** `TypeCorrect` and `PasswordsSafe`, whatever requests
  cross or stop. The invariant adds that every open row has been numbered: a
  new row then belongs to nobody else, and a change of password only closes the
  row that it read because it opens another in the same commit.
  With one request at a time (`alone`), `SessionsSafe` and `FailuresSafe`:
  `AloneInv` adds that what the request has read is still true (`Fresh`), that
  an account has one open password, and that a session older than its password,
  or of an account locked by failures, is owed to a request about to revoke it.
* **`AccountsProofs`, customers.** `LinksFollowMails` and `PushesAreLogged` as
  long as addresses stay, whatever overlaps, is lost or dies. The link is made
  steps after the account was found, so `LinksOK` says of each push too that
  the address it looks up, then the account it links, are its customer's: two
  customers, whose addresses differ, never get the same account, which is why
  no link is refused by the unique column, no session is rolled back and no
  row of the log is lost; and a session that has ended has none left to commit
  (`PushesOK`). `CopiesAreUnique`: in a calm
  behaviour one push at a time is under way, and it has read the copy of each
  customer as it is or holds the identifier Henrri gave (`TurnsOK`), so that it
  creates at Henrri only customers that have no copy there (`CopiesOK`).
* **`WooShopProofs`.** `LinkedSafe`, whatever runs at once, is refused, lost or
  cut short. The links of the rows are not enough: a task carries links that it
  has found, sent or been answered, and writes them later; all of them lead to
  their own product or nowhere (`Linked`), and go on doing so because the shop
  gives no identifier twice and changes no sku (`MovesOn`). One task at a time,
  `PushSafe` and `MirrorSafe`: `AloneInv` says of the task that what it has
  dealt with is in the shop as it is here, that what is left is planned as it
  is here, that it deletes no product of its own and, synchronising, all others
  (`Strays`), and that an answer not applied yet is true (`Answer`).
  `RatesSafe`: as long as dates are typed in order, no instant has two rates of
  a code. The property speaks of instants; the invariant says of the rows that
  of two rates of a code one ends before the other begins (`InTurn`) and that
  each is `Dated`. Once it holds, whatever only brings ends forward keeps it
  (`BroughtForward`), which is all that the screens do but for a creation, and
  a creation begins after every other row of its code and ends the one in
  force. The theorems about the catalogue hold of the composition because the
  rates share none of its variables (`Composed`).
* **`WooShopProofs`, orders.** `LinksSafe`: whatever is lost and wherever the
  task dies, no two rows are linked to the same order of the shop. The task
  sees rows that it has not committed: `OrdersInv` says that its session goes
  on from what is committed, a link once given stays, and no two rows it sees
  have the same (`SessionOK`), and that what is left to import is known to no
  row and named once (`DirectOK`). Behind it is what a push does (`PushFacts`):
  it leaves the link or gives that of an order that was not in the shop before,
  the last of those a repeated call has made. In a calm behaviour it leaves no
  order in the shop without its link (`CopiesAreLinked`), so that an import
  finds none to do. `CancellationsSafe`: in a calm behaviour a cancellation
  that the ERP has not taken over is shown by the shop and, from the moment the
  task has read the shop, among what it has to do before it pushes (`WantedOK`).
* **`WooShopProofs`, lines and fee.** `PushesMatch`: in a calm behaviour in which
  no line of an order with a fee is replaced between two pushes, the shop has
  after a push the active lines of the ERP and charges the fee once. `MatchInv`
  says what holds between the pushes, of the rows as the task sees them: the
  lines of a shop order are those of the row that have an identifier, active or
  still to be removed, no two the same (`LinesOK`); an order with a fee has not
  both lines to send and lines to remove, so that the reading before a push
  gives no removed line away (`PreSyncKeeps`, the reason for the bound
  `Replaces`); shipping line and fees of the shop add up to one fee; and an
  order of the shop that no row has is as its customer left it (`Untouched`).
  Behind it is what a push makes of the answer (`PushedLines`): the identifiers
  that no active line has, in ascending order, are as many as the lines without
  one and go to them one to one (`Ranks`), and the cancelled lines lose theirs.
* **`Sums`.** What the `SUM` of a query computes, as facts about sums over
  finite sets: a sum may be unfolded at any element (`SumRemove`), split by a
  condition (`SumWhere`), added term by term (`SumOfSums`), and goes on over
  appended rows (`SumJoined`). The sum is a fold that takes elements in an order
  fixed by `CHOOSE`; that the order does not matter is an induction on the
  cardinality of the set, carried out as the absence of a least counterexample
  because the induction theorems of the library take an operator.

**Only model-checked.** Liveness (`CalmReservationsAreSettled`, the second half
of `FreeChangesAreSent`, the first of `CommitsAreReported`, `NightsReconcile`),
which is out of the prover's reach.

## 6. What is not modelled

* Values: amounts, taxes of a document, references, EDI and ONIX contents, PDF,
  mails; the split of a shipping fee between rates (one fee line stands for it).
* SQL beyond what the properties need: foreign keys and rows that are gone are
  modelled where a commit can fail because of them.
* The rate limiter of Henrri, a moving window of an external library.
* Inventories inside the supplier and customer orders, whose ledgers start at
  the last one; `InventoryWorkflow` has them, with simpler orders.
* In the inventories: prices, categories, unknown EANs, the figures that the
  operator may edit before validating, a death of `app_back` during a commit
  (the status then says "running" for ever), and the instant between the time
  stamp of a movement and its commit.
* In the customer orders: several articles, several months, the discount beyond
  its presence. In Henrri's documents: the payloads and the deletion of a
  document by hand.
* In the shop: payments (logged only), refunds, orders older than the window,
  categories, images, media tokens; two tasks at a time in `WooOrders`.
* In the accounts: hashing, the clock (a session runs out at any time), the
  permissions other than those of an administrator.
* In the catalogue: authors, publishers, media and metadata of a product, which
  are abstracted to who wrote them last.
* The remaining components of section 1, for the reasons given in
  `PROJECT.json`: rendering, SMTP, read-only pages, logs, migrations, backups
  and scripts have no state of their own to check.

## 7. Plan

The modules of the plan are written. What is left, in the order of what would
add most:

1. **`StockLedger`**: the sum of movements since the last inventory as an
   abstract specification of stock, implemented by `SupplierOrders`,
   `InventoryWorkflow` and the reservations of `CustomerOrders`.
2. **Composition** of `CustomerOrders`, `HenrriDocuments` and `HenrriCredits`:
   an invoice whose upload is refused for want of credits, and the month after.
3. **Two tasks at a time** in `WooOrders`, and the reservation of an order that
   the task cancels.
