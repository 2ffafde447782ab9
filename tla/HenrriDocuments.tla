-------------------------- MODULE HenrriDocuments --------------------------
(***************************************************************************)
(* The upload of invoices, customers and products to Henrri                *)
(* (app_front/blueprints/order/utils_henrri.py, services/henrri,           *)
(* services/sync/partners.py).                                             *)
(*                                                                         *)
(* A worker uploads one invoice (when it is created, or again on demand)   *)
(* or a batch of customers. Each request creates (POST) what has no Henrri *)
(* identifier yet in the rows the worker read, and updates (PUT) the rest. *)
(* The identifiers it receives stay in its SQLAlchemy session, without     *)
(* autoflush, until the commit at its end; a batch also commits, or rolls  *)
(* back, when it links a customer to the shop (see Customers). A request   *)
(* may succeed, be refused (by Henrri, by the credits of HenrriCredits, by *)
(* the validation of the payload, or for want of a connection), or be      *)
(* executed and lose its answer; the worker may die.                       *)
(*                                                                         *)
(* Henrri's objects of one entity are numbered 1, 2, ...; identifier 0 is  *)
(* none. A line of an invoice is named by its product.                     *)
(***************************************************************************)
EXTENDS Integers, Sequences, FiniteSets, Functions, SequencesExt

CONSTANTS
    Invoices, Customers, Products, Workers,
    None,           \* no invoice, no customer
    MaxLogs,        \* bound: the entries of the sync log of an invoice
    MaxRemote       \* bound: what Henrri holds for one entity

ASSUME HenrriDocumentsAssumption ==
    /\ None \notin Invoices \union Customers
    /\ Customers \intersect Products = {} /\ Invoices \intersect (Customers \union Products) = {}
    /\ {MaxLogs, MaxRemote} \subseteq Nat

VARIABLES
    buyer,      \* invoice -> its customer
    items,      \* invoice -> the products of its lines
    invoiced,   \* the invoices that are committed
    ids,        \* customer, product or invoice -> its column henrri_id
    contactIds, \* customer -> contact_henrri_id
    lineIds,    \* invoice -> the lines that have a henrri_id
    logs,       \* invoice -> its sync log
    remote,     \* customer or product -> how many Henrri holds
    contacts,   \* customer -> how many contacts Henrri holds
    docs,       \* invoice -> the documents Henrri holds
    worker,
    calm,       \* one worker at a time, requests are only refused and no link
                \* to the shop is
    apart       \* no two workers upload the same invoice at once

local == <<invoiced, ids, contactIds, lineIds, logs>>
henrri == <<remote, contacts, docs>>
uploadVars == <<buyer, items, local, henrri, worker, calm, apart>>

Document == [finalized : BOOLEAN, lines : [Products -> 0 .. MaxRemote]]
LogRow == [ok : BOOLEAN, ext : 0 .. MaxRemote]
Rows == Customers \union Products \union Invoices

Nothing == [e \in {} |-> 0]
Idle == [pc |-> "idle", invoice |-> None]
Free(w) == worker[w].pc = "idle"
Becomes(w, r) == worker' = [worker EXCEPT ![w] = r]
MayStart(w) == Free(w) /\ (calm => \A v \in Workers : Free(v))
MayUpload(w, i) ==
    /\ MayStart(w) /\ Len(logs[i]) < MaxLogs
    /\ apart => \A v \in Workers : worker[v].invoice # i

UploadsInit ==
    /\ buyer \in [Invoices -> Customers]
    /\ items \in [Invoices -> SUBSET Products \ {{}}]
    /\ invoiced = {}
    /\ ids = [e \in Rows |-> 0]
    /\ contactIds = [c \in Customers |-> 0]
    /\ lineIds = [i \in Invoices |-> {}]
    /\ logs = [i \in Invoices |-> <<>>]
    /\ remote = [e \in Customers \union Products |-> 0]
    /\ contacts = [c \in Customers |-> 0]
    /\ docs = [i \in Invoices |-> <<>>]
    /\ worker = [w \in Workers |-> Idle]
    /\ calm \in BOOLEAN /\ apart \in BOOLEAN /\ (calm => apart)

-----------------------------------------------------------------------------
(* The session of a worker. seen holds the rows it read at its start, got   *)
(* and gotContact the identifiers received since, made the lines created.   *)

Session(pc, i, todo, seen) ==
    [pc |-> pc, invoice |-> i, todo |-> todo, customer |-> None, seen |-> seen,
     seenLines |-> IF i = None THEN {} ELSE lineIds[i],
     got |-> Nothing, gotContact |-> Nothing, made |-> {}, log |-> <<>>]

\* After the commit that creates its invoice, a worker reads each row when it
\* first needs it.
Known(w, e) == LET s == worker[w] IN
    IF e \in DOMAIN s.got THEN s.got[e]
    ELSE IF e \in DOMAIN s.seen THEN s.seen[e] ELSE ids[e]

With(f, e, id) == [x \in DOMAIN f \union {e} |-> IF x = e THEN id ELSE f[x]]

\* Mutation of Failed: the identifiers received before the error are given up.
MutFailed(s) ==
    IF s.invoice = None
    THEN [s EXCEPT !.customer = None, !.pc = IF s.todo = {} THEN "commit" ELSE "customer"]
    ELSE [s EXCEPT !.pc = "commit", !.log = <<[ok |-> FALSE, ext |-> 0]>>, !.got = Nothing]

\* A failed step ends the upload of an invoice with a failure in its log; a
\* batch goes on with its next customer.
Failed(s) ==
    IF s.invoice = None
    THEN [s EXCEPT !.customer = None, !.pc = IF s.todo = {} THEN "commit" ELSE "customer"]
    ELSE [s EXCEPT !.pc = "commit", !.log = <<[ok |-> FALSE, ext |-> 0]>>]

Succeeded(s, d) == [s EXCEPT !.pc = "commit", !.log = <<[ok |-> TRUE, ext |-> d]>>]

CustomerDone(s) ==
    IF s.invoice = None
    THEN [s EXCEPT !.customer = None, !.pc = IF s.todo = {} THEN "commit" ELSE "customer"]
    ELSE [s EXCEPT !.customer = None, !.pc = "products", !.todo = items[s.invoice]]

\* A worker gives up without a change at Henrri.
Refused(w) == Becomes(w, Failed(worker[w])) /\ UNCHANGED henrri

-----------------------------------------------------------------------------
(* What starts an upload.                                                   *)

\* invoice_order: the invoice is committed, then uploaded.
CreateInvoice(w, i) ==
    /\ i \notin invoiced /\ MayUpload(w, i)
    /\ invoiced' = invoiced \union {i}
    /\ Becomes(w, Session("customer", i, {buyer[i]}, Nothing))
    /\ UNCHANGED <<buyer, items, ids, contactIds, lineIds, logs, henrri>>

\* The documents a new attempt looks up first: the invoice's own, then those of
\* its log, from the newest.
Candidates(i) ==
    <<ids[i]>> \o [k \in 1 .. Len(logs[i]) |-> logs[i][Len(logs[i]) + 1 - k].ext]

RetryInvoice(w, i) ==
    /\ i \in invoiced /\ MayUpload(w, i)
    /\ Becomes(w, Session("lookup", i, Candidates(i), Restrict(ids, {i, buyer[i]} \union items[i])))
    /\ UNCHANGED <<buyer, items, local, henrri>>

\* push_customer_partners and sync_all_customers.
SyncCustomers(w, S) ==
    /\ MayStart(w)
    /\ Becomes(w, Session("customer", None, S, Restrict(ids, S)))
    /\ UNCHANGED <<buyer, items, local, henrri>>

\* A commit writes what the session changed, and no more.
Written(s) ==
    /\ ids' = [e \in Rows |-> IF e \in DOMAIN s.got THEN s.got[e] ELSE ids[e]]
    /\ contactIds' = [c \in Customers |-> IF c \in DOMAIN s.gotContact THEN s.gotContact[c]
                                          ELSE contactIds[c]]

\* After a commit or a rollback the rows are read anew.
Renewed(s) == [s EXCEPT !.seen = Nothing, !.got = Nothing, !.gotContact = Nothing]

\* Before a customer of a batch is sent to Henrri, its link to the shop is
\* committed by update_info, with the identifiers of the customers before it;
\* a link that the table refuses rolls them back. No step at all when the shop
\* refuses, or when the customer has no address.
LinkToShop(w) ==
    LET s == worker[w] IN
    /\ s.pc = "customer" /\ s.invoice = None
    /\ Written(s) \/ (~calm /\ UNCHANGED <<ids, contactIds>>)
    /\ Becomes(w, Renewed(s))
    /\ UNCHANGED <<buyer, items, invoiced, lineIds, logs, henrri>>

-----------------------------------------------------------------------------
(* The steps of an upload.                                                  *)

\* A finalized candidate is adopted; no candidate (0) and one that cannot be read
\* are passed over.
Lookup(w) ==
    LET s == worker[w] IN
    /\ s.pc = "lookup" /\ s.todo # <<>>
    /\ LET d == Head(s.todo) IN
       \/ /\ d # 0 /\ docs[s.invoice][d].finalized
          /\ Becomes(w, Succeeded([s EXCEPT !.got = With(s.got, s.invoice, d)], d))
       \/ Becomes(w, [s EXCEPT !.todo = Tail(s.todo)])
    /\ UNCHANGED <<buyer, items, local, henrri>>

\* Without a finalized candidate: an invoice whose last entry is a success is
\* left alone, any other is uploaded.
Decide(w) ==
    LET s == worker[w]
        i == s.invoice
    IN
    /\ s.pc = "lookup" /\ s.todo = <<>>
    /\ Becomes(w, IF logs[i] # <<>> /\ Last(logs[i]).ok
                THEN Succeeded(s, s.seen[i])
                ELSE [s EXCEPT !.pc = "customer", !.todo = {buyer[i]}])
    /\ UNCHANGED <<buyer, items, local, henrri>>

\* A new customer is created with its contact.
CreateCustomer(w, c) ==
    LET s == [worker[w] EXCEPT !.todo = @ \ {c}, !.customer = c] IN
    /\ worker[w].pc = "customer" /\ c \in worker[w].todo /\ Known(w, c) = 0
    /\ \/ Becomes(w, Failed(s)) /\ UNCHANGED henrri
       \/ /\ remote[c] < MaxRemote
          /\ remote' = [remote EXCEPT ![c] = @ + 1]
          /\ contacts' = [contacts EXCEPT ![c] = @ + 1]
          /\ \/ Becomes(w, CustomerDone([s EXCEPT !.got = With(@, c, remote'[c]),
                                                !.gotContact = With(@, c, contacts'[c])]))
             \/ ~calm /\ Becomes(w, Failed(s))
          /\ UNCHANGED docs
    /\ UNCHANGED <<buyer, items, local>>

\* A known customer is updated, then its contact is created or updated.
UpdateCustomer(w, c) ==
    LET s == [worker[w] EXCEPT !.todo = @ \ {c}, !.customer = c] IN
    /\ worker[w].pc = "customer" /\ c \in worker[w].todo /\ Known(w, c) # 0
    /\ Becomes(w, Failed(s)) \/ Becomes(w, [s EXCEPT !.pc = "contact"])
    /\ UNCHANGED <<buyer, items, local, henrri>>

UpsertContact(w) ==
    LET s == worker[w]
        c == s.customer
    IN
    /\ s.pc = "contact"
    /\ \/ Refused(w)
       \/ contactIds[c] # 0 /\ Becomes(w, CustomerDone(s)) /\ UNCHANGED henrri
       \/ /\ contactIds[c] = 0 /\ contacts[c] < MaxRemote
          /\ contacts' = [contacts EXCEPT ![c] = @ + 1]
          /\ \/ Becomes(w, CustomerDone([s EXCEPT !.gotContact = With(@, c, contacts'[c])]))
             \/ ~calm /\ Becomes(w, Failed(s))
          /\ UNCHANGED <<remote, docs>>
    /\ UNCHANGED <<buyer, items, local>>

ProductDone(s, p) ==
    LET left == s.todo \ {p} IN [s EXCEPT !.todo = left, !.pc = IF left = {} THEN "document" ELSE @]

UpsertProduct(w, p) ==
    LET s == worker[w] IN
    /\ s.pc = "products" /\ p \in s.todo
    /\ \/ Refused(w)
       \/ Known(w, p) # 0 /\ Becomes(w, ProductDone(s, p)) /\ UNCHANGED henrri
       \/ /\ Known(w, p) = 0 /\ remote[p] < MaxRemote
          /\ remote' = [remote EXCEPT ![p] = @ + 1]
          /\ \/ Becomes(w, ProductDone([s EXCEPT !.got = With(@, p, remote'[p])], p))
             \/ ~calm /\ Becomes(w, Failed(s))
          /\ UNCHANGED <<contacts, docs>>
    /\ UNCHANGED <<buyer, items, local>>

\* The lines that have no identifier in the session.
LinesTodo(s) == items[s.invoice] \ (s.seenLines \union s.made)

HeaderDone(s) ==
    [s EXCEPT !.todo = LinesTodo(s), !.pc = IF LinesTodo(s) = {} THEN "finalize" ELSE "lines"]

CreateDocument(w) ==
    LET s == worker[w]
        i == s.invoice
        new == [finalized |-> FALSE, lines |-> [p \in Products |-> 0]]
    IN
    /\ s.pc = "document" /\ Known(w, i) = 0
    /\ \/ Refused(w)
       \/ /\ Len(docs[i]) < MaxRemote
          /\ docs' = [docs EXCEPT ![i] = Append(@, new)]
          /\ \/ Becomes(w, HeaderDone([s EXCEPT !.got = With(@, i, Len(docs'[i]))]))
             \/ ~calm /\ Becomes(w, Failed(s))
          /\ UNCHANGED <<remote, contacts>>
    /\ UNCHANGED <<buyer, items, local>>

\* The document is read: a finalized one is a success, another is updated.
UpdateDocument(w) ==
    LET s == worker[w]
        d == Known(w, s.invoice)
    IN
    /\ s.pc = "document" /\ d # 0
    /\ \/ Becomes(w, Failed(s))
       \/ Becomes(w, IF docs[s.invoice][d].finalized THEN Succeeded(s, d) ELSE HeaderDone(s))
    /\ UNCHANGED <<buyer, items, local, henrri>>

\* Henrri refuses to change a finalized document.
CreateLine(w, p) ==
    LET s == worker[w]
        i == s.invoice
        d == Known(w, i)
        left == s.todo \ {p}
    IN
    /\ s.pc = "lines" /\ p \in s.todo
    /\ \/ Refused(w)
       \/ /\ ~docs[i][d].finalized /\ docs[i][d].lines[p] < MaxRemote
          /\ docs' = [docs EXCEPT ![i][d].lines[p] = @ + 1]
          /\ \/ Becomes(w, [s EXCEPT !.todo = left, !.made = @ \union {p},
                                   !.pc = IF left = {} THEN "finalize" ELSE @])
             \/ ~calm /\ Becomes(w, Failed(s))
          /\ UNCHANGED <<remote, contacts>>
    /\ UNCHANGED <<buyer, items, local>>

\* Mutation of Finalize: a refusal is taken for "already finalized".
MutFinalize(w) ==
    LET s == worker[w]
        d == Known(w, s.invoice)
    IN
    /\ s.pc = "finalize"
    /\ \/ Becomes(w, Succeeded(s, d)) /\ UNCHANGED henrri
       \/ /\ docs' = [docs EXCEPT ![s.invoice][d].finalized = TRUE]
          /\ \/ Becomes(w, Succeeded(s, d))
             \/ ~calm /\ Becomes(w, Failed(s))
          /\ UNCHANGED <<remote, contacts>>
    /\ UNCHANGED <<buyer, items, local>>

Finalize(w) ==
    LET s == worker[w]
        d == Known(w, s.invoice)
    IN
    /\ s.pc = "finalize"
    /\ \/ Refused(w)
       \/ /\ docs' = [docs EXCEPT ![s.invoice][d].finalized = TRUE]
          /\ \/ Becomes(w, Succeeded(s, d))
             \/ ~calm /\ Becomes(w, Failed(s))
          /\ UNCHANGED <<remote, contacts>>
    /\ UNCHANGED <<buyer, items, local>>

\* The last commit of the session, after a success or a failure.
Commit(w) ==
    LET s == worker[w]
        i == s.invoice
    IN
    /\ s.pc = "commit"
    /\ Written(s)
    /\ lineIds' = IF i = None THEN lineIds ELSE [lineIds EXCEPT ![i] = @ \union s.made]
    /\ logs' = IF i = None THEN logs ELSE [logs EXCEPT ![i] = @ \o s.log]
    /\ Becomes(w, Idle)
    /\ UNCHANGED <<buyer, items, invoiced, henrri>>

\* The session of a worker that dies is rolled back.
Dies(w) ==
    /\ ~calm /\ ~Free(w)
    /\ Becomes(w, Idle)
    /\ UNCHANGED <<buyer, items, local, henrri>>

Batches == {{c} : c \in Customers} \union {Customers}

UploadsNext ==
    /\ UNCHANGED <<calm, apart>>
    /\ \E w \in Workers :
        \/ \E i \in Invoices : CreateInvoice(w, i) \/ RetryInvoice(w, i)
        \/ \E S \in Batches : SyncCustomers(w, S)
        \/ LinkToShop(w)
        \/ Lookup(w) \/ Decide(w)
        \/ \E c \in Customers : CreateCustomer(w, c) \/ UpdateCustomer(w, c)
        \/ UpsertContact(w)
        \/ \E p \in Products : UpsertProduct(w, p) \/ CreateLine(w, p)
        \/ CreateDocument(w) \/ UpdateDocument(w) \/ Finalize(w)
        \/ Commit(w) \/ Dies(w)

UploadsSpec == UploadsInit /\ [][UploadsNext]_uploadVars

-----------------------------------------------------------------------------
(* Properties.                                                             *)

\* One worker at a time, requests refused at any step and as many new attempts
\* as one likes: Henrri never holds a customer, a contact, a product or an
\* invoice twice, nor a line twice on it. (A lost answer, a crash, two workers or
\* a refused link to the shop break it: see the hazards.)
NoDuplicates ==
    calm =>
      /\ \A e \in DOMAIN remote : remote[e] <= 1
      /\ \A c \in DOMAIN contacts : contacts[c] <= 1
      /\ \A i \in DOMAIN docs :
           Len(docs[i]) <= 1 /\ \A d \in DOMAIN docs[i] : \A p \in items[i] : docs[i][d].lines[p] <= 1

\* A document is finalized, which is for ever, only with all its lines.
FinalizedIsComplete ==
    \A i \in DOMAIN docs : \A d \in DOMAIN docs[i] :
        docs[i][d].finalized => \A p \in items[i] : docs[i][d].lines[p] >= 1

\* Lost answers, crashes and several workers, each with its own invoice: an
\* invoice whose last log entry is a success (its page then offers the PDF and a
\* new attempt does nothing) names a finalized document, and no document is
\* finalized without all its lines.
SuccessMeansFinalized ==
    apart =>
      /\ FinalizedIsComplete
      /\ \A i \in DOMAIN docs :
           logs[i] # <<>> /\ Last(logs[i]).ok =>
              ids[i] \in DOMAIN docs[i] /\ docs[i][ids[i]].finalized
=============================================================================
