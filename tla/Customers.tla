----------------------------- MODULE Customers -----------------------------
(***************************************************************************)
(* The customers of the ERP, the accounts of the WooCommerce shop they are *)
(* linked to and their copies in Henrri                                    *)
(* (db_models/repositories/customers.py, db_models/services/sync/partners.py, *)
(* db_models/services/woo_commerce/customers.py).                          *)
(*                                                                         *)
(* A tab pushes one customer, a task pushes all the active ones: for each, *)
(* first the shop, then Henrri. The link to the shop is committed by       *)
(* update_info; what Henrri answers and the rows of customer_sync_logs     *)
(* stay in the session until the next commit, which may be the one of the  *)
(* next customer's link. The periodic import of the orders creates the     *)
(* customers it does not know, each in a transaction of its own.           *)
(*                                                                         *)
(* The shop and Henrri are external: an account has one address that no    *)
(* other has, either may refuse. Names, addresses and the SIRET numbers of *)
(* the technical range are left out; whether a customer has an active and  *)
(* complete billing address, without which Henrri is not called, is not.   *)
(***************************************************************************)
EXTENDS Naturals, Sequences, FiniteSets

CONSTANTS
    Mails,        \* e-mail addresses
    Names,        \* the kinds of names users give to addresses, "none" for NULL
    Syncers,      \* the sessions that push customers
    Tabs,         \* those that push one customer; the others push all
    MaxCustomers, \* bound: the rows of the table customers
    MaxAccounts,  \* bound: the accounts of the shop
    MaxCopies,    \* bound: the customers of Henrri
    MaxPushes     \* bound: the pushes of one session

ASSUME SyncersAssumption == Tabs \subseteq Syncers
ASSUME CustomersAssumption ==
    {MaxCustomers, MaxAccounts, MaxCopies, MaxPushes} \subseteq Nat

VARIABLES
    customers,  \* the table customers
    mails,      \* the table customer_mails, by address: the column is unique
    blank,      \* the customer that holds the empty phone number, which is unique too
    accounts,   \* the address of each account of the shop
    copies,     \* history: the customer each customer of Henrri was made for
    push,       \* the sessions that push
    import,     \* the import of the customers of the shop
    stays,      \* for good: no address passes from one row or account to another
    calm        \* for good: no answer is lost, no process dies, and the users,
                \* the visitors, the import and the pushes take turns

customerVars == <<customers, mails, blank, accounts, copies, push, import, stays, calm>>

\* account and copy are 0 before the shop and Henrri have given an identifier.
Customer(a, home) == [active |-> TRUE, account |-> a, copy |-> 0, home |-> home]
\* name: a name with "WooCommerce" in it, another one, or none.
Mail(c, name) == [customer |-> c, name |-> name, active |-> TRUE]

\* seen: the copy of each customer the session has loaded since its last commit.
\* ids, rows: what it has not committed: identifiers given by Henrri, and the
\* rows of the log, one for each result told to the caller, success or not.
\* lost: the rows of this push that were rolled back.
NoPush(n) == [at |-> "idle", todo |-> {}, c |-> 0, found |-> 0, seen |-> <<>>, ids |-> <<>>,
              rows |-> {}, lost |-> {}, n |-> n]
Rest == [at |-> "idle", todo |-> {}, failed |-> {}]

CustomersInit ==
    /\ customers = <<>>
    /\ mails = <<>>
    /\ blank = 0
    /\ accounts = <<>>
    /\ copies = <<>>
    /\ push = [p \in Syncers |-> NoPush(0)]
    /\ import = Rest
    /\ stays \in BOOLEAN /\ calm \in BOOLEAN

Quiet == calm => (import.at = "idle" /\ \A p \in Syncers : push[p].at = "idle")

HasCustomer(a) == \E c \in DOMAIN customers : customers[c].account = a

----------------------------------------------------------------------------
(* The users and the visitors of the shop.                                 *)

\* The form has no address; "a refused row" below is a unique column.
CreateCustomer ==
    /\ Quiet /\ Len(customers) < MaxCustomers
    /\ customers' = Append(customers, Customer(0, FALSE))
    /\ UNCHANGED <<mails, blank, accounts, copies, push, import>>

SetActive(c) ==
    /\ Quiet /\ customers' = [customers EXCEPT ![c].active = ~@]
    /\ UNCHANGED <<mails, blank, accounts, copies, push, import>>

\* An address row is added, completed or deactivated.
SetHome(c) ==
    /\ Quiet /\ customers' = [customers EXCEPT ![c].home = ~@]
    /\ UNCHANGED <<mails, blank, accounts, copies, push, import>>

With(f, x, v) == [y \in DOMAIN f \cup {x} |-> IF y = x THEN v ELSE f[y]]

AddMail(c, m, name) ==
    /\ Quiet /\ m \notin DOMAIN mails
    /\ mails' = With(mails, m, Mail(c, name))
    /\ UNCHANGED <<customers, blank, accounts, copies, push, import>>

\* The row may be renamed, deactivated or activated, or given another address.
UpdateMail(m, new, name, active) ==
    /\ Quiet /\ (new # m => ~stays /\ new \notin DOMAIN mails)
    /\ mails' = With([x \in DOMAIN mails \ {m} |-> mails[x]], new,
                     [mails[m] EXCEPT !.name = name, !.active = active])
    /\ UNCHANGED <<customers, blank, accounts, copies, push, import>>

\* The empty number an import left is replaced by the customer's.
UpdatePhone ==
    /\ Quiet /\ blank # 0
    /\ blank' = 0
    /\ UNCHANGED <<customers, mails, accounts, copies, push, import>>

Taken(m) == \E a \in DOMAIN accounts : accounts[a] = m

Register(m) ==
    /\ Quiet /\ Len(accounts) < MaxAccounts /\ ~Taken(m)
    /\ accounts' = Append(accounts, m)
    /\ UNCHANGED <<customers, mails, blank, copies, push, import>>

ChangeAddress(a, m) ==
    /\ Quiet /\ ~stays /\ ~Taken(m)
    /\ accounts' = [accounts EXCEPT ![a] = m]
    /\ UNCHANGED <<customers, mails, blank, copies, push, import>>

----------------------------------------------------------------------------
(* A push.                                                                 *)

Active == {c \in DOMAIN customers : customers[c].active}

BeginPush(p) ==
    /\ Quiet /\ push[p].at = "idle" /\ push[p].n < MaxPushes
    /\ \E todo \in IF p \in Tabs THEN {{c} : c \in DOMAIN customers} ELSE {Active} :
          push' = [push EXCEPT ![p] = [NoPush(@.n + 1) EXCEPT
                     !.at = "next", !.todo = todo,
                     !.seen = [c \in todo |-> customers[c].copy]]]
    /\ UNCHANGED <<customers, mails, blank, accounts, copies, import>>

\* What the session reads of a customer: its own changes, else what it has
\* loaded, else the row.
CopySeen(p, c) ==
    IF c \in DOMAIN push[p].ids THEN push[p].ids[c]
    ELSE IF c \in DOMAIN push[p].seen THEN push[p].seen[c] ELSE customers[c].copy

\* A commit writes the identifiers and the rows, and forgets what was loaded.
Written(p) ==
    [c \in DOMAIN customers |-> IF c \in DOMAIN push[p].ids
                                THEN [customers[c] EXCEPT !.copy = push[p].ids[c]]
                                ELSE customers[c]]
Committed(r) ==
    [r EXCEPT !.seen = <<>>, !.ids = <<>>, !.rows = {}]
RolledBack(r) == [Committed(r) EXCEPT !.lost = @ \cup r.rows]

LogRow(c, target) == <<c, target>>
Told(r, target) ==
    [r EXCEPT !.at = IF target = "shop" THEN "henrri" ELSE "next",
              !.found = 0, !.rows = @ \cup {LogRow(r.c, target)}]

\* Mutant: a failing target rolls the session back.
MutFailed(r, target) ==
    Told(RolledBack(r), target)

\* _run_target catches the exception and tells it.
Failed(r, target) == Told(r, target)

NextCustomer(p) ==
    /\ push[p].at = "next"
    /\ \E c \in push[p].todo :
          push' = [push EXCEPT ![p].at = "look", ![p].c = c, ![p].todo = @ \ {c},
                               ![p].seen = With(@, c, CopySeen(p, c))]
    /\ UNCHANGED <<customers, mails, blank, accounts, copies, import>>

\* The address for the shop: of a row named after WooCommerce, active or not,
\* else of an active row. The search raises on a row without a name, unless it
\* stops at one named after WooCommerce before.
OwnMails(c) == {m \in DOMAIN mails : mails[m].customer = c}
Named(c) == {m \in OwnMails(c) : mails[m].name = "WooCommerce"}
Nameless(c) == \E m \in OwnMails(c) : mails[m].name = "none"
ShopMails(c) ==
    IF Named(c) # {} THEN Named(c)
    ELSE {m \in OwnMails(c) : mails[m].active /\ ~Nameless(c)}

\* Mutant: the shop's answer is not filtered by the address.
MutAccountOf(m) == CHOOSE a \in DOMAIN accounts : TRUE

AccountOf(m) == CHOOSE a \in DOMAIN accounts : accounts[a] = m

\* The customer without an address is a success, as far as the caller is told.
LookUp(p) ==
    LET r == push[p] IN
    /\ r.at = "look"
    /\ \/ Nameless(r.c) /\ push' = [push EXCEPT ![p] = Failed(r, "shop")]
       \/ /\ ~Nameless(r.c) /\ ShopMails(r.c) = {}
          /\ push' = [push EXCEPT ![p] = Told(r, "shop")]
       \/ \E m \in ShopMails(r.c) :
             push' = [push EXCEPT ![p] =
                 IF Taken(m)
                 THEN [r EXCEPT !.at = "link", !.found = AccountOf(m)]
                 ELSE [r EXCEPT !.at = "post", !.found = m]]
       \/ ~calm /\ push' = [push EXCEPT ![p] = Failed(r, "shop")]
    /\ UNCHANGED <<customers, mails, blank, accounts, copies, import>>

\* The shop refuses an address or a name it knows.
Post(p) ==
    LET r == push[p] IN
    /\ r.at = "post"
    /\ \/ /\ push' = [push EXCEPT ![p] = Failed(r, "shop")]
          /\ UNCHANGED accounts
       \/ /\ Len(accounts) < MaxAccounts /\ ~Taken(r.found)
          /\ accounts' = Append(accounts, r.found)
          /\ \/ push' = [push EXCEPT ![p].at = "link", ![p].found = Len(accounts')]
             \/ ~calm /\ push' = [push EXCEPT ![p] = Failed(r, "shop")]
    /\ UNCHANGED <<customers, mails, blank, copies, import>>

\* update_info: the commit of the link writes all that the session holds; an
\* account that another customer has makes it fail and forget all.
Link(p) ==
    LET r == push[p] IN
    /\ r.at = "link"
    /\ IF \E c \in DOMAIN customers \ {r.c} : customers[c].account = r.found
       THEN /\ push' = [push EXCEPT ![p] = Failed(RolledBack(r), "shop")]
            /\ UNCHANGED customers
       ELSE /\ customers' = [Written(p) EXCEPT ![r.c].account = r.found]
            /\ push' = [push EXCEPT ![p] = Told(Committed(r), "shop")]
    /\ UNCHANGED <<mails, blank, accounts, copies, import>>

\* The request needs an active and complete billing address.
Billed(c) == customers[c].home

Upsert(p) ==
    LET r == push[p]
        known == CopySeen(p, r.c)
        Done(id) == [push EXCEPT ![p] = Told([r EXCEPT !.ids = With(@, r.c, id)], "henrri")]
    IN
    /\ r.at = "henrri"
    /\ \/ /\ push' = [push EXCEPT ![p] = Failed([r EXCEPT !.seen = With(@, r.c, known)], "henrri")]
          /\ UNCHANGED copies
       \/ /\ Billed(r.c) /\ known # 0
          /\ push' = Done(known)
          /\ UNCHANGED copies
       \/ /\ Billed(r.c) /\ known = 0 /\ Len(copies) < MaxCopies
          /\ copies' = Append(copies, r.c)
          /\ \/ push' = Done(Len(copies'))
             \/ ~calm /\ push' = [push EXCEPT ![p] = Failed(r, "henrri")]
    /\ UNCHANGED <<customers, mails, blank, accounts, import>>

\* Mutant: the session is closed without a commit.
MutEndPush(p) ==
    LET r == push[p] IN
    /\ r.at = "next" /\ r.todo = {}
    /\ push' = [push EXCEPT ![p] = [RolledBack(r) EXCEPT !.at = "done", !.c = 0]]
    /\ UNCHANGED <<customers, mails, blank, accounts, copies, import>>

\* The commit of the caller, when every customer has had its turn.
EndPush(p) ==
    LET r == push[p] IN
    /\ r.at = "next" /\ r.todo = {}
    /\ customers' = Written(p)
    /\ push' = [push EXCEPT ![p] = [Committed(r) EXCEPT !.at = "done", !.c = 0]]
    /\ UNCHANGED <<mails, blank, accounts, copies, import>>

\* The caller has read the results; or the process has died.
Leave(p) ==
    /\ push[p].at = "done" \/ (~calm /\ push[p].at # "idle")
    /\ push' = [push EXCEPT ![p] = NoPush(@.n)]
    /\ UNCHANGED <<customers, mails, blank, accounts, copies, import>>

----------------------------------------------------------------------------
(* The customers of the imported orders.                                   *)

BeginImport(ordered) ==
    /\ Quiet /\ import.at = "idle"
    /\ import' = [at |-> "batch", todo |-> {a \in ordered : ~HasCustomer(a)}, failed |-> {}]
    /\ UNCHANGED <<customers, mails, blank, accounts, copies, push>>

\* The row of the empty phone number, the address and the account are unique.
Creatable(a) == blank = 0 /\ accounts[a] \notin DOMAIN mails /\ ~HasCustomer(a)

Imported(a) == Customer(a, TRUE)

CreateFromWoo(a) ==
    /\ customers' = Append(customers, Imported(a))
    /\ mails' = With(mails, accounts[a], Mail(Len(customers'), "WooCommerce"))
    /\ blank' = Len(customers')

\* The customers of the answer are created one by one; the first that fails
\* ends the import, the customers the answer leaves out are then asked for
\* one by one and a failure passes to the next.
ImportOne(a, inBatch) ==
    /\ import.at = "batch" \/ ~inBatch
    /\ a \in import.todo /\ Len(customers) < MaxCustomers
    /\ IF Creatable(a)
       THEN /\ CreateFromWoo(a)
            /\ import' = [import EXCEPT !.at = IF inBatch THEN @ ELSE "single", !.todo = @ \ {a}]
       ELSE /\ import' = IF inBatch
                         THEN [import EXCEPT !.todo = {}, !.failed = @ \cup import.todo]
                         ELSE [import EXCEPT !.at = "single", !.todo = @ \ {a}, !.failed = @ \cup {a}]
            /\ UNCHANGED <<customers, mails, blank>>
    /\ UNCHANGED <<accounts, copies, push>>

EndImport ==
    /\ import.at # "idle" /\ import.todo = {}
    /\ import' = Rest
    /\ UNCHANGED <<customers, mails, blank, accounts, copies, push>>

----------------------------------------------------------------------------
UserRequest ==
    \/ CreateCustomer \/ UpdatePhone
    \/ \E c \in DOMAIN customers : SetActive(c) \/ SetHome(c)
    \/ \E c \in DOMAIN customers, m \in Mails, name \in Names : AddMail(c, m, name)
    \/ \E m \in DOMAIN mails, new \in Mails, name \in Names, active \in BOOLEAN :
          UpdateMail(m, new, name, active)

Shop ==
    \/ \E m \in Mails : Register(m)
    \/ \E a \in DOMAIN accounts, m \in Mails : ChangeAddress(a, m)

Push(p) ==
    \/ BeginPush(p) \/ NextCustomer(p) \/ LookUp(p) \/ Post(p) \/ Link(p)
    \/ Upsert(p) \/ EndPush(p) \/ Leave(p)

Import ==
    \/ \E ordered \in SUBSET DOMAIN accounts : ordered # {} /\ BeginImport(ordered)
    \/ \E a \in import.todo, inBatch \in BOOLEAN : ImportOne(a, inBatch)
    \/ EndImport

CustomersNext ==
    /\ UNCHANGED <<stays, calm>>
    /\ UserRequest \/ Shop \/ Import \/ \E p \in Syncers : Push(p)

CustomersSpec == CustomersInit /\ [][CustomersNext]_customerVars

----------------------------------------------------------------------------
(* Properties.                                                             *)

\* While no address passes from one row or account to another, a customer is
\* only ever linked to the account that has one of its own addresses, whoever
\* made the link: a push, the answer to a push or an import
\* (WCCustomersService.create_wpwc_customer_if_not_exists).
LinkedByMail ==
    stays => \A c \in DOMAIN customers : customers[c].account # 0 =>
        LET m == accounts[customers[c].account] IN
        m \in DOMAIN mails /\ mails[m].customer = c

\* In a calm behaviour, while no address passes, Henrri has one customer at most for
\* each customer of the ERP (sync_customer_to_henrri: POST when unknown, PUT otherwise).
OneCopy ==
    stays /\ calm => \A i, j \in DOMAIN copies : copies[i] = copies[j] => i = j

\* "chaque resultat est retourne et journalise independamment" (partners.py): while
\* no address passes, a push that has ended has written in the log all the results
\* it told, whoever works during the push and whatever answers are lost.
ResultsAreLogged ==
    stays => \A p \in Syncers : push[p].at = "done" => push[p].rows = {} /\ push[p].lost = {}

=============================================================================
