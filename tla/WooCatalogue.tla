---------------------------- MODULE WooCatalogue ----------------------------
(* The catalogue pushed to the shop (db_models/services/woo_commerce/        *)
(* products): the global synchronisation, a task that compares every active  *)
(* product with every product of the shop, creates, updates and deletes in   *)
(* batches, then does the variations product by product; and the push of one *)
(* product from a tab.  A product is found by the identifier kept on its row *)
(* or by its sku, which is its local number.  When alone holds, it does so  *)
(* for good: one task runs at a time and nothing changes under it.           *)
EXTENDS Naturals, FiniteSets, Functions, FiniteSetsExt

CONSTANTS Products, \* local products, numbered
          Varied,   \* those that have a variation
          Tasks,    \* background tasks and requests of tabs
          Own,      \* the sku of a product typed in the shop
          Batch,    \* PRODUCT_BATCH_SIZE
          MaxId,    \* bound: identifiers the shop gives
          MaxEdits, \* bound: changes of the content of a product
          MaxRuns,  \* bound: synchronisations and pushes
          Faults    \* the shop refuses, answers get lost, the process dies

ASSUME WooCatalogueAssumption ==
    /\ Products \subseteq Nat \ {0} /\ IsFiniteSet(Products) /\ Varied \subseteq Products
    /\ Own \notin Products /\ Batch \in Nat \ {0} /\ MaxId \in Nat

VARIABLES active,   \* product -> is it active
          content,  \* product -> version of what is sent of it
          wpwc,     \* product -> identifier in the shop kept on its row, 0 for none
          varOn,    \* product with a variation -> is the variation active
          varLink,  \* product with a variation -> identifier kept on the variation
          shop,     \* identifier -> product of the shop
          varShop,  \* identifier of a variation in the shop -> its parent
          made,     \* identifiers given by the shop
          task,     \* task -> what it has read and what is left to do
          runs,     \* synchronisations and pushes so far
          alone     \* one task at a time, nothing moves while it runs
vars == <<active, content, wpwc, varOn, varLink, shop, varShop, made, task, runs, alone>>
local == <<active, content, varOn>>
remote == <<shop, varShop, made>>

None == 0
Nothing == [x \in {} |-> None]
\* f, and g where f says nothing.
Over(f, g) == [x \in DOMAIN f \union DOMAIN g |-> IF x \in DOMAIN f THEN f[x] ELSE g[x]]
With(x, y, f) == Over([i \in {x} |-> y], f)
NoBatch == [create |-> {}, update |-> Nothing, delete |-> {}]
NoAnswer == [link |-> Nothing, clash |-> {}, gone |-> {}, failed |-> FALSE]
Idle == [kind |-> "none", at |-> "idle", mine |-> {}, plan |-> Nothing, text |-> Nothing,
         dels |-> {}, dirty |-> Nothing, sent |-> NoBatch, got |-> NoAnswer, vary |-> {}]

Init ==
    /\ active \in [Products -> BOOLEAN] /\ content = [p \in Products |-> 0]
    /\ wpwc = [p \in Products |-> None]
    /\ varOn \in [Varied -> BOOLEAN] /\ varLink = [p \in Varied |-> None]
    /\ shop = Nothing /\ varShop = Nothing /\ made = 0
    /\ task = [t \in Tasks |-> Idle] /\ runs = 0
    /\ alone \in BOOLEAN

Busy == {t \in Tasks : task[t].at # "idle"}
Quiet == alone => Busy = {}
Least(n, S) == {x \in S : Cardinality({y \in S : y < x}) < n}

\* The row as the session of t sees it: what it has set, else what is kept.
View(t) == Over(task[t].dirty, wpwc)

\* The product of the shop that is p: the identifier kept, else the sku.
MutMatched(p) == DOMAIN shop \cap {wpwc[p]}
Matched(p) ==
    {id \in DOMAIN shop : id = wpwc[p] \/ (wpwc[p] \notin DOMAIN shop /\ shop[id].sku = p)}
Kids(id) == {v \in DOMAIN varShop : varShop[v] = id}

\* What is sent of a product, as it is when the batches are prepared.
Payload(p) == content[p]

End(t) == task' = [task EXCEPT ![t] = Idle]
Tell(t) == task' = [task EXCEPT ![t] = [Idle EXCEPT !.kind = task[t].kind, !.at = "told",
                                                   !.mine = task[t].mine]]
-----------------------------------------------------------------------------
\* Reading both sides.

\* The global task keeps the list of active products.
BeginSync(t) ==
    /\ task[t].at = "idle" /\ Quiet /\ runs < MaxRuns
    /\ task' = [task EXCEPT ![t] = [Idle EXCEPT !.kind = "sync", !.at = "read",
                                                !.mine = {p \in Products : active[p]}]]
    /\ runs' = runs + 1
    /\ UNCHANGED <<local, remote, wpwc, varLink>>

\* What is not matched is created; the whole content is built now.
Planned(t, S, found, dels) ==
    [task[t] EXCEPT !.at = IF S = {} /\ dels = {} THEN "vary" ELSE "send",
                    !.plan = found, !.text = [p \in S |-> Payload(p)], !.dels = dels,
                    !.dirty = [p \in {q \in S : found[q] \notin {None, wpwc[q]}} |-> found[p]],
                    !.vary = S]

Found(S) == [p \in S |-> IF Matched(p) = {} THEN None ELSE CHOOSE id \in Matched(p) : TRUE]

\* Every product of the shop that no product matched is to be deleted.
ReadCatalogue(t) ==
    /\ task[t].kind = "sync" /\ task[t].at = "read"
    /\ LET found == Found(task[t].mine)
       IN  task' = [task EXCEPT ![t] =
                Planned(t, task[t].mine, found, DOMAIN shop \ Range(found))]
    /\ UNCHANGED <<local, remote, wpwc, varLink, runs>>

\* A tab pushes one active product: an identifier the shop does not know is an
\* error; without identifier the sku is looked up.
BeginPush(t, p) ==
    /\ task[t].at = "idle" /\ Quiet /\ runs < MaxRuns /\ active[p]
    /\ runs' = runs + 1
    /\ wpwc[p] = None \/ wpwc[p] \in DOMAIN shop
    /\ task' = [task EXCEPT ![t] = [Planned(t, {p}, Found({p}), {}) EXCEPT
                                      !.kind = "push", !.mine = {p}]]
    /\ UNCHANGED <<local, remote, wpwc, varLink>>

\* A read the shop refuses ends the task; nothing was written.
ReadFails(t) ==
    /\ Faults /\ task[t].at = "read"
    /\ End(t)
    /\ UNCHANGED <<local, remote, wpwc, varLink, runs>>
-----------------------------------------------------------------------------
\* Batches.

\* The shop's identifiers for the created products S.
Given(S) == {f \in [S -> made + 1 .. made + Cardinality(S)] : IsInjective(f)}
HasSku(p) == \E id \in DOMAIN shop : shop[id].sku = p

\* The products first, Batch at a time, then the deletions.
NextBatch(t) ==
    LET todo == task[t].plan
        some == Least(Batch, DOMAIN todo)
        new == {p \in some : todo[p] = None}
    IN  IF some # {}
        THEN {[create |-> new, update |-> Restrict(todo, some \ new), delete |-> {}]}
        ELSE {[create |-> {}, update |-> Nothing, delete |-> D] :
                D \in {E \in SUBSET task[t].dels :
                         Cardinality(E) = IF Batch < Cardinality(task[t].dels)
                                          THEN Batch ELSE Cardinality(task[t].dels)}}

\* What the shop does with a batch: it refuses a sku it has and an identifier
\* it has not, item by item; the variations go with their parent.
Executed(t, b, ids) ==
    LET born == {p \in b.create : ~HasSku(p)}
        kept == {p \in DOMAIN b.update : b.update[p] \in DOMAIN shop}
        gone == b.delete \cap DOMAIN shop
        copy(p) == [sku |-> p, text |-> task[t].text[p]]
        fresh == [id \in Range(ids) |-> copy(CHOOSE p \in born : ids[p] = id)]
        newer == [id \in {b.update[p] : p \in kept} |->
                    copy(CHOOSE p \in kept : b.update[p] = id)]
        all == Over(fresh, Over(newer, shop))
    IN  /\ shop' = Restrict(all, DOMAIN all \ gone)
        /\ varShop' = Restrict(varShop, {v \in DOMAIN varShop : varShop[v] \notin gone})
        /\ made' = made + Cardinality(born)

Answered(b, ids) ==
    [link |-> Over(ids, Restrict(b.update, {p \in DOMAIN b.update : b.update[p] \in DOMAIN shop})),
     clash |-> {p \in b.create : HasSku(p)},
     gone |-> b.delete \cap DOMAIN shop,
     failed |-> \/ \E p \in DOMAIN b.update : b.update[p] \notin DOMAIN shop
                \/ ~ b.delete \subseteq DOMAIN shop]

\* A batch that leaves, with its answer on the way back or lost.
SendBatch(t) ==
    /\ task[t].at = "send"
    /\ \E b \in NextBatch(t) :
         \E ids \in Given({p \in b.create : ~HasSku(p)}) :
            /\ made + Cardinality(DOMAIN ids) <= MaxId
            /\ Executed(t, b, ids)
            /\ \E how \in IF Faults THEN {"apply", "lost"} ELSE {"apply"} :
                  task' = [task EXCEPT ![t].at = how, ![t].sent = b,
                                       ![t].got = Answered(b, ids)]
    /\ UNCHANGED <<local, wpwc, varLink, runs>>

\* The shop refuses the batch, or its answer is lost: the error is written, and
\* what the session has set is committed with it.
BatchFails(t) ==
    /\ task[t].at = "lost" \/ (Faults /\ task[t].at = "send")
    /\ wpwc' = View(t)
    /\ End(t)
    /\ UNCHANGED <<local, remote, varLink, runs>>

\* A product refused because of its sku is looked up by it, linked and written.
MutReconciled(t) ==
    [p \in {q \in task[t].got.clash : HasSku(q)} |-> CHOOSE id \in DOMAIN shop : TRUE]
Reconciled(t) ==
    [p \in {q \in task[t].got.clash : HasSku(q)} |-> CHOOSE id \in DOMAIN shop : shop[id].sku = p]

\* Each answer goes to the product it is about: a created product is linked by
\* its sku, an updated one must still hold the identifier, a deleted one loses it.
Applied(t, found) ==
    LET got == task[t].got
        known == {p \in DOMAIN got.link : p \in task[t].sent.create \/ View(t)[p] = got.link[p]}
        lost == {p \in Products : View(t)[p] \in got.gone}
    IN  Over(found, Over(Restrict(got.link, known), Over([p \in lost |-> None], View(t))))

\* The products found by their sku are sent again.
Resent(t, found) ==
    Over([id \in Range(found) |-> [shop[id] EXCEPT !.text =
             task[t].text[CHOOSE p \in DOMAIN found : found[p] = id]]], shop)

Complete(t) ==
    /\ ~task[t].got.failed /\ task[t].got.clash \subseteq DOMAIN Reconciled(t)
    /\ \A p \in DOMAIN task[t].got.link :
         p \in task[t].sent.create \/ View(t)[p] = task[t].got.link[p]

\* The answers are applied and committed; one item in error stops the task.
ApplyBatch(t) ==
    /\ task[t].at = "apply"
    /\ wpwc' = Applied(t, Reconciled(t))
    /\ shop' = Resent(t, Reconciled(t))
    /\ LET plan == Restrict(task[t].plan, DOMAIN task[t].plan
                              \ (task[t].sent.create \cup DOMAIN task[t].sent.update))
           dels == task[t].dels \ task[t].sent.delete
       IN  IF Complete(t)
           THEN task' = [task EXCEPT
                    ![t].at = IF DOMAIN plan = {} /\ dels = {} THEN "vary" ELSE "send",
                    ![t].plan = plan, ![t].dels = dels, ![t].dirty = Nothing,
                    ![t].sent = NoBatch, ![t].got = NoAnswer]
           ELSE End(t)
    /\ UNCHANGED <<local, varShop, made, varLink, runs>>

\* Some are not found or not written again, or the answer is lost after: what
\* was found stays linked, the other answers are applied, and the task stops.
ApplyFails(t) ==
    /\ Faults /\ task[t].at = "apply" /\ task[t].got.clash # {}
    /\ \E found \in SUBSET DOMAIN Reconciled(t) : \E sent \in SUBSET found :
         /\ wpwc' = Applied(t, Restrict(Reconciled(t), found))
         /\ shop' = Resent(t, Restrict(Reconciled(t), sent))
    /\ End(t)
    /\ UNCHANGED <<local, varShop, made, varLink, runs>>
-----------------------------------------------------------------------------
\* Variations, one product at a time.

\* The variation of p under its parent id: written, created or deleted.
MutVaries(t, p, id) ==
    LET kids == Kids(id)
    IN  /\ id \in DOMAIN shop
        /\ IF varOn[p] /\ kids = {}
           THEN /\ made < MaxId /\ made' = made + 1
                /\ varShop' = With(made', id, varShop)
                /\ varLink' = [varLink EXCEPT ![p] = made']
           ELSE /\ varLink' = [varLink EXCEPT ![p] = None]
                /\ UNCHANGED <<varShop, made>>
Varies(t, p, id) ==
    LET kids == Kids(id)
    IN  /\ id \in DOMAIN shop
        /\ IF varOn[p] THEN \/ kids # {} /\ UNCHANGED <<varShop, made>>
                               /\ varLink' = [varLink EXCEPT ![p] = CHOOSE v \in kids : TRUE]
                            \/ kids = {} /\ made < MaxId /\ made' = made + 1
                               /\ varShop' = With(made', id, varShop)
                               /\ varLink' = [varLink EXCEPT ![p] = made']
                       ELSE /\ varShop' = Restrict(varShop, DOMAIN varShop \ kids)
                            /\ varLink' = [varLink EXCEPT ![p] = None]
                            /\ UNCHANGED made
Vary(t) ==
    /\ task[t].at = "vary" /\ task[t].vary # {}
    /\ LET p == Min(task[t].vary)
       IN  /\ IF p \in Varied /\ wpwc[p] # None
              THEN Varies(t, p, wpwc[p])
              ELSE UNCHANGED <<varShop, made, varLink>>
           /\ task' = [task EXCEPT ![t].vary = @ \ {p}]
    /\ UNCHANGED <<local, wpwc, shop, runs>>

\* The parent is gone, the shop refuses, or the answer is lost after the shop
\* has obeyed: the error is written with the identifier found, the task stops.
VaryFails(t) ==
    /\ task[t].at = "vary"
    /\ \E p \in task[t].vary \cap Varied :
         /\ p = Min(task[t].vary) /\ wpwc[p] # None
         /\ \/ wpwc[p] \notin DOMAIN shop /\ UNCHANGED <<varShop, made, varLink>>
            \/ Faults /\ \E v \in Kids(wpwc[p]) \cup {None} :
                 /\ v = None => Kids(wpwc[p]) = {}
                 /\ varLink' = IF v = None THEN varLink ELSE [varLink EXCEPT ![p] = v]
                 /\ \/ UNCHANGED <<varShop, made>>
                    \/ /\ v # None /\ ~varOn[p] /\ UNCHANGED made
                       /\ varShop' = Restrict(varShop, DOMAIN varShop \ {v})
                    \/ /\ v = None /\ varOn[p] /\ wpwc[p] \in DOMAIN shop
                       /\ made < MaxId /\ made' = made + 1
                       /\ varShop' = With(made', wpwc[p], varShop)
    /\ End(t)
    /\ UNCHANGED <<local, wpwc, shop, runs>>

\* Success is told; a push without identifier is told as an error.
Finish(t) ==
    /\ task[t].at = "vary" /\ task[t].vary = {}
    /\ IF task[t].kind = "push" /\ \E p \in task[t].mine : wpwc[p] = None
       THEN End(t) ELSE Tell(t)
    /\ UNCHANGED <<local, remote, wpwc, varLink, runs>>

Read(t) ==
    /\ task[t].at = "told" /\ End(t)
    /\ UNCHANGED <<local, remote, wpwc, varLink, runs>>
-----------------------------------------------------------------------------
\* The screens of the application and the back office of the shop.

ToggleProduct(p) ==
    /\ Quiet /\ active' = [active EXCEPT ![p] = ~@]
    /\ UNCHANGED <<content, varOn, remote, wpwc, varLink, task, runs>>

EditProduct(p) ==
    /\ Quiet /\ content[p] < MaxEdits /\ content' = [content EXCEPT ![p] = @ + 1]
    /\ UNCHANGED <<active, varOn, remote, wpwc, varLink, task, runs>>

\* A variation is closed (its row stays), or opened again by its form.
ToggleVariation(p) ==
    /\ Quiet /\ varOn' = [varOn EXCEPT ![p] = ~@]
    /\ UNCHANGED <<active, content, remote, wpwc, varLink, task, runs>>

ShopCreates ==
    /\ Quiet /\ made < MaxId /\ made' = made + 1
    /\ shop' = With(made', [sku |-> Own, text |-> 0], shop)
    /\ UNCHANGED <<local, varShop, wpwc, varLink, task, runs>>

ShopDeletes(id) ==
    /\ Quiet /\ shop' = Restrict(shop, DOMAIN shop \ {id})
    /\ varShop' = Restrict(varShop, {v \in DOMAIN varShop : varShop[v] # id})
    /\ UNCHANGED <<local, made, wpwc, varLink, task, runs>>

\* The process stops: sessions are lost, the shop keeps what it did.
Crash ==
    /\ Faults /\ Busy # {} /\ task' = [t \in Tasks |-> Idle]
    /\ UNCHANGED <<local, remote, wpwc, varLink, runs>>

Next ==
    /\ UNCHANGED alone
    /\ \/ \E t \in Tasks :
            \/ BeginSync(t) \/ ReadCatalogue(t) \/ ReadFails(t)
            \/ \E p \in Products : BeginPush(t, p)
            \/ SendBatch(t) \/ BatchFails(t) \/ ApplyBatch(t) \/ ApplyFails(t)
            \/ Vary(t) \/ VaryFails(t) \/ Finish(t) \/ Read(t)
       \/ \E p \in Products : ToggleProduct(p) \/ EditProduct(p)
       \/ \E p \in Varied : ToggleVariation(p)
       \/ ShopCreates \/ \E id \in DOMAIN shop : ShopDeletes(id)
       \/ Crash

Spec == Init /\ [][Next]_vars
-----------------------------------------------------------------------------
\* Two products never share a product of the shop, and the one a row points to
\* is a copy of that product: two pushes, a task that deletes and answers that
\* are lost cannot cross the links (returns.py applies answers by sku, by the
\* identifier kept, and looks a refused sku up).
LinkedToOwnCopy ==
    \A p \in DOMAIN wpwc : wpwc[p] \in DOMAIN shop => shop[wpwc[p]].sku = p

Copy(p) == wpwc[p] \in DOMAIN shop /\ shop[wpwc[p]] = [sku |-> p, text |-> content[p]]
VariationFollows(p) ==
    /\ varOn[p] <=> Kids(wpwc[p]) # {}
    /\ varLink[p] # None <=> varOn[p]
    /\ varOn[p] => Kids(wpwc[p]) = {varLink[p]}

\* One task at a time: a push told as a success has left the product in the
\* shop as it is here, its variation too (update_product returns an identifier
\* only then), also when earlier tries lost their answers.
PushIsTrue ==
    alone => \A t \in DOMAIN task : task[t].at = "told" =>
        \A p \in task[t].mine : Copy(p) /\ (p \in DOMAIN varOn => VariationFollows(p))

\* One task at a time: a global synchronisation told as a success has left the
\* shop with one copy of each active product and nothing else
\* (export_all_products).
SyncIsMirror ==
    alone => \A t \in DOMAIN task : task[t].at = "told" /\ task[t].kind = "sync" =>
        /\ \A p \in DOMAIN active : active[p] <=> wpwc[p] \in DOMAIN shop
        /\ DOMAIN shop \subseteq Range(wpwc)
=============================================================================
