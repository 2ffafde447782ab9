--------------------------- MODULE WooShopProofs ---------------------------
(***************************************************************************)
(* For any products, tasks, batches, rates and bounds, whatever the shop   *)
(* refuses, loses or the process drops.                                    *)
(*                                                                         *)
(* Any number of tasks: no product points to the copy of another one. The  *)
(* links of the rows are not enough: a task carries links it has found,    *)
(* sent or been answered, for as long as it runs, and writes them later.   *)
(* They all lead to their own product or nowhere (Linked), and go on doing *)
(* so because the shop never gives an identifier twice nor changes a sku   *)
(* (MovesOn); that a lookup by sku finds the right one needs every sku of  *)
(* ours to be in the shop once (ShopOK).                                   *)
(*                                                                         *)
(* One task at a time: what is told as a success is true. AloneInv says of *)
(* the task under way that what it has dealt with is in the shop as it is  *)
(* here, that what it is to send is what is here, that it will delete no   *)
(* product of its own and, synchronising, all the others (Strays), and     *)
(* that the answer it has not applied yet is still true (Answer).          *)
(*                                                                         *)
(* Rates: when the dates of a code are typed in order, no instant has two  *)
(* of its rates. It speaks of the instants of the model; VatInv says it of *)
(* the rows: one of two rates of a code ends before the other begins. Once *)
(* it holds, whatever only brings ends forward keeps it, which all the     *)
(* screens but the creation do, and the reconciliations change no date.    *)
(*                                                                         *)
(* Orders, whatever is lost: no two rows share an order of the shop. The   *)
(* task sees rows that are not committed, so OrdersInv says it of what its *)
(* session holds, which goes on from what is committed (SessionOK), and of *)
(* the orders it is about to import, which no row has (DirectOK). In a     *)
(* calm behaviour a push leaves no order in the shop without its link      *)
(* (CopiesAreLinked), and a cancellation that the ERP has not taken over   *)
(* is shown by the shop and among what the task has to do (WantedOK).      *)
(* When also no line of an order with a fee is replaced between two        *)
(* pushes, MatchInv says that the shop has of every order the lines that   *)
(* were pushed or are still to be removed, and charges its fee once,       *)
(* whatever was edited since: a push adds the lines it sends, removes what *)
(* it names, and is answered with lines that go, in ascending order, to    *)
(* those without identifier (Ranks, PushedLines).                          *)
(***************************************************************************)
EXTENDS WooShop, WooOrders, Sums, SequenceTheorems

(* The rows.                                                               *)

\* A choice of numbers for some of the products.
Numbered == UNION {[S -> Nat] : S \in SUBSET Products}

Batches == [create : SUBSET Products, update : Numbered, delete : SUBSET Nat]
Answers == [link : Numbered, clash : SUBSET Products, gone : SUBSET Nat, failed : BOOLEAN]
TaskRows ==
    [kind : {"none", "sync", "push"},
     at : {"idle", "read", "send", "apply", "lost", "vary", "told"},
     mine : SUBSET Products, plan : Numbered, text : Numbered, dels : SUBSET Nat,
     dirty : Numbered, sent : Batches, got : Answers, vary : SUBSET Products]

\* Identifiers f, given up to n, that lead to the product they are kept for or,
\* in the shop sh, nowhere.
Linked(f, sh, n) ==
    /\ DOMAIN f \subseteq Products
    /\ f \in [DOMAIN f -> 0 .. n]
    /\ \A p \in DOMAIN f : f[p] \in DOMAIN sh => sh[f[p]].sku = p

\* The shop has identifiers it gave, and no sku of ours twice.
ShopOK(sh, n) ==
    /\ n \in Nat
    /\ DOMAIN sh \subseteq 1 .. n
    /\ sh \in [DOMAIN sh -> [sku : Products \union {Own}, text : Nat]]
    /\ \A i, j \in DOMAIN sh : sh[i].sku = sh[j].sku /\ sh[i].sku \in Products => i = j

\* A parent has one variation at most.
KidsOK(vs, n) ==
    /\ DOMAIN vs \subseteq 1 .. n
    /\ vs \in [DOMAIN vs -> Nat]
    /\ \A v, w \in DOMAIN vs : vs[v] = vs[w] => v = w

TaskOK(r, sh, n) ==
    /\ r \in TaskRows
    /\ DOMAIN r.plan \subseteq DOMAIN r.text
    /\ r.at = "apply" => r.got.clash \subseteq DOMAIN r.text
    /\ Linked(r.plan, sh, n) /\ Linked(r.dirty, sh, n)
    /\ Linked(r.sent.update, sh, n) /\ Linked(r.got.link, sh, n)

LocalOK ==
    /\ active \in [Products -> BOOLEAN] /\ content \in [Products -> Nat]
    /\ varOn \in [Varied -> BOOLEAN]
LinksOK(wp, vl, sh, n) ==
    /\ wp \in [Products -> Nat] /\ Linked(wp, sh, n)
    /\ vl \in [Varied -> Nat]

TasksOK(ts, sh, n) ==
    /\ ts \in [Tasks -> TaskRows]
    /\ \A t \in Tasks : TaskOK(ts[t], sh, n)

Inv ==
    /\ LocalOK
    /\ ShopOK(shop, made)
    /\ KidsOK(varShop, made)
    /\ LinksOK(wpwc, varLink, shop, made)
    /\ TasksOK(task, shop, made)

-----------------------------------------------------------------------------
(* Choices of numbers and links.                                           *)

\* What a choice of numbers is.
LEMMA NumberedType ==
    ASSUME NEW f
    PROVE  f \in Numbered <=> DOMAIN f \subseteq Products /\ f \in [DOMAIN f -> Nat]
BY DEF Numbered

\* Links are numbers.
LEMMA LinkedNumbers ==
    ASSUME NEW n \in Nat, NEW sh, NEW f, Linked(f, sh, n)
    PROVE  f \in Numbered
<1>1. DOMAIN f \subseteq Products /\ f \in [DOMAIN f -> Nat]
  BY DEF Linked
<1> QED
  BY <1>1, NumberedType

\* No link at all.
LEMMA NothingLinked ==
    ASSUME NEW n \in Nat, NEW sh
    PROVE  Linked(Nothing, sh, n) /\ Nothing \in Numbered
<1>1. DOMAIN Nothing = {} /\ Nothing \in [{} -> 0 .. n]
  BY DEF Nothing
<1>2. Linked(Nothing, sh, n)
  BY <1>1 DEF Linked
<1> QED
  BY <1>2, LinkedNumbers

\* Links put before others.
LEMMA MergedLinked ==
    ASSUME NEW n \in Nat, NEW sh, NEW f, NEW g, Linked(f, sh, n), Linked(g, sh, n)
    PROVE  Linked(Over(f, g), sh, n)
<1> DEFINE h == Over(f, g)
<1>1. DOMAIN h = DOMAIN f \union DOMAIN g
  BY DEF Over
<1>2. \A p \in DOMAIN f : h[p] = f[p]
  BY <1>1 DEF Over
<1>3. \A p \in DOMAIN g : p \notin DOMAIN f => h[p] = g[p]
  BY <1>1 DEF Over
<1>4. h = [p \in DOMAIN h |-> h[p]]
  BY DEF Over
<1> HIDE DEF h
<1>5. h \in [DOMAIN h -> 0 .. n]
  BY <1>1, <1>2, <1>3, <1>4 DEF Linked
<1>6. \A p \in DOMAIN h : h[p] \in DOMAIN sh => sh[h[p]].sku = p
  BY <1>1, <1>2, <1>3 DEF Linked
<1>7. Linked(h, sh, n)
  BY <1>1, <1>5, <1>6 DEF Linked
<1> QED
  BY <1>7 DEF h

\* Some of the links.
LEMMA RestrictedLinked ==
    ASSUME NEW n \in Nat, NEW sh, NEW f, NEW S, Linked(f, sh, n), S \subseteq DOMAIN f
    PROVE  Linked(Restrict(f, S), sh, n) /\ DOMAIN Restrict(f, S) = S
<1>1. Restrict(f, S) = [p \in S |-> f[p]]
  BY DEF Restrict
<1> QED
  BY <1>1 DEF Linked

\* The shop only moves on: what it had and still has is the same product, what
\* is new has a new identifier.
MovesOn(sh, n, sh2) == \A id \in DOMAIN sh2 : id <= n => id \in DOMAIN sh /\ sh2[id].sku = sh[id].sku

\* Links outlive what the shop does.
LEMMA LinkedMovesOn ==
    ASSUME NEW n \in Nat, NEW m \in Nat, NEW sh, NEW sh2, NEW f,
           n <= m, MovesOn(sh, n, sh2), Linked(f, sh, n)
    PROVE  Linked(f, sh2, m)
<1>1. f \in [DOMAIN f -> 0 .. m]
  BY DEF Linked
<1>2. ASSUME NEW p \in DOMAIN f, f[p] \in DOMAIN sh2
      PROVE  sh2[f[p]].sku = p
  <2>1. f[p] <= n
    BY DEF Linked
  <2> QED
    BY <1>2, <2>1 DEF Linked, MovesOn
<1> QED
  BY <1>1, <1>2 DEF Linked

\* So do the tasks.
LEMMA TaskMovesOn ==
    ASSUME NEW n \in Nat, NEW m \in Nat, NEW sh, NEW sh2, NEW r,
           n <= m, MovesOn(sh, n, sh2), TaskOK(r, sh, n)
    PROVE  TaskOK(r, sh2, m)
BY LinkedMovesOn DEF TaskOK

\* And all of them, but for the one that changed.
LEMMA TasksMoveOn ==
    ASSUME NEW n \in Nat, NEW m \in Nat, NEW sh, NEW sh2, NEW ts, NEW t, NEW r,
           n <= m, MovesOn(sh, n, sh2), TasksOK(ts, sh, n), TaskOK(r, sh2, m)
    PROVE  TasksOK([ts EXCEPT ![t] = r], sh2, m)
<1> DEFINE new == [ts EXCEPT ![t] = r]
<1>1. r \in TaskRows
  BY DEF TaskOK
<1>2. new \in [Tasks -> TaskRows]
  BY <1>1 DEF TasksOK
<1>3. ASSUME NEW u \in Tasks
      PROVE  TaskOK(new[u], sh2, m)
  <2>1. TaskOK(ts[u], sh, n) /\ new[u] = IF u = t THEN r ELSE ts[u]
    BY DEF TasksOK
  <2>2. TaskOK(ts[u], sh2, m)
    BY <2>1, TaskMovesOn
  <2> QED
    BY <2>1, <2>2
<1> QED
  BY <1>2, <1>3 DEF TasksOK

\* The rest task.
LEMMA IdleOK ==
    ASSUME NEW n \in Nat, NEW sh
    PROVE  TaskOK(Idle, sh, n)
<1>1. Linked(Nothing, sh, n) /\ Nothing \in Numbered
  BY NothingLinked
<1>2. NoBatch \in Batches /\ NoBatch.update = Nothing
  BY <1>1 DEF NoBatch, Batches
<1>3. NoAnswer \in Answers /\ NoAnswer.link = Nothing
  BY <1>1 DEF NoAnswer, Answers
<1>4. Idle \in TaskRows
  BY <1>1, <1>2, <1>3 DEF Idle, TaskRows
<1> QED
  BY <1>1, <1>2, <1>3, <1>4 DEF TaskOK, Idle

\* Products are finite in number, so are their parts.
LEMMA SomeProducts ==
    ASSUME NEW S, S \subseteq Products
    PROVE  IsFiniteSet(S) /\ Cardinality(S) \in Nat
BY WooCatalogueAssumption, FS_Subset, FS_CardinalityType

-----------------------------------------------------------------------------
(* Reading.                                                                *)

\* A product of the shop is matched by the identifier or by the sku.
LEMMA FoundLinked ==
    ASSUME Inv, NEW S, S \subseteq Products
    PROVE  Linked(Found(S), shop, made) /\ DOMAIN Found(S) = S
<1> DEFINE f == Found(S)
<1>1. DOMAIN f = S
  BY DEF Found
<1>2. ASSUME NEW p \in S
      PROVE  f[p] \in 0 .. made /\ (f[p] \in DOMAIN shop => shop[f[p]].sku = p)
  <2>0. made \in Nat /\ DOMAIN shop \subseteq 1 .. made /\ p \in DOMAIN wpwc
    BY DEF Inv, ShopOK, LinksOK
  <2>1. CASE Matched(p) = {}
    <3>1. f[p] = 0
      BY <2>1 DEF Found, None
    <3> QED
      BY <2>0, <3>1
  <2>2. CASE Matched(p) # {}
    <3>1. f[p] \in Matched(p)
      <4>1. f[p] = CHOOSE id \in Matched(p) : TRUE
        BY <2>2 DEF Found
      <4> QED
        BY <2>2, <4>1
    <3>2. f[p] \in DOMAIN shop /\ (f[p] = wpwc[p] \/ shop[f[p]].sku = p)
      BY <3>1 DEF Matched
    <3>3. wpwc[p] \in DOMAIN shop => shop[wpwc[p]].sku = p
      BY <2>0 DEF Inv, LinksOK, Linked
    <3> QED
      BY <2>0, <3>2, <3>3
  <2> QED
    BY <2>1, <2>2
<1>3. f = [p \in S |-> f[p]]
  BY DEF Found
<1> HIDE DEF f
<1>4. Linked(f, shop, made)
  BY <1>1, <1>2, <1>3 DEF Linked
<1> QED
  BY <1>1, <1>4 DEF f

\* A task that has compared the products S with the shop.
LEMMA PlannedOK ==
    ASSUME Inv, NEW t \in Tasks, NEW S, NEW found, NEW dels,
           S \subseteq Products, DOMAIN found = S, Linked(found, shop, made),
           dels \subseteq Nat
    PROVE  TaskOK(Planned(t, S, found, dels), shop, made)
<1> DEFINE r == Planned(t, S, found, dels)
           text == [p \in S |-> Payload(p)]
           T == {q \in S : found[q] \notin {None, wpwc[q]}}
           dirty == [p \in T |-> found[p]]
<1>0. made \in Nat
  BY DEF Inv, ShopOK
<1>1. TaskOK(task[t], shop, made) /\ task[t] \in TaskRows
  BY DEF Inv, TasksOK
<1>2. text \in Numbered /\ DOMAIN text = S
  <2>1. text \in [S -> Nat]
    BY DEF Payload, Inv, LocalOK
  <2> QED
    BY <2>1 DEF Numbered
<1>3. Linked(dirty, shop, made) /\ dirty \in Numbered
  <2>1. dirty = Restrict(found, T) /\ T \subseteq DOMAIN found
    BY DEF Restrict
  <2> HIDE DEF dirty, T
  <2>2. Linked(dirty, shop, made)
    BY <1>0, <2>1, RestrictedLinked
  <2> QED
    BY <1>0, <2>2, LinkedNumbers
<1>4. found \in Numbered
  BY <1>0, LinkedNumbers
<1>5. PICK at \in {"vary", "send"} :
        r = [task[t] EXCEPT !.at = at, !.plan = found, !.text = text, !.dels = dels,
                            !.dirty = dirty, !.vary = S]
  BY Zenon DEF Planned
<1> HIDE DEF text, dirty, r
<1>6. r \in TaskRows
  BY <1>1, <1>2, <1>3, <1>4, <1>5 DEF TaskRows
<1>7. /\ r.plan = found /\ r.text = text /\ r.dirty = dirty /\ r.at # "apply"
      /\ r.sent = task[t].sent /\ r.got = task[t].got
  BY <1>1, <1>5 DEF TaskRows
<1>8. /\ DOMAIN r.plan \subseteq DOMAIN r.text
      /\ r.at = "apply" => r.got.clash \subseteq DOMAIN r.text
  BY <1>2, <1>7
<1>9. /\ Linked(r.plan, shop, made) /\ Linked(r.dirty, shop, made)
      /\ Linked(r.sent.update, shop, made) /\ Linked(r.got.link, shop, made)
  BY <1>1, <1>3, <1>7 DEF TaskOK
<1>10. TaskOK(r, shop, made)
  BY <1>6, <1>8, <1>9 DEF TaskOK
<1> QED
  BY <1>10 DEF r

-----------------------------------------------------------------------------
(* Batches.                                                                *)

\* A batch of what task t has planned.
BatchOf(t, b) ==
    /\ b \in Batches
    /\ Linked(b.update, shop, made)
    /\ b.create \subseteq DOMAIN task[t].plan /\ DOMAIN b.update \subseteq DOMAIN task[t].plan
    /\ b.create \intersect DOMAIN b.update = {}
    /\ b.delete \subseteq task[t].dels
    /\ b.delete = {} \/ (b.create = {} /\ DOMAIN b.update = {})

\* Whatever the task sends next is such a batch.
LEMMA NextBatchOK ==
    ASSUME Inv, NEW t \in Tasks, NEW b \in NextBatch(t)
    PROVE  BatchOf(t, b)
<1> DEFINE todo == task[t].plan
           some == Least(Batch, DOMAIN todo)
           new == {p \in some : todo[p] = None}
<1>0. made \in Nat /\ task[t] \in TaskRows /\ Linked(todo, shop, made)
  BY DEF Inv, ShopOK, TasksOK, TaskOK
<1>1. DOMAIN todo \subseteq Products /\ some \subseteq DOMAIN todo /\ new \subseteq some
  BY <1>0 DEF Linked, Least
<1>2. CASE b = [create |-> new, update |-> Restrict(todo, some \ new), delete |-> {}]
  <2>1. some \ new \subseteq DOMAIN todo
    BY <1>1
  <2> DEFINE up == Restrict(todo, some \ new)
  <2> HIDE DEF some, new, todo
  <2>2. Linked(up, shop, made) /\ DOMAIN up = some \ new
    BY <1>0, <2>1, RestrictedLinked
  <2>3. up \in Numbered
    BY <1>0, <2>2, LinkedNumbers
  <2> HIDE DEF up
  <2>4. b.create = new /\ b.update = up /\ b.delete = {} /\ b \in Batches
    BY <1>1, <1>2, <2>3 DEF Batches, up
  <2> QED
    BY <1>1, <2>2, <2>4 DEF BatchOf, todo
<1>3. ASSUME NEW D \in SUBSET task[t].dels,
             b = [create |-> {}, update |-> Nothing, delete |-> D]
      PROVE  BatchOf(t, b)
  <2>1. Linked(Nothing, shop, made) /\ Nothing \in Numbered /\ DOMAIN Nothing = {}
    BY <1>0, NothingLinked DEF Nothing
  <2>2. task[t].dels \subseteq Nat
    BY <1>0 DEF TaskRows
  <2> HIDE DEF todo
  <2>3. b \in Batches
    BY <1>3, <2>1, <2>2 DEF Batches
  <2> QED
    BY <1>3, <2>1, <2>3 DEF BatchOf
<1> QED
  BY <1>2, <1>3 DEF NextBatch

\* What the shop has done with batch b of task t.
Done(t, b, ids) ==
    /\ made' \in Nat /\ made <= made'
    /\ DOMAIN shop' = (DOMAIN shop \ b.delete) \union Range(ids)
    /\ \E all, S : shop' = Restrict(all, S)
    /\ \A p \in DOMAIN ids : /\ ids[p] \in made + 1 .. made'
                             /\ shop'[ids[p]] = [sku |-> p, text |-> task[t].text[p]]
    /\ \A p \in DOMAIN b.update : b.update[p] \in DOMAIN shop =>
         shop'[b.update[p]] = [sku |-> p, text |-> task[t].text[p]]
    /\ \A id \in DOMAIN shop \ b.delete :
         \/ shop'[id] = shop[id]
         \/ \E p \in DOMAIN b.update : b.update[p] = id
    /\ varShop' = Restrict(varShop, {v \in DOMAIN varShop :
                                       varShop[v] \notin b.delete \intersect DOMAIN shop})

\* The shop does with such a batch what it says.
LEMMA ExecutedDone ==
    ASSUME Inv, NEW t \in Tasks, NEW b, BatchOf(t, b),
           NEW ids \in Given({p \in b.create : ~HasSku(p)}), Executed(t, b, ids)
    PROVE  Done(t, b, ids)
<1> DEFINE born == {p \in b.create : ~HasSku(p)}
           kept == {p \in DOMAIN b.update : b.update[p] \in DOMAIN shop}
           gone == b.delete \cap DOMAIN shop
           copy(p) == [sku |-> p, text |-> task[t].text[p]]
           fresh == [id \in Range(ids) |-> copy(CHOOSE p \in born : ids[p] = id)]
           newer == [id \in {b.update[p] : p \in kept} |->
                       copy(CHOOSE p \in kept : b.update[p] = id)]
           rest == Over(newer, shop)
           all == Over(fresh, rest)
<1>1. /\ shop' = Restrict(all, DOMAIN all \ gone)
      /\ varShop' = Restrict(varShop, {v \in DOMAIN varShop : varShop[v] \notin gone})
      /\ made' = made + Cardinality(born)
  BY DEF Executed
<1>2. born \subseteq Products /\ made \in Nat /\ DOMAIN shop \subseteq 1 .. made
  <2>1. b.create \subseteq Products
    BY DEF BatchOf, Batches
  <2> QED
    BY <2>1 DEF Inv, ShopOK
<1>3. Cardinality(born) \in Nat
  <2> HIDE DEF born
  <2> QED
    BY <1>2, SomeProducts
<1>4. /\ ids \in [born -> made + 1 .. made + Cardinality(born)] /\ IsInjective(ids)
  BY DEF Given
<1>5. DOMAIN ids = born /\ \A p \in born : ids[p] \in made + 1 .. made' /\ ids[p] \notin DOMAIN shop
  BY <1>1, <1>2, <1>3, <1>4
<1>6. Range(ids) = {ids[p] : p \in born}
  BY <1>5 DEF Range
<1>7. ASSUME NEW p \in born
      PROVE  fresh[ids[p]] = copy(p) /\ ids[p] \in Range(ids)
  <2> DEFINE q == CHOOSE x \in born : ids[x] = ids[p]
  <2>1. q \in born /\ ids[q] = ids[p]
    OBVIOUS
  <2>2. q = p
    BY <1>4, <1>5, <2>1 DEF IsInjective
  <2>3. ids[p] \in Range(ids)
    BY <1>6
  <2>4. fresh[ids[p]] = copy(q)
    BY <2>3
  <2> QED
    BY <2>2, <2>3, <2>4
<1>8. ASSUME NEW p \in kept
      PROVE  newer[b.update[p]] = copy(p)
  <2> DEFINE q == CHOOSE x \in kept : b.update[x] = b.update[p]
  <2>1. q \in kept /\ b.update[q] = b.update[p]
    OBVIOUS
  <2>2. q = p
    <3>1. \A x \in kept : shop[b.update[x]].sku = x
      BY DEF BatchOf, Linked
    <3> QED
      BY <2>1, <3>1
  <2>3. newer[b.update[p]] = copy(q)
    OBVIOUS
  <2> QED
    BY <2>2, <2>3
<1>9. DOMAIN rest = DOMAIN shop /\ DOMAIN all = DOMAIN shop \union Range(ids)
  BY DEF Over
<1>10. DOMAIN shop' = (DOMAIN shop \ b.delete) \union Range(ids)
  <2>1. gone \intersect Range(ids) = {}
    BY <1>5, <1>6
  <2>2. DOMAIN shop' = DOMAIN all \ gone
    BY <1>1 DEF Restrict
  <2> HIDE DEF all
  <2> QED
    BY <1>9, <2>1, <2>2
<1>11. ASSUME NEW id \in DOMAIN shop'
       PROVE  shop'[id] = IF id \in Range(ids) THEN fresh[id]
                          ELSE IF id \in DOMAIN newer THEN newer[id] ELSE shop[id]
  <2>1. shop'[id] = all[id] /\ id \in DOMAIN all
    <3>1. DOMAIN shop' = DOMAIN all \ gone
      BY <1>1 DEF Restrict
    <3> HIDE DEF all, gone
    <3> QED
      BY <1>1, <3>1 DEF Restrict
  <2>2. DOMAIN fresh = Range(ids)
    OBVIOUS
  <2> HIDE DEF fresh, newer
  <2>3. all[id] = IF id \in Range(ids) THEN fresh[id] ELSE rest[id]
    BY <2>1, <2>2 DEF Over
  <2>4. id \notin Range(ids) => id \in DOMAIN rest
    BY <1>9, <2>1
  <2>5. id \notin Range(ids) => rest[id] = IF id \in DOMAIN newer THEN newer[id] ELSE shop[id]
    BY <2>4 DEF Over
  <2> QED
    BY <2>1, <2>3, <2>5
<1>12. ASSUME NEW p \in DOMAIN ids
       PROVE  ids[p] \in made + 1 .. made' /\ shop'[ids[p]] = copy(p)
  <2>1. p \in born /\ ids[p] \in Range(ids) /\ ids[p] \in DOMAIN shop'
    BY <1>5, <1>7, <1>10
  <2>2. shop'[ids[p]] = fresh[ids[p]]
    BY <1>11, <2>1
  <2> QED
    BY <1>5, <1>7, <2>1, <2>2
<1>13. ASSUME NEW p \in DOMAIN b.update, b.update[p] \in DOMAIN shop
       PROVE  shop'[b.update[p]] = copy(p)
  <2>1. p \in kept /\ b.delete = {}
    BY <1>13 DEF BatchOf
  <2>2. b.update[p] \in DOMAIN shop' /\ b.update[p] \notin Range(ids)
    BY <1>5, <1>6, <1>10, <1>13, <2>1
  <2>3. b.update[p] \in DOMAIN newer
    BY <2>1
  <2>4. shop'[b.update[p]] = newer[b.update[p]]
    BY <1>11, <2>2, <2>3
  <2> QED
    BY <1>8, <2>1, <2>4
<1>14. ASSUME NEW id \in DOMAIN shop \ b.delete
       PROVE  shop'[id] = shop[id] \/ \E p \in DOMAIN b.update : b.update[p] = id
  <2>1. id \in DOMAIN shop' /\ id \notin Range(ids)
    BY <1>5, <1>6, <1>10
  <2>2. CASE id \in DOMAIN newer
    BY <2>2
  <2>3. CASE id \notin DOMAIN newer
    BY <1>11, <2>1, <2>3
  <2> QED
    BY <2>2, <2>3
<1>15. made' \in Nat /\ made <= made'
  BY <1>1, <1>2, <1>3
<1>16. varShop' = Restrict(varShop, {v \in DOMAIN varShop :
                                       varShop[v] \notin b.delete \intersect DOMAIN shop})
  BY <1>1
<1>17. \E f, S : shop' = Restrict(f, S)
  BY <1>1
<1> HIDE DEF born, kept, gone, fresh, newer, rest, all
<1> QED
  BY <1>10, <1>12, <1>13, <1>14, <1>15, <1>16, <1>17 DEF Done

\* A batch leaves a sound shop that has moved on.
LEMMA DoneShop ==
    ASSUME Inv, NEW t \in Tasks, NEW b, BatchOf(t, b),
           NEW ids \in Given({p \in b.create : ~HasSku(p)}), Done(t, b, ids)
    PROVE  /\ ShopOK(shop', made') /\ KidsOK(varShop', made')
           /\ MovesOn(shop, made, shop')
<1> DEFINE new == shop'
           Old == DOMAIN shop \ b.delete
<1>1. /\ made \in Nat /\ made' \in Nat /\ made <= made' /\ DOMAIN shop \subseteq 1 .. made
      /\ DOMAIN new = Old \union Range(ids)
  BY DEF Done, Inv, ShopOK
<1>2. /\ DOMAIN ids \subseteq Products /\ Range(ids) = {ids[p] : p \in DOMAIN ids}
      /\ \A p \in DOMAIN ids : p \in b.create /\ ~HasSku(p)
  <2>1. DOMAIN ids = {p \in b.create : ~HasSku(p)}
    BY DEF Given
  <2> QED
    BY <2>1 DEF Range, BatchOf, Batches
<1>3. ASSUME NEW id \in Range(ids)
      PROVE  /\ id \in made + 1 .. made' /\ id \notin DOMAIN shop
             /\ \E p \in DOMAIN ids : /\ id = ids[p] /\ p \in b.create /\ p \in Products /\ ~HasSku(p)
                                     /\ new[id] = [sku |-> p, text |-> task[t].text[p]]
  <2>1. PICK p \in DOMAIN ids : id = ids[p]
    BY <1>2
  <2>2. id \in made + 1 .. made' /\ new[id] = [sku |-> p, text |-> task[t].text[p]]
    BY <2>1 DEF Done
  <2> QED
    BY <1>1, <1>2, <2>1, <2>2
<1>4. /\ b.create \subseteq DOMAIN task[t].text /\ DOMAIN b.update \subseteq DOMAIN task[t].text
      /\ \A p \in DOMAIN task[t].text : p \in Products /\ task[t].text[p] \in Nat
  <2>1. TaskOK(task[t], shop, made)
    BY DEF Inv, TasksOK
  <2>2. task[t].text \in Numbered
    BY <2>1 DEF TaskOK, TaskRows
  <2> QED
    BY <2>1, <2>2, NumberedType DEF BatchOf, TaskOK
<1>5. ASSUME NEW id \in Old
      PROVE  /\ new[id].sku = shop[id].sku
             /\ new[id] \in [sku : Products \union {Own}, text : Nat]
  <2>1. shop[id] \in [sku : Products \union {Own}, text : Nat]
    BY DEF Inv, ShopOK
  <2>2. CASE new[id] = shop[id]
    BY <2>1, <2>2
  <2>3. CASE \E p \in DOMAIN b.update : b.update[p] = id
    <3>1. PICK p \in DOMAIN b.update : b.update[p] = id
      BY <2>3
    <3>2. new[id] = [sku |-> p, text |-> task[t].text[p]]
      BY <3>1 DEF Done
    <3>3. shop[id].sku = p
      BY <3>1 DEF BatchOf, Linked
    <3>4. p \in Products /\ task[t].text[p] \in Nat
      BY <1>4
    <3> QED
      BY <3>2, <3>3, <3>4
  <2> QED
    BY <2>2, <2>3 DEF Done
<1>6. MovesOn(shop, made, shop')
  <2>1. ASSUME NEW id \in DOMAIN new, id <= made
        PROVE  id \in Old
    BY <1>1, <1>2, <1>3, <2>1
  <2> QED
    BY <1>5, <2>1 DEF MovesOn
<1>7. DOMAIN new \subseteq 1 .. made'
  BY <1>1, <1>2, <1>3
<1>8. ASSUME NEW id \in DOMAIN new
      PROVE  new[id] \in [sku : Products \union {Own}, text : Nat]
  <2>1. CASE id \in Old
    BY <1>5, <2>1
  <2>2. CASE id \in Range(ids)
    <3>1. PICK p \in DOMAIN ids : /\ p \in b.create /\ p \in Products
                                   /\ new[id] = [sku |-> p, text |-> task[t].text[p]]
      BY <1>3, <2>2
    <3>2. task[t].text[p] \in Nat
      BY <1>4, <3>1
    <3> QED
      BY <3>1, <3>2
  <2> QED
    BY <1>1, <2>1, <2>2
<1>9. ASSUME NEW i \in DOMAIN new, NEW j \in DOMAIN new,
             new[i].sku = new[j].sku, new[i].sku \in Products
      PROVE  i = j
  <2>1. ASSUME NEW k \in Old, NEW l \in Range(ids)
        PROVE  new[k].sku # new[l].sku
    <3>1. PICK p \in DOMAIN ids : ~HasSku(p) /\ new[l] = [sku |-> p, text |-> task[t].text[p]]
      BY <1>3
    <3>2. new[k].sku = shop[k].sku /\ new[l].sku = p
      BY <1>5, <3>1
    <3> QED
      BY <3>1, <3>2 DEF HasSku
  <2>2. CASE i \in Old /\ j \in Old
    BY <1>5, <1>9, <2>2 DEF Inv, ShopOK
  <2>3. CASE i \in Range(ids) /\ j \in Range(ids)
    <3>1. PICK p \in DOMAIN ids : i = ids[p] /\ new[i] = [sku |-> p, text |-> task[t].text[p]]
      BY <1>3, <2>3
    <3>2. PICK q \in DOMAIN ids : j = ids[q] /\ new[j] = [sku |-> q, text |-> task[t].text[q]]
      BY <1>3, <2>3
    <3>3. new[i].sku = p /\ new[j].sku = q
      BY <3>1, <3>2
    <3> QED
      BY <1>9, <3>1, <3>2, <3>3
  <2>4. CASE i \in Old /\ j \in Range(ids)
    BY <1>2, <1>9, <2>1, <2>4
  <2>5. CASE i \in Range(ids) /\ j \in Old
    BY <1>2, <1>9, <2>1, <2>5
  <2> QED
    BY <1>1, <2>2, <2>3, <2>4, <2>5
<1>10. new \in [DOMAIN new -> [sku : Products \union {Own}, text : Nat]]
  <2>1. new = [id \in DOMAIN new |-> new[id]]
    <3>1. PICK all, S : new = Restrict(all, S)
      BY DEF Done
    <3> QED
      BY <3>1 DEF Restrict
  <2> QED
    BY <1>8, <2>1
<1>11. ShopOK(shop', made')
  BY <1>1, <1>7, <1>9, <1>10 DEF ShopOK
<1>12. KidsOK(varShop', made')
  <2> DEFINE V == {v \in DOMAIN varShop : varShop[v] \notin b.delete \intersect DOMAIN shop}
  <2>1. varShop' = [v \in V |-> varShop[v]]
    BY DEF Done, Restrict
  <2> QED
    BY <1>1, <2>1 DEF KidsOK, Inv
<1> QED
  BY <1>6, <1>11, <1>12

\* The answer to a batch links the products to what the shop has made of them.
LEMMA AnswerOK ==
    ASSUME Inv, NEW t \in Tasks, NEW b, BatchOf(t, b),
           NEW ids \in Given({p \in b.create : ~HasSku(p)}), Done(t, b, ids)
    PROVE  /\ Answered(b, ids) \in Answers
           /\ Linked(Answered(b, ids).link, shop', made')
           /\ Answered(b, ids).clash = {p \in b.create : HasSku(p)}
<1> DEFINE S == {p \in DOMAIN b.update : b.update[p] \in DOMAIN shop}
           some == Restrict(b.update, S)
           link == Over(ids, some)
           a == Answered(b, ids)
<1>1. made \in Nat /\ made' \in Nat /\ made <= made' /\ DOMAIN shop \subseteq 1 .. made
  BY DEF Done, Inv, ShopOK
<1>2. Linked(ids, shop', made')
  <2>1. DOMAIN ids = {p \in b.create : ~HasSku(p)} /\ ids = [p \in DOMAIN ids |-> ids[p]]
    BY DEF Given
  <2>2. DOMAIN ids \subseteq Products
    BY <2>1 DEF BatchOf, Batches
  <2>3. ASSUME NEW p \in DOMAIN ids
        PROVE  ids[p] \in 0 .. made' /\ shop'[ids[p]].sku = p
    <3>1. ids[p] \in made + 1 .. made' /\ shop'[ids[p]] = [sku |-> p, text |-> task[t].text[p]]
      BY DEF Done
    <3>2. ids[p] \in 0 .. made'
      BY <1>1, <3>1
    <3>3. shop'[ids[p]].sku = p
      BY <3>1
    <3> QED
      BY <3>2, <3>3
  <2>4. ids \in [DOMAIN ids -> 0 .. made']
    BY <2>1, <2>3
  <2> QED
    BY <2>2, <2>3, <2>4 DEF Linked
<1>3. Linked(some, shop', made')
  <2>1. Linked(some, shop, made)
    <3>1. S \subseteq DOMAIN b.update /\ Linked(b.update, shop, made)
      BY DEF BatchOf
    <3> HIDE DEF S
    <3> QED
      BY <1>1, <3>1, RestrictedLinked
  <2>2. MovesOn(shop, made, shop')
    BY DoneShop
  <2> HIDE DEF some
  <2> QED
    BY <1>1, <2>1, <2>2, LinkedMovesOn
<1>4. Linked(link, shop', made') /\ link \in Numbered
  <2> HIDE DEF some
  <2>1. Linked(link, shop', made')
    BY <1>1, <1>2, <1>3, MergedLinked
  <2> HIDE DEF link
  <2> QED
    BY <1>1, <2>1, LinkedNumbers
<1>5. /\ a.link = link /\ a.clash = {p \in b.create : HasSku(p)}
      /\ a.gone = b.delete \intersect DOMAIN shop
      /\ a = [link |-> a.link, clash |-> a.clash, gone |-> a.gone, failed |-> a.failed]
      /\ a.failed \in BOOLEAN
  BY DEF Answered
<1>6. a.clash \subseteq Products /\ a.gone \subseteq Nat
  BY <1>5 DEF BatchOf, Batches
<1> HIDE DEF a, link
<1>7. a \in Answers
  BY <1>4, <1>5, <1>6 DEF Answers
<1> QED
  BY <1>4, <1>5, <1>7 DEF a

\* A batch that leaves keeps the invariant.
LEMMA SendBatchOK ==
    ASSUME Inv, NEW t \in Tasks, SendBatch(t)
    PROVE  Inv'
<1>0. PICK b \in NextBatch(t) : \E ids \in Given({p \in b.create : ~HasSku(p)}) :
        /\ Executed(t, b, ids)
        /\ \E how \in {"apply", "lost"} :
             task' = [task EXCEPT ![t].at = how, ![t].sent = b, ![t].got = Answered(b, ids)]
  BY DEF SendBatch
<1>1. PICK ids \in Given({p \in b.create : ~HasSku(p)}), how \in {"apply", "lost"} :
        /\ Executed(t, b, ids)
        /\ task' = [task EXCEPT ![t].at = how, ![t].sent = b, ![t].got = Answered(b, ids)]
  BY <1>0
<1>2. BatchOf(t, b)
  BY NextBatchOK
<1>3. Done(t, b, ids)
  BY <1>1, <1>2, ExecutedDone
<1>4. /\ ShopOK(shop', made') /\ KidsOK(varShop', made') /\ MovesOn(shop, made, shop')
      /\ made \in Nat /\ made' \in Nat /\ made <= made'
  BY <1>2, <1>3, DoneShop DEF Done, Inv, ShopOK
<1> DEFINE a == Answered(b, ids)
           r == [task[t] EXCEPT !.at = how, !.sent = b, !.got = a]
<1>5. /\ a \in Answers /\ Linked(a.link, shop', made')
      /\ a.clash = {p \in b.create : HasSku(p)}
  BY <1>2, <1>3, AnswerOK
<1> HIDE DEF a
<1>6. TaskOK(r, shop', made')
  <2>1. TaskOK(task[t], shop', made')
    BY <1>4, TaskMovesOn DEF Inv, TasksOK
  <2>2. task[t] \in TaskRows /\ b \in Batches
    BY <1>2, <2>1 DEF TaskOK, BatchOf
  <2>3. r \in TaskRows
    BY <1>5, <2>2 DEF TaskRows
  <2>4. /\ r.plan = task[t].plan /\ r.text = task[t].text /\ r.dirty = task[t].dirty
        /\ r.sent = b /\ r.got = a
    BY <2>2 DEF TaskRows
  <2>5. a.clash \subseteq DOMAIN task[t].text
    BY <1>2, <1>5, <2>1 DEF BatchOf, TaskOK
  <2>6. Linked(b.update, shop', made')
    BY <1>2, <1>4, LinkedMovesOn DEF BatchOf
  <2> HIDE DEF r
  <2> QED
    BY <1>5, <2>1, <2>3, <2>4, <2>5, <2>6 DEF TaskOK
<1>7. task' = [task EXCEPT ![t] = r]
  BY <1>1 DEF a
<1> HIDE DEF r
<1>8. TasksOK(task', shop', made')
  BY <1>4, <1>6, <1>7, TasksMoveOn DEF Inv
<1>9. /\ UNCHANGED <<active, content, varOn, wpwc, varLink>>
  BY DEF SendBatch, local
<1>10. LinksOK(wpwc', varLink', shop', made')
  BY <1>4, <1>9, LinkedMovesOn DEF Inv, LinksOK
<1>11. LocalOK'
  BY <1>9 DEF Inv, LocalOK
<1> QED
  BY <1>4, <1>8, <1>10, <1>11 DEF Inv

\* What a session sees of the links.
LEMMA ViewLinked ==
    ASSUME Inv, NEW t \in Tasks
    PROVE  Linked(View(t), shop, made) /\ View(t) \in [Products -> Nat]
<1>1. made \in Nat /\ Linked(wpwc, shop, made) /\ DOMAIN wpwc = Products
  BY DEF Inv, ShopOK, LinksOK
<1>2. Linked(task[t].dirty, shop, made)
  BY DEF Inv, TasksOK, TaskOK
<1>3. Linked(View(t), shop, made)
  BY <1>1, <1>2, MergedLinked DEF View
<1>4. DOMAIN View(t) = Products
  BY <1>1, <1>2 DEF View, Over, Linked
<1>5. View(t) \in Numbered
  BY <1>1, <1>3, LinkedNumbers
<1> QED
  BY <1>3, <1>4, <1>5, NumberedType

\* A product refused because of its sku is linked to the one that has it.
LEMMA ReconciledLinked ==
    ASSUME Inv, NEW t \in Tasks
    PROVE  /\ Linked(Reconciled(t), shop, made)
           /\ DOMAIN Reconciled(t) = {q \in task[t].got.clash : HasSku(q)}
           /\ \A p \in DOMAIN Reconciled(t) :
                Reconciled(t)[p] \in DOMAIN shop /\ shop[Reconciled(t)[p]].sku = p
<1> DEFINE f == Reconciled(t)
<1>1. DOMAIN f = {q \in task[t].got.clash : HasSku(q)} /\ f = [p \in DOMAIN f |-> f[p]]
  BY DEF Reconciled
<1>2. ASSUME NEW p \in DOMAIN f
      PROVE  f[p] \in DOMAIN shop /\ shop[f[p]].sku = p
  <2>1. f[p] = CHOOSE id \in DOMAIN shop : shop[id].sku = p
    BY <1>1 DEF Reconciled
  <2>2. \E id \in DOMAIN shop : shop[id].sku = p
    BY <1>1 DEF HasSku
  <2> QED
    BY <2>1, <2>2
<1>3. made \in Nat /\ DOMAIN shop \subseteq 1 .. made /\ DOMAIN f \subseteq Products
  <2>1. task[t].got.clash \subseteq Products
    BY DEF Inv, TasksOK, TaskRows, Answers
  <2> QED
    BY <1>1, <2>1 DEF Inv, ShopOK
<1> HIDE DEF f
<1>4. f \in [DOMAIN f -> 0 .. made]
  BY <1>1, <1>2, <1>3
<1>5. Linked(f, shop, made)
  BY <1>2, <1>3, <1>4 DEF Linked
<1> QED
  BY <1>1, <1>2, <1>5 DEF f

\* These products, and no others, are written again.
Rewritten(t, f) ==
    /\ DOMAIN shop' = DOMAIN shop /\ shop' = [id \in DOMAIN shop' |-> shop'[id]]
    /\ \A id \in DOMAIN shop :
         \/ shop'[id] = shop[id] /\ id \notin Range(f)
         \/ \E p \in DOMAIN f : id = f[p] /\ shop'[id] = [sku |-> p, text |-> task[t].text[p]]

\* Sending again the products found by their sku writes them, and only them.
LEMMA ResentRewrites ==
    ASSUME Inv, NEW t \in Tasks, NEW f, shop' = Resent(t, f),
           \A p \in DOMAIN f : f[p] \in DOMAIN shop /\ shop[f[p]].sku = p
    PROVE  Rewritten(t, f)
<1> DEFINE own(id) == CHOOSE p \in DOMAIN f : f[p] = id
           new == [id \in Range(f) |-> [shop[id] EXCEPT !.text = task[t].text[own(id)]]]
<1>1. shop' = Over(new, shop)
  BY DEF Resent
<1>3. Range(f) \subseteq DOMAIN shop /\ DOMAIN new = Range(f)
  BY DEF Range
<1>4. DOMAIN shop' = DOMAIN shop /\ shop' = [id \in DOMAIN shop' |-> shop'[id]]
  <2> HIDE DEF new
  <2> QED
    BY <1>1, <1>3 DEF Over
<1>5. ASSUME NEW id \in DOMAIN shop
      PROVE  shop'[id] = IF id \in Range(f) THEN new[id] ELSE shop[id]
  <2> HIDE DEF new
  <2> QED
    BY <1>1, <1>3 DEF Over
<1>6. ASSUME NEW id \in Range(f)
      PROVE  \E p \in DOMAIN f : id = f[p] /\ shop'[id] = [sku |-> p, text |-> task[t].text[p]]
  <2> DEFINE q == own(id)
  <2>1. \E p \in DOMAIN f : f[p] = id
    BY DEF Range
  <2>2. q \in DOMAIN f /\ f[q] = id
    BY <2>1
  <2>3. shop[id].sku = q /\ id \in DOMAIN shop
    BY <2>2
  <2>4. shop[id] \in [sku : Products \union {Own}, text : Nat]
    BY <2>3 DEF Inv, ShopOK
  <2>5. shop'[id] = [shop[id] EXCEPT !.text = task[t].text[q]]
    BY <1>5, <2>3
  <2> HIDE DEF q
  <2>6. shop'[id] = [sku |-> q, text |-> task[t].text[q]]
    BY <2>3, <2>4, <2>5
  <2> QED
    BY <2>2, <2>6
<1> HIDE DEF new
<1>7. ASSUME NEW id \in DOMAIN shop
      PROVE  \/ shop'[id] = shop[id] /\ id \notin Range(f)
             \/ \E p \in DOMAIN f : id = f[p] /\ shop'[id] = [sku |-> p, text |-> task[t].text[p]]
  BY <1>5, <1>6
<1> QED
  BY <1>4, <1>7 DEF Rewritten

\* Of the products found by their sku, some.
LEMMA SomeReconciled ==
    ASSUME Inv, NEW t \in Tasks, NEW S \in SUBSET DOMAIN Reconciled(t)
    PROVE  LET f == Restrict(Reconciled(t), S)
           IN  /\ Linked(f, shop, made)
               /\ \A p \in DOMAIN f : /\ p \in task[t].got.clash
                                       /\ f[p] \in DOMAIN shop /\ shop[f[p]].sku = p
<1> DEFINE g == Reconciled(t)
           f == Restrict(g, S)
<1>1. /\ Linked(g, shop, made) /\ DOMAIN g = {q \in task[t].got.clash : HasSku(q)}
      /\ \A p \in DOMAIN g : g[p] \in DOMAIN shop /\ shop[g[p]].sku = p
  BY ReconciledLinked
<1>2. made \in Nat
  BY DEF Inv, ShopOK
<1> HIDE DEF g
<1>3. Linked(f, shop, made) /\ DOMAIN f = S
  BY <1>1, <1>2, RestrictedLinked DEF g
<1>4. \A p \in S : f[p] = g[p]
  BY DEF Restrict
<1>5. S \subseteq DOMAIN g
  BY DEF g
<1> HIDE DEF f
<1>6. \A p \in DOMAIN f : p \in task[t].got.clash /\ f[p] \in DOMAIN shop /\ shop[f[p]].sku = p
  BY <1>1, <1>3, <1>4, <1>5
<1> QED
  BY <1>3, <1>6 DEF f, g

\* What a task applies leaves every link to its own product.
LEMMA AppliedOK ==
    ASSUME Inv, NEW t \in Tasks, task[t].at = "apply", NEW f, NEW g,
           Linked(f, shop, made), wpwc' = Applied(t, f), shop' = Resent(t, g),
           \A p \in DOMAIN g : /\ p \in task[t].got.clash
                               /\ g[p] \in DOMAIN shop /\ shop[g[p]].sku = p,
           UNCHANGED <<active, content, varOn, varShop, made, varLink>>
    PROVE  /\ ShopOK(shop', made') /\ MovesOn(shop, made, shop')
           /\ LinksOK(wpwc', varLink', shop', made')
<1> DEFINE got == task[t].got
           known == {p \in DOMAIN got.link : p \in task[t].sent.create \/ View(t)[p] = got.link[p]}
           lost == {p \in Products : View(t)[p] \in got.gone}
           some == Restrict(got.link, known)
           cut == [p \in lost |-> None]
           second == Over(cut, View(t))
           first == Over(some, second)
<1>0. /\ made \in Nat /\ wpwc' = Over(f, first)
      /\ UNCHANGED <<active, content, varOn, varShop, made, varLink>>
  BY DEF Inv, ShopOK, Applied
<1>1. Rewritten(t, g)
  BY ResentRewrites
<1>2. TaskOK(task[t], shop, made) /\ task[t] \in TaskRows
  BY DEF Inv, TasksOK
<1>3. ASSUME NEW id \in DOMAIN shop
      PROVE  /\ shop'[id].sku = shop[id].sku
             /\ shop'[id] \in [sku : Products \union {Own}, text : Nat]
  <2>1. shop[id] \in [sku : Products \union {Own}, text : Nat]
    BY DEF Inv, ShopOK
  <2>2. ASSUME NEW p \in DOMAIN g, id = g[p],
               shop'[id] = [sku |-> p, text |-> task[t].text[p]]
        PROVE  /\ shop'[id].sku = shop[id].sku
               /\ shop'[id] \in [sku : Products \union {Own}, text : Nat]
    <3>1. shop[id].sku = p /\ p \in got.clash
      BY <2>2
    <3>2. p \in DOMAIN task[t].text /\ task[t].text \in Numbered /\ p \in Products
      BY <1>2, <3>1 DEF TaskOK, TaskRows, Answers
    <3>3. task[t].text[p] \in Nat
      BY <3>2, NumberedType
    <3> QED
      BY <2>2, <3>1, <3>2, <3>3
  <2> QED
    BY <1>1, <2>1, <2>2 DEF Rewritten
<1>4. ShopOK(shop', made')
  <2>1. DOMAIN shop' = DOMAIN shop /\ shop' \in [DOMAIN shop' -> [sku : Products \union {Own}, text : Nat]]
    BY <1>1, <1>3 DEF Rewritten
  <2> QED
    BY <1>0, <1>3, <2>1 DEF ShopOK, Inv
<1>5. MovesOn(shop, made, shop')
  BY <1>1, <1>3 DEF Rewritten, MovesOn
<1>6. Linked(some, shop, made)
  <2>1. known \subseteq DOMAIN got.link /\ Linked(got.link, shop, made)
    BY <1>2 DEF TaskOK
  <2> HIDE DEF known, got
  <2> QED
    BY <1>0, <2>1, RestrictedLinked
<1>7. Linked(cut, shop, made)
  <2>1. \A p \in DOMAIN cut : cut[p] = 0
    BY DEF None
  <2>2. cut \in [DOMAIN cut -> 0 .. made] /\ DOMAIN cut \subseteq Products
    BY <1>0 DEF None
  <2>3. 0 \notin DOMAIN shop
    BY <1>0 DEF Inv, ShopOK
  <2> QED
    BY <2>1, <2>2, <2>3 DEF Linked
<1>8. Linked(View(t), shop, made) /\ View(t) \in [Products -> Nat]
  BY ViewLinked
<1> HIDE DEF some, cut, got
<1>10. Linked(second, shop, made)
  BY <1>0, <1>7, <1>8, MergedLinked
<1>11. Linked(first, shop, made)
  <2> HIDE DEF second
  <2> QED
    BY <1>0, <1>6, <1>10, MergedLinked
<1>12. Linked(wpwc', shop, made)
  <2> HIDE DEF first
  <2> QED
    BY <1>0, <1>11, MergedLinked
<1>13. wpwc' \in [Products -> Nat]
  <2>1. DOMAIN second = DOMAIN cut \union DOMAIN View(t)
    BY DEF Over
  <2>2. DOMAIN first = DOMAIN some \union DOMAIN second
    <3> HIDE DEF second
    <3> QED
      BY DEF Over
  <2>3. DOMAIN wpwc' = DOMAIN f \union DOMAIN first
    <3> HIDE DEF first
    <3> QED
      BY <1>0 DEF Over
  <2>4. DOMAIN wpwc' = Products
    BY <1>6, <1>7, <1>8, <2>1, <2>2, <2>3 DEF Linked
  <2>5. wpwc' \in Numbered
    BY <1>0, <1>12, LinkedNumbers
  <2> QED
    BY <2>4, <2>5, NumberedType
<1>14. LinksOK(wpwc', varLink', shop', made')
  <2>1. Linked(wpwc', shop', made')
    BY <1>0, <1>5, <1>12, LinkedMovesOn
  <2> QED
    BY <1>0, <1>13, <2>1 DEF LinksOK, Inv
<1> QED
  BY <1>4, <1>5, <1>14

\* A task that has applied all its answers goes on, or ends.
LEMMA ApplyBatchOK ==
    ASSUME Inv, NEW t \in Tasks, ApplyBatch(t)
    PROVE  Inv'
<1>0. /\ made \in Nat /\ task[t].at = "apply"
      /\ wpwc' = Applied(t, Reconciled(t)) /\ shop' = Resent(t, Reconciled(t))
      /\ UNCHANGED <<active, content, varOn, varShop, made, varLink>>
  BY DEF Inv, ShopOK, ApplyBatch, local
<1>2. TaskOK(task[t], shop, made) /\ task[t] \in TaskRows
  BY DEF Inv, TasksOK
<1>3. /\ Linked(Reconciled(t), shop, made)
      /\ \A p \in DOMAIN Reconciled(t) :
           /\ p \in task[t].got.clash
           /\ Reconciled(t)[p] \in DOMAIN shop /\ shop[Reconciled(t)[p]].sku = p
  BY ReconciledLinked
<1>4. ShopOK(shop', made') /\ LinksOK(wpwc', varLink', shop', made')
  BY <1>0, <1>3, AppliedOK
<1>5. MovesOn(shop, made, shop')
  BY <1>0, <1>3, AppliedOK
<1>15. PICK r : task' = [task EXCEPT ![t] = r] /\ TaskOK(r, shop', made')
  <2>1. CASE ~Complete(t)
    <3>1. task' = [task EXCEPT ![t] = Idle]
      BY <2>1 DEF ApplyBatch, End
    <3> QED
      BY <1>0, <3>1, IdleOK
  <2>2. CASE Complete(t)
    <3> DEFINE P == DOMAIN task[t].plan \ (task[t].sent.create \cup DOMAIN task[t].sent.update)
               plan == Restrict(task[t].plan, P)
               dels == task[t].dels \ task[t].sent.delete
    <3>1. PICK at \in {"vary", "send"} :
            task' = [task EXCEPT ![t].at = at, ![t].plan = plan, ![t].dels = dels,
                                 ![t].dirty = Nothing, ![t].sent = NoBatch, ![t].got = NoAnswer]
      BY <2>2, Zenon DEF ApplyBatch
    <3> DEFINE r == [task[t] EXCEPT !.at = at, !.plan = plan, !.dels = dels,
                                    !.dirty = Nothing, !.sent = NoBatch, !.got = NoAnswer]
    <3>2. task' = [task EXCEPT ![t] = r]
      BY <3>1
    <3>3. Linked(plan, shop, made) /\ DOMAIN plan = P
      <4>1. P \subseteq DOMAIN task[t].plan /\ Linked(task[t].plan, shop, made)
        BY <1>2 DEF TaskOK
      <4> HIDE DEF P
      <4> QED
        BY <1>0, <4>1, RestrictedLinked
    <3> HIDE DEF plan
    <3>4. plan \in Numbered /\ Linked(plan, shop', made')
      BY <1>0, <1>5, <3>3, LinkedNumbers, LinkedMovesOn
    <3>5. /\ Linked(Nothing, shop', made') /\ Nothing \in Numbered
      BY <1>0, NothingLinked
    <3>6. /\ NoBatch \in Batches /\ NoBatch.update = Nothing
          /\ NoAnswer \in Answers /\ NoAnswer.link = Nothing
      BY <3>5 DEF NoBatch, Batches, NoAnswer, Answers
    <3>7. r \in TaskRows
      <4>1. dels \subseteq Nat
        BY <1>2 DEF TaskRows
      <4> HIDE DEF dels
      <4> QED
        BY <1>2, <3>4, <3>5, <3>6, <4>1 DEF TaskRows
    <3>8. /\ r.plan = plan /\ r.text = task[t].text /\ r.dirty = Nothing
          /\ r.sent = NoBatch /\ r.got = NoAnswer /\ r.at # "apply"
      BY <1>2 DEF TaskRows
    <3>9. DOMAIN plan \subseteq DOMAIN task[t].text
      BY <1>2, <3>3 DEF TaskOK
    <3> HIDE DEF r
    <3>10. TaskOK(r, shop', made')
      BY <3>4, <3>5, <3>6, <3>7, <3>8, <3>9 DEF TaskOK
    <3> QED
      BY <3>2, <3>10
  <2> QED
    BY <2>1, <2>2
<1>16. TasksOK(task', shop', made')
  <2>1. made' \in Nat /\ made <= made' /\ TasksOK(task, shop, made)
    BY <1>0 DEF Inv
  <2>2. TasksOK([task EXCEPT ![t] = r], shop', made')
    BY <1>0, <1>5, <1>15, <2>1, TasksMoveOn
  <2> QED
    BY <1>15, <2>2
<1>17. KidsOK(varShop', made') /\ LocalOK'
  BY <1>0 DEF Inv, LocalOK
<1> QED
  BY <1>4, <1>16, <1>17 DEF Inv

\* One that could not apply them all ends.
LEMMA ApplyFailsOK ==
    ASSUME Inv, NEW t \in Tasks, ApplyFails(t)
    PROVE  Inv'
<1>1. PICK found \in SUBSET DOMAIN Reconciled(t), sent \in SUBSET DOMAIN Reconciled(t) :
        /\ wpwc' = Applied(t, Restrict(Reconciled(t), found))
        /\ shop' = Resent(t, Restrict(Reconciled(t), sent))
  BY DEF ApplyFails
<1> DEFINE f == Restrict(Reconciled(t), found)
           g == Restrict(Reconciled(t), sent)
<1>2. /\ made \in Nat /\ task[t].at = "apply" /\ task' = [task EXCEPT ![t] = Idle]
      /\ UNCHANGED <<active, content, varOn, varShop, made, varLink>>
  BY DEF Inv, ShopOK, ApplyFails, End, local
<1>3. Linked(f, shop, made)
  BY SomeReconciled
<1>4. \A p \in DOMAIN g : /\ p \in task[t].got.clash
                          /\ g[p] \in DOMAIN shop /\ shop[g[p]].sku = p
  BY SomeReconciled
<1>5. wpwc' = Applied(t, f) /\ shop' = Resent(t, g)
  BY <1>1
<1> HIDE DEF f, g
<1>6. /\ ShopOK(shop', made') /\ MovesOn(shop, made, shop')
      /\ LinksOK(wpwc', varLink', shop', made')
  BY <1>2, <1>3, <1>4, <1>5, AppliedOK
<1>7. TasksOK(task', shop', made')
  <2>1. made' \in Nat /\ made <= made' /\ TasksOK(task, shop, made) /\ TaskOK(Idle, shop', made')
    BY <1>2, IdleOK DEF Inv
  <2>2. TasksOK([task EXCEPT ![t] = Idle], shop', made')
    BY <1>2, <1>6, <2>1, TasksMoveOn
  <2> QED
    BY <1>2, <2>2
<1>8. KidsOK(varShop', made') /\ LocalOK'
  BY <1>2 DEF Inv, LocalOK
<1> QED
  BY <1>6, <1>7, <1>8 DEF Inv

\* A task that ends, or goes on, while the shop and the links stay.
LEMMA TaskStep ==
    ASSUME Inv, NEW t \in Tasks, NEW r, task' = [task EXCEPT ![t] = r],
           TaskOK(r, shop, made),
           UNCHANGED <<active, content, varOn, shop, varShop, made, wpwc, varLink>>
    PROVE  Inv'
<1>1. made \in Nat /\ made <= made /\ MovesOn(shop, made, shop) /\ TasksOK(task, shop, made)
  BY DEF Inv, ShopOK, MovesOn
<1>2. TasksOK(task', shop, made)
  BY <1>1, TasksMoveOn
<1> QED
  BY <1>2 DEF Inv, LocalOK

\* The steps of a task that only read or tell.
LEMMA ReadersOK ==
    ASSUME Inv, NEW t \in Tasks,
           \/ BeginSync(t) \/ ReadCatalogue(t) \/ ReadFails(t) \/ Finish(t) \/ Read(t)
           \/ \E p \in Products : BeginPush(t, p)
    PROVE  Inv'
<1>0. /\ made \in Nat /\ DOMAIN shop \subseteq 1 .. made
      /\ TaskOK(task[t], shop, made) /\ task[t] \in TaskRows
  BY DEF Inv, ShopOK, TasksOK
<1>1. TaskOK(Idle, shop, made)
  BY <1>0, IdleOK
<1>2. ASSUME NEW kind \in {"none", "sync", "push"}, NEW at \in {"read", "told"},
             NEW mine \in SUBSET Products
      PROVE  TaskOK([Idle EXCEPT !.kind = kind, !.at = at, !.mine = mine], shop, made)
  <2> DEFINE new == [Idle EXCEPT !.kind = kind, !.at = at, !.mine = mine]
  <2>1. Idle \in TaskRows
    BY <1>1 DEF TaskOK
  <2>2. new \in TaskRows
    BY <2>1 DEF TaskRows
  <2>3. /\ new.plan = Idle.plan /\ new.text = Idle.text /\ new.dirty = Idle.dirty
        /\ new.sent = Idle.sent /\ new.got = Idle.got /\ new.at # "apply"
    BY <2>1 DEF TaskRows
  <2> HIDE DEF new
  <2>4. TaskOK(new, shop, made)
    BY <1>1, <2>2, <2>3 DEF TaskOK
  <2> QED
    BY <2>4 DEF new
<1>3. CASE BeginSync(t)
  <2> DEFINE new == [Idle EXCEPT !.kind = "sync", !.at = "read", !.mine = {p \in Products : active[p]}]
  <2>1. task' = [task EXCEPT ![t] = new]
    BY <1>3 DEF BeginSync
  <2>2. TaskOK(new, shop, made)
    BY <1>2
  <2> HIDE DEF new
  <2> QED
    BY <1>3, <2>1, <2>2, TaskStep DEF BeginSync, local, remote
<1>4. CASE ReadCatalogue(t)
  <2> DEFINE S == task[t].mine
             found == Found(S)
             dels == DOMAIN shop \ Range(found)
             new == Planned(t, S, found, dels)
  <2>1. task' = [task EXCEPT ![t] = new]
    BY <1>4 DEF ReadCatalogue
  <2>2. S \subseteq Products /\ dels \subseteq Nat
    BY <1>0 DEF TaskRows
  <2>3. Linked(found, shop, made) /\ DOMAIN found = S
    BY <2>2, FoundLinked
  <2> HIDE DEF S, found, dels
  <2>4. TaskOK(new, shop, made)
    BY <2>2, <2>3, PlannedOK
  <2> HIDE DEF new
  <2> QED
    BY <1>4, <2>1, <2>4, TaskStep DEF ReadCatalogue, local, remote
<1>5. CASE ReadFails(t) \/ Read(t)
  <2>1. task' = [task EXCEPT ![t] = Idle]
    BY <1>5 DEF ReadFails, Read, End
  <2> QED
    BY <1>1, <1>5, <2>1, TaskStep DEF ReadFails, Read, local, remote
<1>6. CASE Finish(t)
  <2> DEFINE new == [Idle EXCEPT !.kind = task[t].kind, !.at = "told", !.mine = task[t].mine]
  <2>1. task' = [task EXCEPT ![t] = new] \/ task' = [task EXCEPT ![t] = Idle]
    BY <1>6 DEF Finish, End, Tell
  <2>2. TaskOK(new, shop, made)
    <3>1. task[t].kind \in {"none", "sync", "push"} /\ task[t].mine \in SUBSET Products
      BY <1>0 DEF TaskRows
    <3> QED
      BY <1>2, <3>1
  <2> HIDE DEF new
  <2> QED
    BY <1>1, <1>6, <2>1, <2>2, TaskStep DEF Finish, local, remote
<1>7. ASSUME NEW p \in Products, BeginPush(t, p)
      PROVE  Inv'
  <2> DEFINE found == Found({p})
             plan == Planned(t, {p}, found, {})
             new == [plan EXCEPT !.kind = "push", !.mine = {p}]
  <2>1. task' = [task EXCEPT ![t] = new]
    BY <1>7 DEF BeginPush
  <2>2. Linked(found, shop, made) /\ DOMAIN found = {p} /\ {p} \subseteq Products
    BY FoundLinked
  <2> HIDE DEF found
  <2>3. TaskOK(plan, shop, made)
    BY <2>2, PlannedOK
  <2> HIDE DEF plan
  <2>4. plan \in TaskRows
    BY <2>3 DEF TaskOK
  <2>5. /\ new \in TaskRows
        /\ new.plan = plan.plan /\ new.text = plan.text /\ new.dirty = plan.dirty
        /\ new.sent = plan.sent /\ new.got = plan.got /\ new.at = plan.at
    BY <2>4 DEF TaskRows
  <2> HIDE DEF new
  <2>6. TaskOK(new, shop, made)
    BY <2>3, <2>5 DEF TaskOK
  <2> QED
    BY <1>7, <2>1, <2>6, TaskStep DEF BeginPush, local, remote
<1> QED
  BY <1>3, <1>4, <1>5, <1>6, <1>7

-----------------------------------------------------------------------------
(* The rest of the steps.                                                  *)

\* A refused batch, or one whose answer is lost, leaves what the session saw.
LEMMA BatchFailsOK ==
    ASSUME Inv, NEW t \in Tasks, BatchFails(t)
    PROVE  Inv'
<1>1. /\ wpwc' = View(t) /\ task' = [task EXCEPT ![t] = Idle]
      /\ UNCHANGED <<active, content, varOn, shop, varShop, made, varLink>>
  BY DEF BatchFails, End, local, remote
<1>2. Linked(View(t), shop, made) /\ View(t) \in [Products -> Nat]
  BY ViewLinked
<1>3. made \in Nat /\ made <= made /\ MovesOn(shop, made, shop) /\ TaskOK(Idle, shop, made)
  BY IdleOK DEF Inv, ShopOK, MovesOn
<1>4. TasksOK(task', shop, made)
  BY <1>1, <1>3, TasksMoveOn DEF Inv
<1>5. LinksOK(wpwc', varLink', shop', made')
  BY <1>1, <1>2 DEF LinksOK, Inv
<1> QED
  BY <1>1, <1>4, <1>5 DEF Inv, LocalOK

\* Some of the variations.
LEMMA KidsCut ==
    ASSUME NEW n, NEW vs, NEW S, KidsOK(vs, n), S \subseteq DOMAIN vs
    PROVE  KidsOK(Restrict(vs, S), n)
<1>1. Restrict(vs, S) = [v \in S |-> vs[v]]
  BY DEF Restrict
<1> QED
  BY <1>1 DEF KidsOK

\* A variation for a parent that has none.
LEMMA KidsAdd ==
    ASSUME NEW n \in Nat, NEW vs, NEW id \in Nat, KidsOK(vs, n),
           \A v \in DOMAIN vs : vs[v] # id
    PROVE  KidsOK(With(n + 1, id, vs), n + 1)
<1> DEFINE new == With(n + 1, id, vs)
<1>1. DOMAIN new = {n + 1} \union DOMAIN vs /\ new = [v \in DOMAIN new |-> new[v]]
  BY DEF With, Over
<1>2. new[n + 1] = id /\ n + 1 \notin DOMAIN vs
  BY DEF With, Over, KidsOK
<1>3. \A v \in DOMAIN vs : new[v] = vs[v]
  BY <1>2 DEF With, Over
<1> HIDE DEF new
<1>4. DOMAIN new \subseteq 1 .. n + 1
  BY <1>1 DEF KidsOK
<1>5. new \in [DOMAIN new -> Nat]
  BY <1>1, <1>2, <1>3 DEF KidsOK
<1>6. \A v, w \in DOMAIN new : new[v] = new[w] => v = w
  BY <1>1, <1>2, <1>3 DEF KidsOK
<1>7. KidsOK(new, n + 1)
  BY <1>4, <1>5, <1>6 DEF KidsOK
<1> QED
  BY <1>7 DEF new

\* A step of a task on the variations.
LEMMA VariedOK ==
    ASSUME Inv, NEW t \in Tasks, NEW r, task' = [task EXCEPT ![t] = r],
           TaskOK(r, shop, made), UNCHANGED <<active, content, varOn, wpwc, shop>>,
           made' \in Nat, made <= made', KidsOK(varShop', made'), varLink' \in [Varied -> Nat]
    PROVE  Inv'
<1>1. made \in Nat /\ MovesOn(shop, made, shop)
  BY DEF Inv, ShopOK, MovesOn
<1>2. TaskOK(r, shop, made')
  BY <1>1, TaskMovesOn
<1>3. TasksOK(task', shop', made')
  BY <1>1, <1>2, TasksMoveOn DEF Inv
<1>4. LinksOK(wpwc', varLink', shop', made')
  BY <1>1, LinkedMovesOn DEF Inv, LinksOK
<1>5. ShopOK(shop', made')
  <2>1. DOMAIN shop' \subseteq 1 .. made'
    BY <1>1 DEF Inv, ShopOK
  <2> QED
    BY <2>1 DEF Inv, ShopOK
<1> QED
  BY <1>3, <1>4, <1>5 DEF Inv, LocalOK

\* The variation of a product is written.
LEMMA VaryOK ==
    ASSUME Inv, NEW t \in Tasks, Vary(t)
    PROVE  Inv'
<1> DEFINE p == Min(task[t].vary)
           r == [task[t] EXCEPT !.vary = @ \ {p}]
<1>0. /\ task' = [task EXCEPT ![t] = r] /\ UNCHANGED <<active, content, varOn, wpwc, shop>>
      /\ IF p \in Varied /\ wpwc[p] # None THEN Varies(t, p, wpwc[p])
                                           ELSE UNCHANGED <<varShop, made, varLink>>
  BY DEF Vary, local
<1>1. /\ made \in Nat /\ KidsOK(varShop, made) /\ varLink \in [Varied -> Nat]
      /\ TaskOK(task[t], shop, made) /\ task[t] \in TaskRows
  BY DEF Inv, ShopOK, LinksOK, TasksOK
<1>2. TaskOK(r, shop, made)
  <2>1. r \in TaskRows /\ \A S : S = r.vary => r = [task[t] EXCEPT !.vary = S]
    BY <1>1 DEF TaskRows
  <2>2. /\ r.plan = task[t].plan /\ r.text = task[t].text /\ r.dirty = task[t].dirty
        /\ r.sent = task[t].sent /\ r.got = task[t].got /\ r.at = task[t].at
    BY <1>1 DEF TaskRows
  <2> HIDE DEF r
  <2> QED
    BY <1>1, <2>1, <2>2 DEF TaskOK
<1> HIDE DEF p, r
<1>3. made' \in Nat /\ made <= made' /\ KidsOK(varShop', made') /\ varLink' \in [Varied -> Nat]
  <2>1. CASE ~ (p \in Varied /\ wpwc[p] # None)
    BY <1>0, <1>1, <2>1
  <2>2. CASE p \in Varied /\ wpwc[p] # None
    <3> DEFINE id == wpwc[p]
    <3>1. Varies(t, p, id) /\ id \in Nat /\ p \in Varied
      BY <1>0, <2>2, WooCatalogueAssumption DEF Inv, LinksOK
    <3> HIDE DEF id
    <3>2. \A v : v \in Kids(id) => v \in Nat
      BY <1>1 DEF Kids, KidsOK
    <3>3. CASE varOn[p] /\ Kids(id) # {} /\ UNCHANGED <<varShop, made>>
               /\ varLink' = [varLink EXCEPT ![p] = CHOOSE v \in Kids(id) : TRUE]
      <4>1. (CHOOSE v \in Kids(id) : TRUE) \in Nat
        BY <3>2, <3>3
      <4>2. varLink' \in [Varied -> Nat]
        BY <1>1, <3>3, <4>1
      <4> QED
        BY <1>1, <3>3, <4>2
    <3>4. CASE /\ Kids(id) = {} /\ made' = made + 1 /\ varShop' = With(made', id, varShop)
               /\ varLink' = [varLink EXCEPT ![p] = made']
      <4>1. KidsOK(varShop', made')
        BY <1>1, <3>1, <3>4, KidsAdd DEF Kids
      <4>2. varLink' = [varLink EXCEPT ![p] = made + 1] /\ made + 1 \in Nat
        BY <1>1, <3>4
      <4>3. varLink' \in [Varied -> Nat]
        BY <1>1, <4>2
      <4> QED
        BY <1>1, <3>4, <4>1, <4>3
    <3>5. CASE /\ varShop' = Restrict(varShop, DOMAIN varShop \ Kids(id)) /\ UNCHANGED made
               /\ varLink' = [varLink EXCEPT ![p] = None]
      <4>1. KidsOK(varShop', made')
        BY <1>1, <3>5, KidsCut
      <4>2. varLink' \in [Varied -> Nat]
        BY <1>1, <3>5 DEF None
      <4> QED
        BY <1>1, <3>5, <4>1, <4>2
    <3> QED
      BY <3>1, <3>3, <3>4, <3>5 DEF Varies
  <2> QED
    BY <2>1, <2>2
<1> QED
  BY <1>0, <1>2, <1>3, VariedOK

\* Or is not, or not known to be.
LEMMA VaryFailsOK ==
    ASSUME Inv, NEW t \in Tasks, VaryFails(t)
    PROVE  Inv'
<1>0. /\ task' = [task EXCEPT ![t] = Idle] /\ UNCHANGED <<active, content, varOn, wpwc, shop>>
  BY DEF VaryFails, End, local
<1>1. /\ made \in Nat /\ KidsOK(varShop, made) /\ varLink \in [Varied -> Nat]
      /\ TaskOK(Idle, shop, made)
  BY IdleOK DEF Inv, ShopOK, LinksOK
<1>2. PICK p \in task[t].vary \cap Varied :
         \/ UNCHANGED <<varShop, made, varLink>>
         \/ \E v \in Kids(wpwc[p]) \cup {None} :
                 /\ v = None => Kids(wpwc[p]) = {}
                 /\ varLink' = IF v = None THEN varLink ELSE [varLink EXCEPT ![p] = v]
                 /\ \/ UNCHANGED <<varShop, made>>
                    \/ UNCHANGED made /\ varShop' = Restrict(varShop, DOMAIN varShop \ {v})
                    \/ /\ v = None /\ made' = made + 1
                       /\ varShop' = With(made', wpwc[p], varShop)
  BY DEF VaryFails
<1> DEFINE id == wpwc[p]
<1>3. id \in Nat
  BY WooCatalogueAssumption DEF Inv, LinksOK
<1> HIDE DEF id
<1>4. made' \in Nat /\ made <= made' /\ KidsOK(varShop', made') /\ varLink' \in [Varied -> Nat]
  <2>1. CASE UNCHANGED <<varShop, made, varLink>>
    BY <1>1, <2>1
  <2>2. ASSUME NEW v \in Kids(id) \cup {None},
               v = None => Kids(id) = {},
               varLink' = IF v = None THEN varLink ELSE [varLink EXCEPT ![p] = v],
               \/ UNCHANGED <<varShop, made>>
               \/ UNCHANGED made /\ varShop' = Restrict(varShop, DOMAIN varShop \ {v})
               \/ v = None /\ made' = made + 1 /\ varShop' = With(made', id, varShop)
        PROVE  made' \in Nat /\ made <= made' /\ KidsOK(varShop', made') /\ varLink' \in [Varied -> Nat]
    <3>1. v \in Nat
      BY <1>1 DEF Kids, KidsOK, None
    <3>2. varLink' \in [Varied -> Nat]
      BY <1>1, <2>2, <3>1
    <3>3. CASE UNCHANGED <<varShop, made>>
      BY <1>1, <3>2, <3>3
    <3>4. CASE UNCHANGED made /\ varShop' = Restrict(varShop, DOMAIN varShop \ {v})
      BY <1>1, <3>2, <3>4, KidsCut
    <3>5. CASE v = None /\ made' = made + 1 /\ varShop' = With(made', id, varShop)
      <4>1. KidsOK(varShop', made')
        BY <1>1, <1>3, <2>2, <3>5, KidsAdd DEF Kids
      <4> QED
        BY <1>1, <3>2, <3>5, <4>1
    <3> QED
      BY <2>2, <3>3, <3>4, <3>5
  <2> QED
    BY <1>2, <2>1, <2>2 DEF id
<1> QED
  BY <1>0, <1>1, <1>4, VariedOK

\* A product typed in the back office has none of our numbers.
LEMMA ShopCreatesOK ==
    ASSUME Inv, ShopCreates
    PROVE  Inv'
<1> DEFINE n == made + 1
           new == With(n, [sku |-> Own, text |-> 0], shop)
<1>1. /\ made' = n /\ shop' = new
      /\ UNCHANGED <<active, content, varOn, varShop, wpwc, varLink, task>>
  BY DEF ShopCreates, local
<1>2. made \in Nat /\ n \in Nat /\ DOMAIN shop \subseteq 1 .. made /\ n \notin DOMAIN shop
  BY DEF Inv, ShopOK
<1>3. /\ DOMAIN new = {n} \union DOMAIN shop /\ new = [id \in DOMAIN new |-> new[id]]
      /\ new[n] = [sku |-> Own, text |-> 0] /\ \A id \in DOMAIN shop : new[id] = shop[id]
  BY <1>2 DEF With, Over
<1> HIDE DEF new
<1>4. ShopOK(new, n)
  <2>1. \A id \in DOMAIN new : new[id] \in [sku : Products \union {Own}, text : Nat]
    BY <1>3 DEF Inv, ShopOK
  <2>2. DOMAIN new \subseteq 1 .. n
    BY <1>2, <1>3
  <2>3. new[n].sku \notin Products
    BY <1>3, WooCatalogueAssumption
  <2> HIDE DEF n
  <2>4. \A i, j \in DOMAIN new : new[i].sku = new[j].sku /\ new[i].sku \in Products => i = j
    BY <1>3, <2>3 DEF Inv, ShopOK
  <2> QED
    BY <1>2, <1>3, <2>1, <2>2, <2>4 DEF ShopOK
<1>5. made <= n /\ MovesOn(shop, made, new)
  BY <1>2, <1>3 DEF MovesOn
<1>6. KidsOK(varShop, n)
  BY <1>2 DEF Inv, KidsOK
<1> HIDE DEF n
<1>7. LinksOK(wpwc', varLink', shop', made')
  BY <1>1, <1>2, <1>5, LinkedMovesOn DEF Inv, LinksOK
<1>8. TasksOK(task', shop', made')
  BY <1>1, <1>2, <1>5, TaskMovesOn DEF Inv, TasksOK
<1> QED
  BY <1>1, <1>4, <1>6, <1>7, <1>8 DEF Inv, LocalOK

\* A product deleted there takes its variations along.
LEMMA ShopDeletesOK ==
    ASSUME Inv, NEW d \in DOMAIN shop, ShopDeletes(d)
    PROVE  Inv'
<1> DEFINE new == Restrict(shop, DOMAIN shop \ {d})
<1>1. /\ shop' = new /\ UNCHANGED <<active, content, varOn, made, wpwc, varLink, task>>
      /\ varShop' = Restrict(varShop, {v \in DOMAIN varShop : varShop[v] # d})
  BY DEF ShopDeletes, local
<1>2. new = [id \in DOMAIN shop \ {d} |-> shop[id]] /\ made \in Nat /\ made <= made
  BY DEF Restrict, Inv, ShopOK
<1>3. ShopOK(new, made) /\ MovesOn(shop, made, new)
  BY <1>2 DEF Inv, ShopOK, MovesOn
<1> HIDE DEF new
<1>4. KidsOK(varShop', made')
  <2> DEFINE S == {v \in DOMAIN varShop : varShop[v] # d}
  <2>1. S \subseteq DOMAIN varShop
    OBVIOUS
  <2> HIDE DEF S
  <2>2. KidsOK(Restrict(varShop, S), made)
    BY <2>1, KidsCut DEF Inv
  <2> QED
    BY <1>1, <2>2 DEF S
<1>5. LinksOK(wpwc', varLink', shop', made')
  BY <1>1, <1>2, <1>3, LinkedMovesOn DEF Inv, LinksOK
<1>6. TasksOK(task', shop', made')
  BY <1>1, <1>2, <1>3, TaskMovesOn DEF Inv, TasksOK
<1> QED
  BY <1>1, <1>3, <1>4, <1>5, <1>6 DEF Inv, LocalOK

\* The screens, and the death of the process.
LEMMA OthersOK ==
    ASSUME Inv,
           \/ \E p \in Products : ToggleProduct(p) \/ EditProduct(p)
           \/ \E p \in Varied : ToggleVariation(p)
           \/ Crash
    PROVE  Inv'
<1>1. CASE ~Crash
  <2>1. UNCHANGED <<shop, varShop, made, wpwc, varLink, task>>
    BY <1>1 DEF ToggleProduct, EditProduct, ToggleVariation, remote
  <2>2. LocalOK'
    <3>1. CASE \E p \in Products : ToggleProduct(p)
      BY <3>1 DEF ToggleProduct, Inv, LocalOK
    <3>2. CASE \E p \in Products : EditProduct(p)
      BY <3>2 DEF EditProduct, Inv, LocalOK
    <3>3. CASE \E p \in Varied : ToggleVariation(p)
      BY <3>3 DEF ToggleVariation, Inv, LocalOK
    <3> QED
      BY <1>1, <3>1, <3>2, <3>3
  <2> QED
    BY <2>1, <2>2 DEF Inv
<1>2. CASE Crash
  <2>1. /\ task' = [t \in Tasks |-> Idle]
        /\ UNCHANGED <<active, content, varOn, shop, varShop, made, wpwc, varLink>>
    BY <1>2 DEF Crash, local, remote
  <2>2. TaskOK(Idle, shop, made)
    BY IdleOK DEF Inv, ShopOK
  <2>3. TasksOK(task', shop, made)
    BY <2>1, <2>2 DEF TasksOK, TaskOK
  <2> QED
    BY <2>1, <2>3 DEF Inv, LocalOK
<1> QED
  BY <1>1, <1>2

\* The invariant at the start.
LEMMA InitInv == Init => Inv
<1> SUFFICES ASSUME Init PROVE Inv
  OBVIOUS
<1>1. LocalOK /\ made = 0 /\ wpwc = [p \in Products |-> 0] /\ varLink = [p \in Varied |-> 0]
  BY DEF Init, LocalOK, None
<1>2. shop = Nothing /\ varShop = Nothing /\ DOMAIN Nothing = {}
  BY DEF Init, Nothing
<1>3. ShopOK(shop, made)
  BY <1>1, <1>2 DEF ShopOK
<1>4. KidsOK(varShop, made)
  BY <1>1, <1>2 DEF KidsOK
<1>5. LinksOK(wpwc, varLink, shop, made)
  BY <1>1, <1>2 DEF LinksOK, Linked
<1>6. TaskOK(Idle, shop, made)
  BY <1>1, IdleOK
<1>7. TasksOK(task, shop, made)
  BY <1>6 DEF Init, TasksOK, TaskOK
<1> QED
  BY <1>1, <1>3, <1>4, <1>5, <1>7 DEF Inv

\* Every step keeps the invariant.
LEMMA StepInv == Inv /\ [Next]_vars => Inv'
<1> SUFFICES ASSUME Inv, [Next]_vars PROVE Inv'
  OBVIOUS
<1>1. CASE UNCHANGED vars
  BY <1>1 DEF vars, Inv, LocalOK
<1>2. ASSUME NEW t \in Tasks,
             \/ BeginSync(t) \/ ReadCatalogue(t) \/ ReadFails(t) \/ Finish(t) \/ Read(t)
             \/ \E p \in Products : BeginPush(t, p)
      PROVE  Inv'
  BY <1>2, ReadersOK
<1>3. ASSUME NEW t \in Tasks, SendBatch(t)
      PROVE  Inv'
  BY <1>3, SendBatchOK
<1>4. ASSUME NEW t \in Tasks, BatchFails(t)
      PROVE  Inv'
  BY <1>4, BatchFailsOK
<1>5. ASSUME NEW t \in Tasks, ApplyBatch(t) \/ ApplyFails(t)
      PROVE  Inv'
  BY <1>5, ApplyBatchOK, ApplyFailsOK
<1>6. ASSUME NEW t \in Tasks, Vary(t)
      PROVE  Inv'
  BY <1>6, VaryOK
<1>7. ASSUME NEW t \in Tasks, VaryFails(t)
      PROVE  Inv'
  BY <1>7, VaryFailsOK
<1>8. CASE ShopCreates
  BY <1>8, ShopCreatesOK
<1>9. ASSUME NEW id \in DOMAIN shop, ShopDeletes(id)
      PROVE  Inv'
  BY <1>9, ShopDeletesOK
<1>10. CASE \/ \E p \in Products : ToggleProduct(p) \/ EditProduct(p)
            \/ \E p \in Varied : ToggleVariation(p)
            \/ Crash
  BY <1>10, OthersOK
<1> QED
  BY <1>1, <1>2, <1>3, <1>4, <1>5, <1>6, <1>7, <1>8, <1>9, <1>10, Zenon DEF Next

\* The rows of the products, of the shop and of the tasks keep their types, and
\* every identifier a row or a task holds leads to its own product or nowhere,
\* whatever is lost, refused or cut short.
THEOREM Inductive == Spec => []Inv
BY InitInv, StepInv, PTL DEF Spec

\* The composition runs the catalogue and the rates as they are.
LEMMA Composed == ShopSpec => Spec
<1>1. ShopInit => Init
  BY DEF ShopInit
<1>2. [ShopNext]_<<vars, vatVars>> => [Next]_vars
  BY DEF ShopNext
<1> QED
  BY <1>1, <1>2, PTL DEF ShopSpec, Spec

\* No product of ours ever points to the copy of another one, with any number of
\* tasks (LinkedToOwnCopy).
THEOREM LinkedSafe == ShopSpec => []LinkedToOwnCopy
<1>1. Inv => LinkedToOwnCopy
  BY DEF Inv, LinksOK, Linked, LinkedToOwnCopy
<1> QED
  BY <1>1, Inductive, Composed, PTL

-----------------------------------------------------------------------------
(* One task at a time.                                                     *)

\* What task t has dealt with is in the shop as it is here; what it has not is
\* still planned, and will be sent as it is here.
Progress(t) ==
    LET r == task[t] IN
    /\ DOMAIN r.plan \subseteq r.mine /\ DOMAIN r.dirty \subseteq DOMAIN r.plan
    /\ \A p \in r.mine \ DOMAIN r.plan : Copy(p)
    /\ \A p \in DOMAIN r.plan : r.text[p] = content[p]

\* What it is to delete is none of its products, and a synchronisation is to
\* delete all that is none of them.
Strays(t) ==
    LET r == task[t] IN
    /\ r.dels \subseteq 1 .. made
    /\ \A id \in DOMAIN shop : id \in r.dels => shop[id].sku \notin r.mine
    /\ r.kind = "sync" => \A id \in DOMAIN shop : id \in r.dels \/ shop[id].sku \in r.mine

\* A synchronisation is about the active products.
Whole(t) == task[t].kind = "sync" => task[t].mine = {p \in Products : active[p]}

\* The variations come last: those dealt with follow.
Variations(t) ==
    LET r == task[t] IN
    /\ r.vary \subseteq r.mine
    /\ r.at # "vary" => r.vary = r.mine
    /\ r.at = "vary" => /\ DOMAIN r.plan = {} /\ r.dels = {}
                        /\ \A p \in r.mine \ r.vary : p \in Varied => VariationFollows(p)

\* An answer on its way is true.
Answer(t) ==
    LET r == task[t]
        items == r.sent.create \union DOMAIN r.sent.update
        said == DOMAIN r.got.link \union r.got.clash
    IN  /\ items \subseteq DOMAIN r.plan /\ said \subseteq items
        /\ ~r.got.failed => items \subseteq said
        /\ r.sent.delete \intersect DOMAIN shop = {} /\ r.got.gone \intersect DOMAIN shop = {}
        /\ \A p \in DOMAIN r.got.link :
             /\ r.got.link[p] \in DOMAIN shop
             /\ shop[r.got.link[p]] = [sku |-> p, text |-> content[p]]

\* What is told is so.
Truth(t) ==
    LET r == task[t] IN
    /\ \A p \in r.mine : Copy(p) /\ (p \in Varied => VariationFollows(p))
    /\ r.kind = "sync" => \A id \in DOMAIN shop : shop[id].sku \in r.mine

Sound(t) ==
    /\ Whole(t)
    /\ task[t].at = "read" => task[t].kind = "sync"
    /\ task[t].at \in {"send", "apply", "vary"} => Progress(t) /\ Strays(t) /\ Variations(t)
    /\ task[t].at = "apply" => Answer(t)
    /\ task[t].at = "told" => Truth(t)

AloneInv ==
    alone => \A t \in Tasks : task[t].at # "idle" =>
        Sound(t) /\ \A u \in Tasks : u # t => task[u].at = "idle"

\* A step of one task.
LEMMA AloneStep ==
    ASSUME Inv, AloneInv, UNCHANGED alone, NEW t \in Tasks, NEW r, task' = [task EXCEPT ![t] = r],
           Quiet \/ task[t].at # "idle",
           alone => (Sound(t) \/ task[t].at = "idle" => r.at = "idle" \/ Sound(t)')
    PROVE  AloneInv'
<1> SUFFICES ASSUME alone, NEW u \in Tasks, task'[u].at # "idle"
             PROVE  Sound(u)' /\ \A v \in Tasks : v # u => task'[v].at = "idle"
  BY DEF AloneInv
<1>1. task'[t] = r /\ \A v \in Tasks : v # t => task'[v] = task[v]
  BY DEF Inv, TasksOK
<1>2. \A v \in Tasks : v # t => task[v].at = "idle"
  BY DEF AloneInv, Quiet, Busy
<1>3. u = t
  BY <1>1, <1>2
<1>4. Sound(t) \/ task[t].at = "idle"
  BY DEF AloneInv
<1>5. Sound(t)'
  BY <1>1, <1>3, <1>4
<1> QED
  BY <1>1, <1>2, <1>3, <1>5

\* Only one product of the shop has the number of one of ours.
LEMMA OnlyCopy ==
    ASSUME Inv, NEW p \in Products, wpwc[p] \in DOMAIN shop, NEW id \in DOMAIN shop,
           shop[id].sku = p
    PROVE  id = wpwc[p]
<1>1. shop[wpwc[p]].sku = p
  BY DEF Inv, LinksOK, Linked
<1> QED
  BY <1>1 DEF Inv, ShopOK

\* A comparison of both sides.
LEMMA PlannedSound ==
    ASSUME Inv, NEW t \in Tasks, NEW S, NEW dels, NEW r,
           S \subseteq Products, r \in TaskRows, task' = [task EXCEPT ![t] = r],
           UNCHANGED <<active, content, varOn, shop, varShop, made, wpwc, varLink>>,
           r.plan = Found(S), r.text = [p \in S |-> Payload(p)], r.dels = dels,
           DOMAIN r.dirty \subseteq S, r.vary = S, r.mine = S,
           r.at = IF S = {} /\ dels = {} THEN "vary" ELSE "send",
           \/ r.kind = "push" /\ dels = {}
           \/ /\ r.kind = "sync" /\ dels = DOMAIN shop \ Range(Found(S))
              /\ S = {p \in Products : active[p]}
    PROVE  Sound(t)'
<1> DEFINE f == Found(S)
<1>0. task'[t] = r /\ made \in Nat /\ DOMAIN shop \subseteq 1 .. made
  BY DEF Inv, TasksOK, ShopOK
<1>1. Linked(f, shop, made) /\ DOMAIN f = S
  BY FoundLinked
<1>2. ASSUME NEW id \in DOMAIN shop, NEW p \in S, shop[id].sku = p
      PROVE  id \in Range(f)
  <2>1. Matched(p) = {id}
    <3>1. p \in Products /\ (wpwc[p] \in DOMAIN shop => shop[wpwc[p]].sku = p)
      BY DEF Inv, LinksOK, Linked
    <3>2. \A j \in DOMAIN shop : shop[j].sku = p => j = id
      BY <1>2, <3>1 DEF Inv, ShopOK
    <3> QED
      BY <1>2, <3>1, <3>2 DEF Matched
  <2>2. f[p] = CHOOSE j \in {id} : TRUE
    BY <2>1 DEF Found
  <2>3. f[p] = id
    BY <2>2
  <2> QED
    BY <1>1, <2>3 DEF Range
<1>3. ASSUME NEW id \in DOMAIN shop, id \in Range(f)
      PROVE  shop[id].sku \in S
  <2>1. PICK p \in S : f[p] = id
    BY <1>1, <1>3 DEF Range
  <2> QED
    BY <1>1, <2>1 DEF Linked
<1> HIDE DEF f
<1>4. Progress(t)'
  BY <1>0, <1>1 DEF Progress, Payload, f
<1>5. Strays(t)'
  <2>1. dels \subseteq 1 .. made
    BY <1>0
  <2>2. \A id \in DOMAIN shop : id \in dels => shop[id].sku \notin S
    BY <1>2 DEF f
  <2>3. r.kind = "sync" => \A id \in DOMAIN shop : id \in dels \/ shop[id].sku \in S
    BY <1>3 DEF f
  <2> QED
    BY <1>0, <2>1, <2>2, <2>3 DEF Strays
<1>6. Whole(t)'
  BY <1>0 DEF Whole
<1>7. Variations(t)'
  BY <1>0, <1>1 DEF Variations, f
<1>8. r.at \in {"send", "vary"}
  OBVIOUS
<1> QED
  BY <1>0, <1>4, <1>5, <1>6, <1>7, <1>8 DEF Sound

\* The steps of a task that end it.
LEMMA EndsAlone ==
    ASSUME Inv, AloneInv, UNCHANGED alone, NEW t \in Tasks,
           ReadFails(t) \/ Read(t) \/ BatchFails(t) \/ ApplyFails(t) \/ VaryFails(t)
    PROVE  AloneInv'
<1>1. task' = [task EXCEPT ![t] = Idle] /\ Idle.at = "idle"
  BY DEF ReadFails, Read, BatchFails, ApplyFails, VaryFails, End, Idle
<1>2. task[t].at # "idle"
  BY DEF ReadFails, Read, BatchFails, ApplyFails, VaryFails
<1> QED
  BY <1>1, <1>2, AloneStep

\* The steps of a task that read.
LEMMA ReadersAlone ==
    ASSUME Inv, AloneInv, UNCHANGED alone, NEW t \in Tasks,
           BeginSync(t) \/ ReadCatalogue(t) \/ \E p \in Products : BeginPush(t, p)
    PROVE  AloneInv'
<1>0. task[t] \in TaskRows /\ TaskOK(Idle, shop, made) /\ made \in Nat
  BY IdleOK DEF Inv, TasksOK, ShopOK
<1>1. CASE BeginSync(t)
  <2> DEFINE S == {p \in Products : active[p]}
             r == [Idle EXCEPT !.kind = "sync", !.at = "read", !.mine = S]
  <2>1. task' = [task EXCEPT ![t] = r] /\ Quiet /\ UNCHANGED active
    BY <1>1 DEF BeginSync, local
  <2>2. r.at = "read" /\ r.kind = "sync" /\ r.mine = S
    BY DEF Idle
  <2> HIDE DEF r
  <2>3. task'[t] = r
    BY <2>1 DEF Inv, TasksOK
  <2>4. Whole(t)'
    BY <2>1, <2>2, <2>3 DEF Whole
  <2>5. Sound(t)'
    BY <2>2, <2>3, <2>4 DEF Sound
  <2> QED
    BY <2>1, <2>5, AloneStep
<1>2. CASE ReadCatalogue(t)
  <2> DEFINE S == task[t].mine
             dels == DOMAIN shop \ Range(Found(S))
             dirty == [p \in {q \in S : Found(S)[q] \notin {None, wpwc[q]}} |-> Found(S)[p]]
             r == Planned(t, S, Found(S), dels)
  <2>1. /\ task' = [task EXCEPT ![t] = r] /\ task[t].at = "read"
        /\ UNCHANGED <<active, content, varOn, shop, varShop, made, wpwc, varLink>>
    BY <1>2 DEF ReadCatalogue, local, remote
  <2>2. S \subseteq Products /\ dels \subseteq Nat
    BY <1>0 DEF TaskRows, Inv, ShopOK
  <2>3. Linked(Found(S), shop, made) /\ DOMAIN Found(S) = S
    BY <2>2, FoundLinked
  <2>4. TaskOK(r, shop, made)
    <3> HIDE DEF dels
    <3> QED
      BY <2>2, <2>3, PlannedOK
  <2>5. /\ r.plan = Found(S) /\ r.text = [p \in S |-> Payload(p)] /\ r.dels = dels
        /\ r.dirty = dirty /\ r.vary = S /\ r.mine = S /\ r.kind = task[t].kind
        /\ r.at = IF S = {} /\ dels = {} THEN "vary" ELSE "send"
    BY <1>0 DEF Planned, TaskRows
  <2>6. DOMAIN r.dirty \subseteq S
    BY <2>5
  <2> HIDE DEF r, dirty
  <2>7. ASSUME alone, Sound(t)
        PROVE  Sound(t)'
    <3>1. S = {p \in Products : active[p]} /\ task[t].kind = "sync"
      BY <2>1, <2>7 DEF Sound, Whole
    <3>2. r \in TaskRows
      BY <2>4 DEF TaskOK
    <3> DEFINE D == dels
    <3>3. D = DOMAIN shop \ Range(Found(S)) /\ D = dels
      OBVIOUS
    <3> HIDE DEF D, S
    <3> QED
      BY <2>1, <2>2, <2>5, <2>6, <3>1, <3>2, <3>3, PlannedSound DEF S
  <2>8. task[t].at # "idle"
    BY <2>1
  <2> QED
    BY <2>1, <2>7, <2>8, <1>2, AloneStep
<1>3. ASSUME NEW p \in Products, BeginPush(t, p)
      PROVE  AloneInv'
  <2> DEFINE S == {p}
             dirty == [x \in {q \in S : Found(S)[q] \notin {None, wpwc[q]}} |-> Found(S)[x]]
             plan == Planned(t, S, Found(S), {})
             r == [plan EXCEPT !.kind = "push", !.mine = {p}]
  <2>1. /\ task' = [task EXCEPT ![t] = r] /\ Quiet
        /\ UNCHANGED <<active, content, varOn, shop, varShop, made, wpwc, varLink>>
    BY <1>3 DEF BeginPush, local, remote
  <2>2. S \subseteq Products
    OBVIOUS
  <2>3. Linked(Found(S), shop, made) /\ DOMAIN Found(S) = S
    BY <2>2, FoundLinked
  <2>4. TaskOK(plan, shop, made)
    BY <2>2, <2>3, PlannedOK
  <2>5. /\ plan.plan = Found(S) /\ plan.text = [x \in S |-> Payload(x)] /\ plan.dels = {}
        /\ plan.dirty = dirty /\ plan.vary = S
        /\ plan.at = IF S = {} /\ {} = {} THEN "vary" ELSE "send"
    BY <1>0 DEF Planned, TaskRows
  <2>6. plan \in TaskRows
    BY <2>4 DEF TaskOK
  <2> HIDE DEF plan
  <2>7. /\ r \in TaskRows /\ r.plan = Found(S) /\ r.text = [x \in S |-> Payload(x)] /\ r.dels = {}
        /\ r.dirty = dirty /\ r.vary = S /\ r.mine = S /\ r.kind = "push"
        /\ r.at = IF S = {} /\ {} = {} THEN "vary" ELSE "send"
    BY <2>5, <2>6 DEF TaskRows
  <2>8. DOMAIN r.dirty \subseteq S
    BY <2>7
  <2> HIDE DEF r, dirty, S
  <2>9. Sound(t)'
    BY <2>1, <2>2, <2>7, <2>8, PlannedSound
  <2> QED
    BY <2>1, <2>9, AloneStep
<1> QED
  BY <1>1, <1>2, <1>3

\* What is told when the last variation is done.
LEMMA FinishAlone ==
    ASSUME Inv, AloneInv, UNCHANGED alone, NEW t \in Tasks, Finish(t)
    PROVE  AloneInv'
<1> DEFINE r == [Idle EXCEPT !.kind = task[t].kind, !.at = "told", !.mine = task[t].mine]
<1>1. /\ task[t].at = "vary" /\ task[t].vary = {}
      /\ task' = [task EXCEPT ![t] = Idle] \/ task' = [task EXCEPT ![t] = r]
      /\ UNCHANGED <<active, content, varOn, shop, varShop, made, wpwc, varLink>>
  BY DEF Finish, End, Tell, local, remote
<1>2. task[t].at # "idle" /\ Idle.at = "idle"
  BY <1>1 DEF Idle
<1>3. CASE task' = [task EXCEPT ![t] = Idle]
  BY <1>2, <1>3, AloneStep
<1>4. CASE task' = [task EXCEPT ![t] = r]
  <2>1. r.kind = task[t].kind /\ r.at = "told" /\ r.mine = task[t].mine
    BY DEF Idle
  <2> HIDE DEF r
  <2>2. task'[t] = r
    BY <1>4 DEF Inv, TasksOK
  <2>3. ASSUME Sound(t)
        PROVE  Sound(t)'
    <3>1. Progress(t) /\ Strays(t) /\ Variations(t) /\ Whole(t)
      BY <1>1, <2>3 DEF Sound
    <3>2. \A p \in task[t].mine : Copy(p) /\ (p \in Varied => VariationFollows(p))
      BY <1>1, <3>1 DEF Progress, Variations
    <3>3. task[t].kind = "sync" => \A id \in DOMAIN shop : shop[id].sku \in task[t].mine
      BY <1>1, <3>1 DEF Strays, Variations
    <3>4. Truth(t)'
      BY <1>1, <2>1, <2>2, <3>2, <3>3 DEF Truth, Copy, VariationFollows, Kids
    <3>5. Whole(t)'
      BY <1>1, <2>1, <2>2, <3>1 DEF Whole
    <3> QED
      BY <2>1, <2>2, <3>4, <3>5 DEF Sound
  <2> QED
    BY <1>2, <1>4, <2>3, AloneStep
<1> QED
  BY <1>1, <1>3, <1>4

\* A batch keeps the progress, and its answer is true.
LEMMA SendAlone ==
    ASSUME Inv, AloneInv, UNCHANGED alone, NEW t \in Tasks, SendBatch(t)
    PROVE  AloneInv'
<1>0. PICK b \in NextBatch(t) : \E ids \in Given({p \in b.create : ~HasSku(p)}) :
        /\ Executed(t, b, ids)
        /\ \E how \in {"apply", "lost"} :
             task' = [task EXCEPT ![t].at = how, ![t].sent = b, ![t].got = Answered(b, ids)]
  BY DEF SendBatch
<1>1. PICK ids \in Given({p \in b.create : ~HasSku(p)}), how \in {"apply", "lost"} :
        /\ Executed(t, b, ids)
        /\ task' = [task EXCEPT ![t].at = how, ![t].sent = b, ![t].got = Answered(b, ids)]
  BY <1>0
<1>2. BatchOf(t, b)
  BY NextBatchOK
<1>3. Done(t, b, ids)
  BY <1>1, <1>2, ExecutedDone
<1> DEFINE old == task[t]
           a == Answered(b, ids)
           r == [old EXCEPT !.at = how, !.sent = b, !.got = a]
<1>4. /\ task' = [task EXCEPT ![t] = r] /\ old.at = "send"
      /\ UNCHANGED <<active, content, varOn, wpwc, varLink>>
  BY <1>1 DEF SendBatch, local
<1>5. /\ r.at = how /\ r.sent = b /\ r.got = a /\ r.kind = old.kind /\ r.mine = old.mine
      /\ r.plan = old.plan /\ r.text = old.text /\ r.dels = old.dels /\ r.dirty = old.dirty
      /\ r.vary = old.vary
  BY DEF Inv, TasksOK, TaskRows
<1> HIDE DEF r
<1>6. task'[t] = r
  BY <1>4 DEF Inv, TasksOK
<1>7. ASSUME Sound(t)
      PROVE  Sound(t)'
  <2>1. Progress(t) /\ Strays(t) /\ Variations(t) /\ Whole(t)
    BY <1>4, <1>7 DEF Sound
  <2>2. /\ made \in Nat /\ made' \in Nat /\ made <= made' /\ DOMAIN shop \subseteq 1 .. made
        /\ DOMAIN shop' = (DOMAIN shop \ b.delete) \union Range(ids)
        /\ old.mine \subseteq Products
    BY <1>3 DEF Done, Inv, ShopOK, TasksOK, TaskRows
  <2>3. /\ DOMAIN ids = {p \in b.create : ~HasSku(p)} /\ Range(ids) = {ids[p] : p \in DOMAIN ids}
        /\ \A p \in DOMAIN ids : /\ ids[p] \in made + 1 .. made'
                                 /\ shop'[ids[p]] = [sku |-> p, text |-> old.text[p]]
    BY <1>3 DEF Given, Done, Range
  <2>4. MovesOn(shop, made, shop')
    BY <1>2, <1>3, DoneShop
  <2>5. \A id \in DOMAIN shop' : id \in DOMAIN shop => shop'[id].sku = shop[id].sku
    BY <2>2, <2>4 DEF MovesOn
  <2>6. \A id \in Range(ids) : id \notin 1 .. made /\ shop'[id].sku \in old.mine
    <3>1. \A p \in DOMAIN ids : p \in old.mine
      BY <1>2, <2>1, <2>3 DEF BatchOf, Progress
    <3>2. ASSUME NEW p \in DOMAIN ids
          PROVE  shop'[ids[p]].sku = p /\ ids[p] \notin 1 .. made
      <4>1. /\ ids[p] \in made + 1 .. made'
            /\ shop'[ids[p]] = [sku |-> p, text |-> old.text[p]]
        BY <2>3
      <4>2. ids[p] \notin 1 .. made
        BY <2>2, <4>1
      <4> QED
        BY <4>1, <4>2
    <3> QED
      BY <2>3, <3>1, <3>2
  <2>7. ASSUME NEW p \in old.mine \ DOMAIN old.plan
        PROVE  Copy(p)'
    <3> DEFINE id == wpwc[p]
    <3>1. id \in DOMAIN shop /\ shop[id] = [sku |-> p, text |-> content[p]]
      BY <2>1 DEF Progress, Copy
    <3>2. shop[id].sku = p
      BY <3>1
    <3>3. id \notin b.delete
      BY <1>2, <2>1, <3>1, <3>2 DEF BatchOf, Strays
    <3>4. ASSUME NEW q \in DOMAIN b.update
          PROVE  b.update[q] # id
      <4>1. q # p
        BY <1>2 DEF BatchOf
      <4> QED
        BY <1>2, <3>1, <3>2, <4>1 DEF BatchOf, Linked
    <3> HIDE DEF id
    <3>5. id \in DOMAIN shop' /\ shop'[id] = shop[id]
      BY <1>3, <2>2, <3>1, <3>3, <3>4 DEF Done
    <3> QED
      BY <1>4, <3>1, <3>5 DEF Copy, id
  <2>8. Progress(t)'
    BY <1>4, <1>5, <1>6, <2>1, <2>7 DEF Progress
  <2>9. Strays(t)'
    <3>1. old.dels \subseteq 1 .. made'
      BY <2>1, <2>2 DEF Strays
    <3>2. \A id \in DOMAIN shop' : id \in DOMAIN shop \/ id \in Range(ids)
      BY <2>2
    <3>3. \A id \in DOMAIN shop' : id \in old.dels => shop'[id].sku \notin old.mine
      BY <2>1, <2>5, <2>6, <3>2 DEF Strays
    <3>4. old.kind = "sync" => \A id \in DOMAIN shop' : id \in old.dels \/ shop'[id].sku \in old.mine
      BY <2>1, <2>5, <2>6, <3>2 DEF Strays
    <3> QED
      BY <1>5, <1>6, <3>1, <3>3, <3>4 DEF Strays
  <2>10. Whole(t)'
    BY <1>4, <1>5, <1>6, <2>1 DEF Whole
  <2>11. Variations(t)'
    BY <1>4, <1>5, <1>6, <2>1 DEF Variations
  <2>12. Answer(t)'
    <3> DEFINE S == {p \in DOMAIN b.update : b.update[p] \in DOMAIN shop}
               some == Restrict(b.update, S)
    <3>1. /\ a.link = Over(ids, some) /\ a.clash = {p \in b.create : HasSku(p)}
          /\ a.gone = b.delete \intersect DOMAIN shop
          /\ ~a.failed => \A p \in DOMAIN b.update : b.update[p] \in DOMAIN shop
      BY DEF Answered
    <3>2. DOMAIN some = S /\ \A p \in S : some[p] = b.update[p]
      BY DEF Restrict
    <3> HIDE DEF some
    <3>3. DOMAIN a.link = DOMAIN ids \union S
      BY <3>1, <3>2 DEF Over
    <3>4. ASSUME NEW p \in DOMAIN a.link
          PROVE  a.link[p] \in DOMAIN shop' /\ shop'[a.link[p]] = [sku |-> p, text |-> content[p]]
      <4>1. p \in DOMAIN old.plan /\ old.text[p] = content[p]
        BY <1>2, <2>1, <2>3, <3>3 DEF BatchOf, Progress
      <4>2. CASE p \in DOMAIN ids
        <5>1. a.link[p] = ids[p]
          BY <3>1, <4>2 DEF Over
        <5> QED
          BY <2>2, <2>3, <4>1, <4>2, <5>1
      <4>3. CASE p \notin DOMAIN ids
        <5>1. p \in S /\ a.link[p] = b.update[p]
          BY <3>1, <3>2, <3>3, <4>3 DEF Over
        <5>2. shop'[b.update[p]] = [sku |-> p, text |-> old.text[p]]
          BY <1>3, <5>1 DEF Done
        <5>3. b.delete = {}
          BY <1>2, <5>1 DEF BatchOf
        <5> QED
          BY <2>2, <4>1, <5>1, <5>2, <5>3
      <4> QED
        BY <4>2, <4>3
    <3>5. /\ b.create \union DOMAIN b.update \subseteq DOMAIN old.plan
          /\ DOMAIN a.link \union a.clash \subseteq b.create \union DOMAIN b.update
      BY <1>2, <2>3, <3>1, <3>3 DEF BatchOf
    <3>6. ~a.failed => b.create \union DOMAIN b.update \subseteq DOMAIN a.link \union a.clash
      BY <2>3, <3>1, <3>3
    <3>7. b.delete \intersect DOMAIN shop' = {} /\ a.gone \intersect DOMAIN shop' = {}
      <4>1. b.delete \subseteq 1 .. made
        BY <1>2, <2>1 DEF BatchOf, Strays
      <4> QED
        BY <2>2, <2>6, <3>1, <4>1
    <3> HIDE DEF a, S
    <3> QED
      BY <1>4, <1>5, <1>6, <3>4, <3>5, <3>6, <3>7 DEF Answer
  <2> QED
    BY <1>5, <1>6, <2>8, <2>9, <2>10, <2>11, <2>12 DEF Sound
<1>8. old.at # "idle"
  BY <1>4
<1> QED
  BY <1>4, <1>7, <1>8, AloneStep

\* Answers that are applied move the products they are about to those dealt with.
LEMMA ApplyAlone ==
    ASSUME Inv, AloneInv, UNCHANGED alone, NEW t \in Tasks, ApplyBatch(t)
    PROVE  AloneInv'
<1> DEFINE old == task[t]
           items == old.sent.create \cup DOMAIN old.sent.update
           P == DOMAIN old.plan \ items
           plan == Restrict(old.plan, P)
           dels == old.dels \ old.sent.delete
<1>0. /\ old.at = "apply" /\ wpwc' = Applied(t, Reconciled(t))
      /\ UNCHANGED <<active, content, varOn, varShop, made, varLink>>
      /\ old \in TaskRows /\ old.mine \subseteq Products
  BY DEF ApplyBatch, local, Inv, TasksOK, TaskRows
<1>1. Rewritten(t, Reconciled(t))
  BY ReconciledLinked, ResentRewrites DEF ApplyBatch
<1>2. CASE ~Complete(t)
  <2>1. task' = [task EXCEPT ![t] = Idle] /\ Idle.at = "idle" /\ old.at # "idle"
    BY <1>0, <1>2 DEF ApplyBatch, End, Idle
  <2> QED
    BY <2>1, AloneStep
<1>3. CASE Complete(t)
  <2>1. PICK at \in {"vary", "send"} :
          /\ at = IF DOMAIN plan = {} /\ dels = {} THEN "vary" ELSE "send"
          /\ task' = [task EXCEPT ![t].at = at, ![t].plan = plan, ![t].dels = dels,
                                  ![t].dirty = Nothing, ![t].sent = NoBatch, ![t].got = NoAnswer]
    BY <1>3, Zenon DEF ApplyBatch
  <2> DEFINE r == [old EXCEPT !.at = at, !.plan = plan, !.dels = dels,
                              !.dirty = Nothing, !.sent = NoBatch, !.got = NoAnswer]
  <2>2. task' = [task EXCEPT ![t] = r]
    BY <2>1
  <2>3. /\ r.at = at /\ r.kind = old.kind /\ r.mine = old.mine
        /\ r.plan = plan /\ r.text = old.text /\ r.dels = dels /\ r.dirty = Nothing
        /\ r.vary = old.vary
    BY <1>0 DEF TaskRows
  <2> HIDE DEF r
  <2>4. task'[t] = r
    BY <2>2 DEF Inv, TasksOK
  <2>5. DOMAIN plan = P /\ DOMAIN Nothing = {}
    BY DEF Restrict, Nothing
  <2>6. ASSUME Sound(t)
        PROVE  Sound(t)'
    <3>1. Progress(t) /\ Strays(t) /\ Variations(t) /\ Whole(t) /\ Answer(t)
      BY <1>0, <2>6 DEF Sound
    <3>2. /\ DOMAIN shop' = DOMAIN shop
          /\ \A id \in DOMAIN shop : shop'[id].sku = shop[id].sku
      <4>1. ASSUME NEW id \in DOMAIN shop
            PROVE  shop'[id].sku = shop[id].sku
        <5>1. CASE shop'[id] = shop[id]
          BY <5>1
        <5>2. ASSUME NEW p \in DOMAIN Reconciled(t), id = Reconciled(t)[p],
                     shop'[id] = [sku |-> p, text |-> old.text[p]]
              PROVE  shop'[id].sku = shop[id].sku
          <6>1. shop[id].sku = p
            BY <5>2, ReconciledLinked
          <6> QED
            BY <5>2, <6>1
        <5> QED
          BY <1>1, <5>1, <5>2 DEF Rewritten
      <4> QED
        BY <1>1, <4>1 DEF Rewritten
    <3> DEFINE View0 == View(t)
               f == Reconciled(t)
               link == old.got.link
    <3>3. /\ \A p \in DOMAIN f : f[p] \in DOMAIN shop /\ shop[f[p]].sku = p
          /\ DOMAIN f = {q \in old.got.clash : HasSku(q)}
      BY ReconciledLinked
    <3>4. \A p \in DOMAIN f : p \in items /\ p \in DOMAIN old.plan /\ old.text[p] = content[p]
      BY <3>1, <3>3 DEF Answer, Progress
    <3>5. ASSUME NEW p \in Products
          PROVE  /\ p \in DOMAIN f => wpwc'[p] = f[p]
                 /\ p \notin DOMAIN f /\ p \in DOMAIN link => wpwc'[p] = link[p]
                 /\ p \notin DOMAIN f /\ p \notin DOMAIN link /\ View0[p] \notin old.got.gone
                      => wpwc'[p] = View0[p]
      <4> DEFINE known == {q \in DOMAIN link : q \in old.sent.create \/ View0[q] = link[q]}
                 lost == {q \in Products : View0[q] \in old.got.gone}
                 some == Restrict(link, known)
                 cut == [q \in lost |-> None]
                 second == Over(cut, View0)
                 first == Over(some, second)
      <4>1. wpwc' = Over(f, first)
        BY <1>0 DEF Applied
      <4>2. known = DOMAIN link
        BY <1>3 DEF Complete
      <4>3. DOMAIN some = DOMAIN link /\ \A q \in DOMAIN link : some[q] = link[q]
        BY <4>2 DEF Restrict
      <4>4. p \in DOMAIN View0 /\ DOMAIN cut = lost
        BY ViewLinked
      <4> HIDE DEF View0, f, link, some, cut
      <4>5. p \in DOMAIN second /\ (p \notin lost => second[p] = View0[p])
        BY <4>4 DEF Over
      <4> HIDE DEF second
      <4>6. p \in DOMAIN first /\ first[p] = IF p \in DOMAIN link THEN link[p] ELSE second[p]
        BY <4>3, <4>5 DEF Over
      <4> HIDE DEF first
      <4>7. wpwc'[p] = IF p \in DOMAIN f THEN f[p] ELSE first[p]
        BY <4>1, <4>6 DEF Over
      <4> QED
        BY <4>5, <4>6, <4>7
    <3>6. ASSUME NEW p \in DOMAIN f
          PROVE  shop'[f[p]] = [sku |-> p, text |-> content[p]]
      <4>1. f[p] \in DOMAIN shop /\ shop[f[p]].sku = p /\ f[p] \in Range(f)
        BY <3>3 DEF Range
      <4>2. PICK q \in DOMAIN f : f[p] = f[q] /\ shop'[f[p]] = [sku |-> q, text |-> old.text[q]]
        BY <1>1, <4>1 DEF Rewritten
      <4>3. shop[f[q]].sku = q
        BY <3>3
      <4>4. q = p
        BY <4>1, <4>2, <4>3
      <4> QED
        BY <3>4, <4>2, <4>4
    <3>7. ASSUME NEW id \in DOMAIN shop, NEW p, shop[id] = [sku |-> p, text |-> content[p]]
          PROVE  shop'[id] = [sku |-> p, text |-> content[p]]
      <4>1. CASE shop'[id] = shop[id]
        BY <3>7, <4>1
      <4>2. ASSUME NEW q \in DOMAIN f, id = f[q], shop'[id] = [sku |-> q, text |-> old.text[q]]
            PROVE  shop'[id] = [sku |-> p, text |-> content[p]]
        <5>1. shop[id].sku = p /\ shop[id].sku = q
          BY <3>3, <3>7, <4>2
        <5> QED
          BY <3>4, <4>2, <5>1
      <4> QED
        BY <1>1, <4>1, <4>2 DEF Rewritten
    <3>8. ASSUME NEW p \in old.mine \ P
          PROVE  Copy(p)'
      <4>0. p \in Products
        BY <1>0
      <4>1. CASE p \notin DOMAIN old.plan
        <5>1. /\ wpwc[p] \in DOMAIN shop /\ shop[wpwc[p]] = [sku |-> p, text |-> content[p]]
          BY <3>1, <4>1 DEF Progress, Copy
        <5>2. p \notin DOMAIN old.dirty /\ View0[p] = wpwc[p]
          <6>1. p \notin DOMAIN old.dirty /\ p \in DOMAIN wpwc
            BY <3>1, <4>0, <4>1 DEF Progress, Inv, LinksOK
          <6> QED
            BY <6>1 DEF View, Over
        <5>3. p \notin DOMAIN f /\ p \notin DOMAIN link /\ View0[p] \notin old.got.gone
          BY <3>1, <3>4, <4>1, <5>1, <5>2 DEF Answer
        <5>4. wpwc'[p] = wpwc[p]
          BY <3>5, <4>0, <5>2, <5>3
        <5>5. shop'[wpwc[p]] = [sku |-> p, text |-> content[p]]
          BY <3>7, <5>1
        <5> QED
          BY <1>0, <3>2, <5>1, <5>4, <5>5 DEF Copy
      <4>2. CASE p \in DOMAIN f
        <5>1. wpwc'[p] = f[p] /\ f[p] \in DOMAIN shop
          BY <3>3, <3>5, <4>0, <4>2
        <5>2. shop'[f[p]] = [sku |-> p, text |-> content[p]]
          BY <3>6, <4>2
        <5> QED
          BY <1>0, <3>2, <5>1, <5>2 DEF Copy
      <4>3. CASE p \in DOMAIN old.plan /\ p \notin DOMAIN f
        <5>1. p \in items
          BY <4>3
        <5>2. p \in DOMAIN link
          BY <1>3, <3>1, <4>3, <5>1 DEF Complete, Answer
        <5>3. link[p] \in DOMAIN shop /\ shop[link[p]] = [sku |-> p, text |-> content[p]]
          BY <3>1, <5>2 DEF Answer
        <5>4. wpwc'[p] = link[p]
          BY <3>5, <4>0, <4>3, <5>2
        <5>5. shop'[link[p]] = [sku |-> p, text |-> content[p]]
          BY <3>7, <5>3
        <5> QED
          BY <1>0, <3>2, <5>3, <5>4, <5>5 DEF Copy
      <4> QED
        BY <4>1, <4>2, <4>3
    <3> HIDE DEF plan, P, dels
    <3>9. Progress(t)'
      <4>1. P \subseteq DOMAIN old.plan
        BY DEF P
      <4> QED
        BY <1>0, <2>3, <2>4, <2>5, <3>1, <3>8, <4>1 DEF Progress
    <3>10. Strays(t)'
      <4>1. dels \subseteq old.dels
        BY DEF dels
      <4>2. \A id \in DOMAIN shop : id \in old.dels => id \in dels
        BY <3>1 DEF Answer, dels
      <4> QED
        BY <1>0, <2>3, <2>4, <3>1, <3>2, <4>1, <4>2 DEF Strays
    <3>11. Whole(t)'
      BY <1>0, <2>3, <2>4, <3>1 DEF Whole
    <3>12. Variations(t)'
      <4>1. old.vary = old.mine
        BY <1>0, <3>1 DEF Variations
      <4> QED
        BY <2>1, <2>3, <2>4, <4>1 DEF Variations
    <3> QED
      BY <2>3, <2>4, <3>9, <3>10, <3>11, <3>12 DEF Sound
  <2>7. old.at # "idle"
    BY <1>0
  <2> QED
    BY <2>2, <2>6, <2>7, AloneStep
<1> QED
  BY <1>2, <1>3

\* What Varies leaves of the variation of p.
LEMMA VariesFollows ==
    ASSUME Inv, NEW t \in Tasks, NEW p \in Varied, wpwc[p] \in DOMAIN shop,
           UNCHANGED <<wpwc, varOn, shop>>, Varies(t, p, wpwc[p])
    PROVE  /\ VariationFollows(p)'
           /\ \A q \in Varied : /\ q # p /\ wpwc[q] \in DOMAIN shop /\ VariationFollows(q)
                                => VariationFollows(q)'
<1> DEFINE id == wpwc[p]
<1>0. /\ made \in Nat /\ DOMAIN shop \subseteq 1 .. made /\ id \in DOMAIN shop
      /\ KidsOK(varShop, made) /\ varLink \in [Varied -> Nat] /\ Varied \subseteq Products
      /\ wpwc \in [Products -> Nat] /\ varOn \in [Varied -> BOOLEAN]
  BY WooCatalogueAssumption DEF Inv, ShopOK, LinksOK, LocalOK
<1>1. ASSUME NEW q \in Varied, q # p, wpwc[q] \in DOMAIN shop
      PROVE  wpwc[q] # id
  <2>1. shop[wpwc[q]].sku = q /\ shop[id].sku = p
    BY <1>0, <1>1 DEF Inv, LinksOK, Linked
  <2> QED
    BY <1>1, <2>1
<1>2. \A v \in Kids(id) : v \in DOMAIN varShop /\ varShop[v] = id /\ v \in 1 .. made /\ v # 0
  BY <1>0 DEF Kids, KidsOK
<1>3. ASSUME UNCHANGED varShop, varOn[p], NEW v \in Kids(id), varLink' = [varLink EXCEPT ![p] = v]
      PROVE  /\ VariationFollows(p)'
             /\ \A q \in Varied : q # p /\ VariationFollows(q) => VariationFollows(q)'
  <2>1. Kids(id) = {v}
    BY <1>2 DEF KidsOK, Inv
  <2>2. Kids(id)' = {v} /\ varLink'[p] = v /\ v # 0
    BY <1>0, <1>2, <1>3, <2>1 DEF Kids
  <2>3. \A q \in Varied : q # p => varLink'[q] = varLink[q]
    BY <1>0, <1>3
  <2>4. \A j : {w \in DOMAIN varShop' : varShop'[w] = j} = {w \in DOMAIN varShop : varShop[w] = j}
    BY <1>3
  <2> QED
    BY <1>3, <2>2, <2>3, <2>4 DEF VariationFollows, None, Kids
<1>4. ASSUME Kids(id) = {}, varOn[p], made' = made + 1, varShop' = With(made', id, varShop),
             varLink' = [varLink EXCEPT ![p] = made']
      PROVE  /\ VariationFollows(p)'
             /\ \A q \in Varied : q # p /\ wpwc[q] \in DOMAIN shop /\ VariationFollows(q)
                                  => VariationFollows(q)'
  <2> DEFINE n == made + 1
  <2>1. /\ varShop' = With(n, id, varShop) /\ n \in Nat /\ n # 0 /\ n \notin DOMAIN varShop
        /\ varLink' = [varLink EXCEPT ![p] = n]
    BY <1>0, <1>4 DEF KidsOK
  <2> HIDE DEF n
  <2>2. /\ DOMAIN varShop' = {n} \union DOMAIN varShop /\ varShop'[n] = id
        /\ \A v \in DOMAIN varShop : varShop'[v] = varShop[v]
    BY <2>1 DEF With, Over
  <2>3. Kids(id)' = {n} /\ varLink'[p] = n
    <3>1. \A v \in DOMAIN varShop : varShop[v] # id
      BY <1>4 DEF Kids
    <3> QED
      BY <1>0, <2>1, <2>2, <3>1 DEF Kids
  <2>4. VariationFollows(p)'
    BY <1>4, <2>1, <2>3 DEF VariationFollows, None
  <2>5. ASSUME NEW q \in Varied, q # p, wpwc[q] \in DOMAIN shop, VariationFollows(q)
        PROVE  VariationFollows(q)'
    <3>1. Kids(wpwc[q])' = Kids(wpwc[q]) /\ varLink'[q] = varLink[q]
      BY <1>0, <1>1, <2>1, <2>2, <2>5 DEF Kids
    <3> QED
      BY <2>5, <3>1 DEF VariationFollows
  <2> QED
    BY <2>4, <2>5
<1>5. ASSUME ~varOn[p], varShop' = Restrict(varShop, DOMAIN varShop \ Kids(id)),
             varLink' = [varLink EXCEPT ![p] = None]
      PROVE  /\ VariationFollows(p)'
             /\ \A q \in Varied : q # p /\ wpwc[q] \in DOMAIN shop /\ VariationFollows(q)
                                  => VariationFollows(q)'
  <2>1. /\ DOMAIN varShop' = DOMAIN varShop \ Kids(id)
        /\ \A v \in DOMAIN varShop' : varShop'[v] = varShop[v]
    BY <1>5 DEF Restrict
  <2>2. Kids(id)' = {} /\ varLink'[p] = None
    BY <1>0, <1>5, <2>1 DEF Kids
  <2>3. VariationFollows(p)'
    BY <1>5, <2>2 DEF VariationFollows
  <2>4. ASSUME NEW q \in Varied, q # p, wpwc[q] \in DOMAIN shop, VariationFollows(q)
        PROVE  VariationFollows(q)'
    <3>1. Kids(wpwc[q])' = Kids(wpwc[q]) /\ varLink'[q] = varLink[q]
      BY <1>0, <1>1, <1>2, <1>5, <2>1, <2>4 DEF Kids
    <3> QED
      BY <2>4, <3>1 DEF VariationFollows
  <2> QED
    BY <2>3, <2>4
<1>6. CASE varOn[p] /\ Kids(id) # {} /\ UNCHANGED <<varShop, made>>
           /\ varLink' = [varLink EXCEPT ![p] = CHOOSE v \in Kids(id) : TRUE]
  <2> DEFINE v == CHOOSE v \in Kids(id) : TRUE
  <2>1. v \in Kids(id)
    BY <1>6
  <2> HIDE DEF v
  <2>2. varLink' = [varLink EXCEPT ![p] = v]
    BY <1>6 DEF v
  <2> QED
    BY <1>3, <1>6, <2>1, <2>2
<1>7. CASE /\ varOn[p] /\ Kids(id) = {} /\ made' = made + 1 /\ varShop' = With(made', id, varShop)
           /\ varLink' = [varLink EXCEPT ![p] = made']
  BY <1>4, <1>7
<1>8. CASE /\ ~varOn[p] /\ varShop' = Restrict(varShop, DOMAIN varShop \ Kids(id))
           /\ varLink' = [varLink EXCEPT ![p] = None]
  BY <1>5, <1>8
<1> HIDE DEF id
<1> QED
  BY <1>6, <1>7, <1>8 DEF Varies, id

\* A product whose variation is dealt with follows, and the others still do.
LEMMA VaryAlone ==
    ASSUME Inv, AloneInv, UNCHANGED alone, NEW t \in Tasks, Vary(t)
    PROVE  AloneInv'
<1>p. PICK p : p = Min(task[t].vary)
  OBVIOUS
<1> DEFINE old == task[t]
           r == [old EXCEPT !.vary = @ \ {p}]
<1>0. /\ task' = [task EXCEPT ![t] = r] /\ UNCHANGED <<active, content, varOn, wpwc, shop>>
      /\ IF p \in Varied /\ wpwc[p] # None THEN Varies(t, p, wpwc[p])
                                           ELSE UNCHANGED <<varShop, made, varLink>>
      /\ old.at = "vary" /\ old.vary # {}
  BY <1>p DEF Vary, local
<1>1. old \in TaskRows /\ made \in Nat /\ DOMAIN shop \subseteq 1 .. made
  BY DEF Inv, TasksOK, ShopOK
<1>2. /\ r.at = "vary" /\ r.kind = old.kind /\ r.mine = old.mine
      /\ r.plan = old.plan /\ r.text = old.text /\ r.dels = old.dels /\ r.dirty = old.dirty
      /\ r.vary = old.vary \ {p}
  BY <1>0, <1>1 DEF TaskRows
<1>3. p \in old.vary
  <2>1. old.vary \in SUBSET Nat
    BY <1>1, WooCatalogueAssumption DEF TaskRows
  <2>2. \E n \in old.vary : \A k \in old.vary : n <= k
    BY <1>0, <2>1, LeastNat
  <2> QED
    BY <1>p, <2>2 DEF Min
<1> HIDE DEF r
<1>4. task'[t] = r
  BY <1>0 DEF Inv, TasksOK
<1>5. ASSUME Sound(t)
      PROVE  Sound(t)'
  <2>1. Progress(t) /\ Strays(t) /\ Variations(t) /\ Whole(t)
    BY <1>0, <1>5 DEF Sound
  <2>2. \A q \in old.mine : Copy(q) /\ wpwc[q] \in DOMAIN shop
    BY <1>0, <2>1 DEF Progress, Variations, Copy
  <2>3. p \in old.mine /\ wpwc[p] \in DOMAIN shop /\ wpwc[p] # None
    BY <1>1, <1>3, <2>1, <2>2 DEF Variations, None
  <2>4. made' \in Nat /\ made <= made'
    BY <1>0, <1>1 DEF Varies
  <2>5. ASSUME NEW q \in old.mine \ r.vary, q \in Varied
        PROVE  VariationFollows(q)'
    <3>1. CASE p \in Varied
      <4>1. Varies(t, p, wpwc[p])
        BY <1>0, <2>3, <3>1
      <4>2. /\ VariationFollows(p)'
            /\ \A x \in Varied : /\ x # p /\ wpwc[x] \in DOMAIN shop /\ VariationFollows(x)
                                 => VariationFollows(x)'
        BY <1>0, <2>3, <3>1, <4>1, VariesFollows
      <4>3. q # p => VariationFollows(q)
        BY <1>0, <1>2, <2>1, <2>5 DEF Variations
      <4> QED
        BY <2>2, <2>5, <4>2, <4>3
    <3>2. CASE p \notin Varied
      <4>1. UNCHANGED <<varShop, varLink, varOn, wpwc>>
        BY <1>0, <3>2
      <4>2. VariationFollows(q)
        BY <1>0, <1>2, <2>1, <2>5, <3>2 DEF Variations
      <4> QED
        BY <4>1, <4>2 DEF VariationFollows, Kids
    <3> QED
      BY <3>1, <3>2
  <2>6. Variations(t)'
    BY <1>0, <1>2, <1>4, <2>1, <2>5 DEF Variations
  <2>7. Progress(t)'
    BY <1>0, <1>2, <1>4, <2>1 DEF Progress, Copy
  <2>8. Strays(t)'
    <3>1. old.dels \subseteq 1 .. made'
      BY <1>1, <2>1, <2>4 DEF Strays
    <3> QED
      BY <1>0, <1>2, <1>4, <2>1, <3>1 DEF Strays
  <2>9. Whole(t)'
    BY <1>0, <1>2, <1>4, <2>1 DEF Whole
  <2> QED
    BY <1>2, <1>4, <2>6, <2>7, <2>8, <2>9 DEF Sound
<1>6. old.at # "idle"
  BY <1>0
<1> QED
  BY <1>0, <1>5, <1>6, AloneStep

\* The screens and the shop keep still while a task runs alone, and the death of
\* the process ends every task.
LEMMA OthersAlone ==
    ASSUME Inv, AloneInv, UNCHANGED alone,
           \/ \E p \in Products : ToggleProduct(p) \/ EditProduct(p)
           \/ \E p \in Varied : ToggleVariation(p)
           \/ ShopCreates \/ \E id \in DOMAIN shop : ShopDeletes(id)
           \/ Crash
    PROVE  AloneInv'
<1>1. CASE ~Crash
  <2>1. Quiet /\ UNCHANGED task
    BY <1>1 DEF ToggleProduct, EditProduct, ToggleVariation, ShopCreates, ShopDeletes
  <2> QED
    BY <2>1 DEF AloneInv, Quiet, Busy
<1>2. CASE Crash
  <2>1. \A t \in Tasks : task'[t].at = "idle"
    BY <1>2 DEF Crash, Idle
  <2> QED
    BY <2>1 DEF AloneInv
<1> QED
  BY <1>1, <1>2

\* Every step keeps what holds of a task that runs alone.
LEMMA StepAlone == Inv /\ AloneInv /\ [Next]_vars => AloneInv'
<1> SUFFICES ASSUME Inv, AloneInv, [Next]_vars PROVE AloneInv'
  OBVIOUS
<1>1. CASE UNCHANGED vars
  BY <1>1 DEF vars, AloneInv, Sound, Whole, Progress, Strays, Variations, Answer, Truth, Copy,
              VariationFollows, Kids
<1>2. CASE Next
  <2>0. UNCHANGED alone
    BY <1>2 DEF Next
  <2>1. ASSUME NEW t \in Tasks,
               BeginSync(t) \/ ReadCatalogue(t) \/ \E p \in Products : BeginPush(t, p)
        PROVE  AloneInv'
    BY <2>0, <2>1, ReadersAlone
  <2>2. ASSUME NEW t \in Tasks,
               ReadFails(t) \/ Read(t) \/ BatchFails(t) \/ ApplyFails(t) \/ VaryFails(t)
        PROVE  AloneInv'
    BY <2>0, <2>2, EndsAlone
  <2>3. ASSUME NEW t \in Tasks, SendBatch(t)
        PROVE  AloneInv'
    BY <2>0, <2>3, SendAlone
  <2>4. ASSUME NEW t \in Tasks, ApplyBatch(t)
        PROVE  AloneInv'
    BY <2>0, <2>4, ApplyAlone
  <2>5. ASSUME NEW t \in Tasks, Vary(t)
        PROVE  AloneInv'
    BY <2>0, <2>5, VaryAlone
  <2>6. ASSUME NEW t \in Tasks, Finish(t)
        PROVE  AloneInv'
    BY <2>0, <2>6, FinishAlone
  <2>7. CASE \/ \E p \in Products : ToggleProduct(p) \/ EditProduct(p)
             \/ \E p \in Varied : ToggleVariation(p)
             \/ ShopCreates \/ \E id \in DOMAIN shop : ShopDeletes(id)
             \/ Crash
    BY <2>0, <2>7, OthersAlone
  <2> QED
    BY <1>2, <2>1, <2>2, <2>3, <2>4, <2>5, <2>6, <2>7, Zenon DEF Next
<1> QED
  BY <1>1, <1>2

\* While one task runs at a time, what it has dealt with is in the shop as it is
\* here, what it has not is still planned, and an answer on its way is true.
THEOREM AloneInductive == Spec => []AloneInv
<1>1. Init => AloneInv
  BY DEF Init, AloneInv, Idle
<1> QED
  BY <1>1, StepAlone, Inductive, PTL DEF Spec

\* One task at a time, a push told as a success has left the product and its
\* variation in the shop as they are here (PushIsTrue).
THEOREM PushSafe == ShopSpec => []PushIsTrue
<1>1. Inv /\ AloneInv => PushIsTrue
  BY DEF Inv, LocalOK, TasksOK, AloneInv, Sound, Truth, PushIsTrue
<1> QED
  BY <1>1, Inductive, AloneInductive, Composed, PTL

\* One task at a time, a synchronisation told as a success has left the shop with
\* one copy of each active product and nothing else (SyncIsMirror).
THEOREM MirrorSafe == ShopSpec => []SyncIsMirror
<1>1. Inv /\ AloneInv => SyncIsMirror
  <2> SUFFICES ASSUME Inv, AloneInv, alone, NEW t \in Tasks,
                      task[t].at = "told", task[t].kind = "sync"
               PROVE  /\ \A p \in DOMAIN active : active[p] <=> wpwc[p] \in DOMAIN shop
                      /\ DOMAIN shop \subseteq Range(wpwc)
    BY DEF SyncIsMirror, Inv, TasksOK
  <2>1. Truth(t) /\ task[t].mine = {p \in Products : active[p]}
    BY DEF AloneInv, Sound, Whole
  <2>2. ASSUME NEW p \in DOMAIN active
        PROVE  active[p] <=> wpwc[p] \in DOMAIN shop
    <3>1. p \in Products /\ active[p] \in BOOLEAN
      BY DEF Inv, LocalOK
    <3>2. active[p] => wpwc[p] \in DOMAIN shop
      BY <2>1, <3>1 DEF Truth, Copy
    <3>3. wpwc[p] \in DOMAIN shop => shop[wpwc[p]].sku = p
      BY <3>1 DEF Inv, LinksOK, Linked
    <3>4. wpwc[p] \in DOMAIN shop => active[p]
      BY <2>1, <3>3 DEF Truth
    <3> QED
      BY <3>2, <3>4
  <2>3. ASSUME NEW id \in DOMAIN shop
        PROVE  id \in Range(wpwc)
    <3> DEFINE p == shop[id].sku
    <3>1. p \in task[t].mine /\ p \in Products
      BY <2>1 DEF Truth
    <3>2. wpwc[p] \in DOMAIN shop
      BY <2>1, <3>1 DEF Truth, Copy
    <3>3. id = wpwc[p]
      BY <3>1, <3>2, OnlyCopy
    <3> QED
      BY <3>1, <3>3 DEF Range, Inv, LinksOK
  <2> QED
    BY <2>2, <2>3
<1> QED
  BY <1>1, Inductive, AloneInductive, Composed, PTL

-----------------------------------------------------------------------------
(* The rates of VAT.                                                       *)

\* A row of a rate has a code and dates.
Dated(row) ==
    /\ {"code", "start", "end"} \subseteq DOMAIN row
    /\ row.start \in Nat /\ row.end \in Nat

InTurn(p, q) == p.code = q.code => p.end <= q.start \/ q.end <= p.start

RatesOK(rs) ==
    /\ \E S : rs \in Seq(S)
    /\ \A i \in DOMAIN rs : Dated(rs[i])
    /\ \A i, j \in DOMAIN rs : i # j => InTurn(rs[i], rs[j])

VatInv == ~sloppy => now \in Nat /\ RatesOK(rates)

-----------------------------------------------------------------------------
(* The rows.                                                               *)

\* A function of the numbers up to the length of a sequence is a sequence.
LEMMA IsSequence ==
    ASSUME NEW S, NEW s \in Seq(S), NEW f, DOMAIN f = DOMAIN s, f = [i \in DOMAIN f |-> f[i]]
    PROVE  \E T : f \in Seq(T)
<1>1. DOMAIN s = 1 .. Len(s) /\ Len(s) \in Nat
    OBVIOUS
<1> DEFINE T == {f[i] : i \in 1 .. Len(s)}
<1>2. f \in [1 .. Len(s) -> T]
    BY <1>1
<1>3. f \in Seq(T)
    BY <1>1, <1>2
<1> QED
    BY <1>3

\* Rows whose codes and starts are the same and whose ends come no later.
LEMMA BroughtForward ==
    ASSUME NEW rs, RatesOK(rs), NEW new, DOMAIN new = DOMAIN rs,
           new = [i \in DOMAIN new |-> new[i]],
           \A i \in DOMAIN rs :
             Dated(new[i]) /\ new[i].code = rs[i].code /\ new[i].start = rs[i].start
                           /\ new[i].end <= rs[i].end
    PROVE  RatesOK(new)
<1>1. \E S : new \in Seq(S)
    BY IsSequence DEF RatesOK
<1>2. ASSUME NEW i \in DOMAIN rs, NEW j \in DOMAIN rs, i # j
      PROVE  InTurn(new[i], new[j])
  <2>1. /\ InTurn(rs[i], rs[j]) /\ Dated(rs[i]) /\ Dated(rs[j])
        /\ Dated(new[i]) /\ Dated(new[j])
      BY <1>2 DEF RatesOK
  <2> QED
      BY <2>1 DEF InTurn, Dated
<1> QED
    BY <1>1, <1>2 DEF RatesOK

\* Closing what a new start replaces only brings ends forward.
LEMMA ClosedOK ==
    ASSUME NEW rs, RatesOK(rs), NEW new \in DOMAIN rs
    PROVE  RatesOK(Vat!Closed(rs, new))
<1> DEFINE closed == Vat!Closed(rs, new)
<1>1. closed = [i \in DOMAIN closed |-> closed[i]] /\ DOMAIN closed = DOMAIN rs
    BY DEF Vat!Closed
<1>2. ASSUME NEW i \in DOMAIN rs
      PROVE  /\ Dated(closed[i]) /\ closed[i].code = rs[i].code
             /\ closed[i].start = rs[i].start /\ closed[i].end <= rs[i].end
  <2>1. Dated(rs[i]) /\ Dated(rs[new])
      BY DEF RatesOK
  <2>2. CASE closed[i] = rs[i]
      BY <2>1, <2>2 DEF Dated
  <2>3. CASE /\ closed[i] = [rs[i] EXCEPT !.end = rs[new].start]
             /\ rs[new].start < rs[i].end
      BY <2>1, <2>3 DEF Dated
  <2> QED
      BY <2>2, <2>3 DEF Vat!Closed
<1> QED
    BY <1>1, <1>2, BroughtForward

\* A new rate that starts after those of its code.
LEMMA AppendedOK ==
    ASSUME RatesOK(rates), NEW row, Dated(row),
           Vat!InOrder(Append(rates, row), Len(rates) + 1)
    PROVE  RatesOK(Vat!Closed(Append(rates, row), Len(rates) + 1))
<1> DEFINE n == Len(rates) + 1
           rs == Append(rates, row)
           closed == Vat!Closed(rs, n)
<1>1. PICK S : rates \in Seq(S)
    BY DEF RatesOK
<1>2. /\ Len(rates) \in Nat /\ DOMAIN rates = 1 .. Len(rates)
      /\ rs \in Seq(S \union {row}) /\ DOMAIN rs = 1 .. n
      /\ rs[n] = row /\ \A i \in DOMAIN rates : i \in DOMAIN rs /\ rs[i] = rates[i] /\ i # n
      /\ \A i \in DOMAIN rs : i # n => i \in DOMAIN rates
    BY <1>1
<1>3. DOMAIN closed = DOMAIN rs /\ closed = [i \in DOMAIN closed |-> closed[i]]
    BY DEF Vat!Closed
<1>4. \E T : closed \in Seq(T)
    BY <1>2, <1>3, IsSequence
<1>5. n \in DOMAIN rs /\ closed[n] = row
    BY <1>2 DEF Vat!Closed
<1>6. ASSUME NEW i \in DOMAIN rates
      PROVE  /\ Dated(closed[i]) /\ closed[i].code = rates[i].code
             /\ closed[i].start = rates[i].start /\ closed[i].end <= rates[i].end
             /\ closed[i].code = row.code => closed[i].end <= row.start
  <2>1. Dated(rates[i]) /\ rs[i] = rates[i] /\ i \in DOMAIN rs /\ i # n
      BY <1>2 DEF RatesOK
  <2>2. rates[i].code = row.code => rates[i].start < row.start
      BY <1>2, <2>1 DEF Vat!InOrder
  <2>3. closed[i] = IF rates[i].code = row.code /\ rates[i].start < row.start
                       /\ row.start < rates[i].end
                    THEN [rates[i] EXCEPT !.end = row.start] ELSE rates[i]
      BY <1>2, <2>1 DEF Vat!Closed
  <2>4. CASE closed[i] = rates[i] /\ (rates[i].code = row.code => ~(row.start < rates[i].end))
      BY <2>1, <2>4 DEF Dated
  <2>5. CASE closed[i] = [rates[i] EXCEPT !.end = row.start] /\ row.start < rates[i].end
      BY <2>1, <2>5 DEF Dated
  <2> QED
      BY <2>2, <2>3, <2>4, <2>5
<1>7. \A i \in DOMAIN closed : Dated(closed[i])
    BY <1>2, <1>3, <1>5, <1>6
<1>8. ASSUME NEW i \in DOMAIN closed, NEW j \in DOMAIN closed, i # j
      PROVE  InTurn(closed[i], closed[j])
  <2>1. CASE i = n
    <3>1. j \in DOMAIN rates
        BY <1>2, <1>3, <1>8, <2>1
    <3> QED
        BY <1>5, <1>6, <2>1, <3>1 DEF InTurn
  <2>2. CASE j = n
    <3>1. i \in DOMAIN rates
        BY <1>2, <1>3, <1>8, <2>2
    <3> QED
        BY <1>5, <1>6, <2>2, <3>1 DEF InTurn
  <2>3. CASE i # n /\ j # n
    <3>1. i \in DOMAIN rates /\ j \in DOMAIN rates
        BY <1>2, <1>3, <2>3
    <3>2. InTurn(rates[i], rates[j]) /\ Dated(rates[i]) /\ Dated(rates[j])
        BY <1>8, <3>1 DEF RatesOK
    <3>3. Dated(closed[i]) /\ Dated(closed[j])
        BY <1>7
    <3> HIDE DEF closed
    <3> QED
        BY <1>6, <3>1, <3>2, <3>3 DEF InTurn, Dated
  <2> QED
      BY <2>1, <2>2, <2>3
<1> QED
    BY <1>4, <1>7, <1>8 DEF RatesOK

\* The reconciliation sets identifiers and classes.
LEMMA SetOK ==
    ASSUME RatesOK(rates), NEW links, NEW slugs
    PROVE  RatesOK(Vat!Set(links, slugs))
<1> DEFINE rs == Vat!Set(links, slugs)
<1>1. DOMAIN rs = DOMAIN rates /\ rs = [i \in DOMAIN rs |-> rs[i]]
    BY DEF Vat!Set
<1>2. ASSUME NEW i \in DOMAIN rates
      PROVE  /\ Dated(rs[i]) /\ rs[i].code = rates[i].code
             /\ rs[i].start = rates[i].start /\ rs[i].end <= rates[i].end
  <2>1. PICK l, c : rs[i] = [rates[i] EXCEPT !.link = l, !.slug = c]
      BY DEF Vat!Set
  <2>2. Dated(rates[i])
      BY DEF RatesOK
  <2> QED
      BY <2>1, <2>2 DEF Dated
<1> QED
    BY <1>1, <1>2, BroughtForward

-----------------------------------------------------------------------------

\* There is no rate at the start.
LEMMA InitVat == Vat!Init => VatInv
<1> SUFFICES ASSUME Vat!Init PROVE now \in Nat /\ RatesOK(rates)
    BY DEF VatInv
<1>1. rates \in Seq({}) /\ DOMAIN rates = {}
    BY DEF Vat!Init
<1> QED
    BY <1>1 DEF Vat!Init, RatesOK

\* Every step keeps the rates of a code in turn.
LEMMA StepVat ==
    ASSUME VatInv, [Vat!Next]_vatVars
    PROVE  VatInv'
<1>0. sloppy' = sloppy
    BY Zenon DEF Vat!Next, vatVars
<1> SUFFICES ASSUME ~sloppy, now \in Nat, RatesOK(rates)
             PROVE  now' \in Nat /\ RatesOK(rates')
    BY <1>0 DEF VatInv
<1> USE WooShopAssumption
<1>1. ASSUME NEW t \in VatTasks, Vat!CreateRate(t)
      PROVE  now' \in Nat /\ RatesOK(rates')
  <2>1. PICK c \in Codes, v \in Amounts, l \in Labels, s \in 1 .. MaxTime, e \in 2 .. Vat!Forever :
          LET row == [code |-> c, value |-> v, label |-> l, start |-> s, end |-> e,
                      link |-> Vat!None, slug |-> Vat!NoSlug]
              rs == Append(rates, row)
          IN  /\ Vat!InOrder(rs, Len(rates) + 1)
              /\ rates' = Vat!Closed(rs, Len(rates) + 1) /\ now' = now
      BY <1>1 DEF Vat!CreateRate, Vat!Commit
  <2> DEFINE row == [code |-> c, value |-> v, label |-> l, start |-> s, end |-> e,
                     link |-> Vat!None, slug |-> Vat!NoSlug]
  <2>2. Dated(row)
      BY DEF Dated, Vat!Forever
  <2>3. Vat!InOrder(Append(rates, row), Len(rates) + 1)
      BY <2>1
  <2>4. rates' = Vat!Closed(Append(rates, row), Len(rates) + 1) /\ now' = now
      BY <2>1
  <2> HIDE DEF row
  <2> QED
      BY <2>2, <2>3, <2>4, AppendedOK
<1>2. ASSUME NEW t \in VatTasks, NEW i \in DOMAIN rates, Vat!UpdateRate(t, i)
      PROVE  now' \in Nat /\ RatesOK(rates')
  <2>1. PICK c \in Codes, v \in Amounts, l \in Labels, s \in 1 .. MaxTime, e \in 2 .. Vat!Forever :
          LET rs == [rates EXCEPT ![i].code = c, ![i].value = v, ![i].label = l,
                                  ![i].start = s, ![i].end = e]
          IN  /\ \/ sloppy
                 \/ <<c, s, e>> = <<rates[i].code, rates[i].start, rates[i].end>> /\ Vat!OfItsCode(rs, i)
              /\ Vat!Unique(rs)
              /\ Vat!Commit(t, Vat!Closed(rs, i))
      BY <1>2, Zenon DEF Vat!UpdateRate
  <2> DEFINE rs == [rates EXCEPT ![i].code = c, ![i].value = v, ![i].label = l,
                                 ![i].start = s, ![i].end = e]
  <2>2. c = rates[i].code /\ s = rates[i].start /\ e = rates[i].end
      BY <2>1
  <2>3. DOMAIN rs = DOMAIN rates /\ rs = [j \in DOMAIN rs |-> rs[j]]
      OBVIOUS
  <2>4. ASSUME NEW j \in DOMAIN rates
        PROVE  /\ Dated(rs[j]) /\ rs[j].code = rates[j].code
               /\ rs[j].start = rates[j].start /\ rs[j].end <= rates[j].end
    <3>1. Dated(rates[j])
        BY DEF RatesOK
    <3>2. CASE j # i
        BY <3>1, <3>2 DEF Dated
    <3>3. CASE j = i
        BY <2>2, <3>1, <3>3 DEF Dated
    <3> QED
        BY <3>2, <3>3
  <2>5. rates' = Vat!Closed(rs, i) /\ now' = now
      BY <2>1 DEF Vat!Commit
  <2> HIDE DEF rs
  <2>6. RatesOK(rs)
      BY <2>3, <2>4, BroughtForward
  <2> QED
      BY <2>3, <2>5, <2>6, ClosedOK
<1>3. ASSUME NEW t \in VatTasks, NEW i \in DOMAIN rates, Vat!CloseRate(t, i)
      PROVE  now' \in Nat /\ RatesOK(rates')
  <2>1. rates' = [rates EXCEPT ![i].end = now] /\ now' = now /\ now < rates[i].end
      BY <1>3 DEF Vat!CloseRate, Vat!Commit, Vat!InForce
  <2>2. ASSUME NEW j \in DOMAIN rates
        PROVE  /\ Dated(rates'[j]) /\ rates'[j].code = rates[j].code
               /\ rates'[j].start = rates[j].start /\ rates'[j].end <= rates[j].end
    <3>1. Dated(rates[j])
        BY DEF RatesOK
    <3>2. CASE j # i
        BY <2>1, <3>1, <3>2 DEF Dated
    <3>3. CASE j = i
        BY <2>1, <3>1, <3>3 DEF Dated
    <3> QED
        BY <3>2, <3>3
  <2>3. DOMAIN rates' = DOMAIN rates /\ rates' = [j \in DOMAIN rates' |-> rates'[j]]
      BY <2>1
  <2> QED
      BY <2>1, <2>2, <2>3, BroughtForward
<1>4. ASSUME NEW t \in VatTasks,
             Vat!ExportOne(t) \/ Vat!Reconcile(t) \/ Vat!Post(t) \/ Vat!PostRefused(t) \/ Vat!Leave(t)
      PROVE  now' \in Nat /\ RatesOK(rates')
    BY <1>4 DEF Vat!ExportOne, Vat!Reconcile, Vat!Post, Vat!PostRefused, Vat!Leave
<1>5. ASSUME NEW t \in VatTasks, Vat!ImportSlugs(t)
      PROVE  now' \in Nat /\ RatesOK(rates')
  <2>1. PICK links, slugs : rates' = Vat!Set(links, slugs) \/ rates' = rates
      BY <1>5 DEF Vat!ImportSlugs
  <2> QED
      BY <1>5, <2>1, SetOK DEF Vat!ImportSlugs
<1>6. ASSUME NEW t \in VatTasks, Vat!Apply(t) \/ Vat!Keep(t)
      PROVE  now' \in Nat /\ RatesOK(rates')
  <2>1. PICK links, slugs : rates' = Vat!Set(links, slugs) \/ rates' = rates
      BY <1>6 DEF Vat!Apply, Vat!Keep, Vat!Ends
  <2> QED
      BY <1>6, <2>1, SetOK DEF Vat!Apply, Vat!Keep
<1>7. CASE Vat!Nightly
    BY <1>7 DEF Vat!Nightly
<1>8. CASE Vat!Tick
    BY <1>8 DEF Vat!Tick
<1>9. CASE UNCHANGED vatVars
    BY <1>9 DEF vatVars
<1> QED
    BY <1>1, <1>2, <1>3, <1>4, <1>5, <1>6, <1>7, <1>8, <1>9 DEF Vat!Next, Vat!Step

-----------------------------------------------------------------------------

\* As long as the dates of a code are typed in order, no instant has two rates
\* of the same code, whatever is closed, changed, refused or lost
\* (close_superseded_vat_rates).
THEOREM RatesSafe == ShopSpec => []OneRateInForce
<1>1. VatInv => OneRateInForce
  <2> SUFFICES ASSUME VatInv, ~sloppy, NEW d \in 1 .. MaxTime, NEW i \in DOMAIN rates,
                      NEW j \in DOMAIN rates, Vat!InForce(rates[i], d), Vat!InForce(rates[j], d),
                      rates[i].code = rates[j].code, i # j
               PROVE  FALSE
      BY DEF OneRateInForce, Vat!OneRateInForce
  <2>1. InTurn(rates[i], rates[j]) /\ Dated(rates[i]) /\ Dated(rates[j])
      BY DEF VatInv, RatesOK
  <2> QED
      BY <2>1 DEF InTurn, Dated, Vat!InForce
<1>2. ShopInit => VatInv
    BY InitVat DEF ShopInit
<1>3. VatInv /\ [ShopNext]_<<vars, vatVars>> => VatInv'
    BY StepVat DEF ShopNext
<1> QED
    BY <1>1, <1>2, <1>3, PTL DEF ShopSpec

-----------------------------------------------------------------------------
(* The orders.                                                             *)

Elems(s) == {s[i] : i \in DOMAIN s}

\* An order of the ERP linked to one of the n orders of the shop, or to none.
OrderRow(row, n) ==
    /\ row = [status |-> row.status, remote |-> row.remote, lines |-> row.lines,
              fee |-> row.fee, billed |-> row.billed]
    /\ row.remote \in 0 .. n
    /\ row.status \in {"none", "draft", "billed", "cancelled"}
    /\ row.status = "none" => row.remote = 0

StoreRow(s) ==
    /\ s = [via |-> s.via, status |-> s.status, lines |-> s.lines,
            shipping |-> s.shipping, fees |-> s.fees, of |-> s.of]
    /\ s.via = "rest-api" => s.of \in Orders

StoreOK(st) ==
    /\ st \in Seq(Elems(st))
    /\ \A r \in DOMAIN st : StoreRow(st[r])

JobRow(j) ==
    /\ j = [step |-> j.step, todo |-> j.todo, rows |-> j.rows, alerts |-> j.alerts]
    /\ j.step \in {"idle", "direct", "store", "push"}
    /\ DOMAIN j.rows \subseteq Orders

\* What the session of the task holds goes on from what is committed: an order
\* that has a link keeps it, and no two orders have the same.
SessionOK ==
    /\ \A o \in Orders : OrderRow(orders[o], Len(store)) /\ OrderRow(Held(o), Len(store))
    /\ \A o \in Orders : orders[o].remote # 0 => Held(o).remote = orders[o].remote
    /\ \A o \in DOMAIN job.rows : orders[o].status # "none" /\ job.rows[o].status # "none"
    /\ \A o, p \in Orders :
         (Held(o).remote # 0 /\ Held(o).remote = Held(p).remote) => o = p

\* The import has each order of the shop to do once, and none that is known.
DirectOK ==
    job.step = "direct" =>
      /\ job.rows = <<>>
      /\ \A x, y \in job.todo : x.id = y.id => x = y
      /\ \A x \in job.todo : \A o \in Orders : orders[o].remote # x.id
      /\ calm => job.todo = {}

TodoOK ==
    /\ job.step \in {"direct", "store"} => \A x \in job.todo : x.id \in DOMAIN store
    /\ job.step = "push" => \A o \in job.todo : o \in Orders /\ Exists(o)

\* A calm push leaves no order in the shop without its link.
CopiesAreLinked ==
    calm => \A r \in DOMAIN store :
      store[r].via = "rest-api" => Held(store[r].of).remote = r

\* The ERP has taken over the cancellation of the order r of the shop.
Seen(r) ==
    \E o \in Orders :
      Held(o).remote = r /\ (Held(o).status = "cancelled" \/ o \in alerts \union job.alerts)

\* Until then the shop shows it; the task sees every one before it pushes.
WantedOK ==
    calm => \A r \in wanted :
      /\ r \in DOMAIN store /\ store[r].via = "store-api"
      /\ \E o \in Orders : orders[o].remote = r
      /\ Seen(r) \/ store[r].status = "cancelled"
      /\ job.step = "store" => Seen(r) \/ [id |-> r, status |-> "cancelled"] \in job.todo
      /\ job.step = "push" => Seen(r)

OrdersInv ==
    /\ DOMAIN orders = Orders
    /\ calm \in BOOLEAN
    /\ StoreOK(store)
    /\ JobRow(job)
    /\ SessionOK
    /\ DirectOK
    /\ TodoOK
    /\ CopiesAreLinked
    /\ WantedOK

\* A nonempty set of numbers up to n has a greatest element.
LEMMA GreatestNat ==
    ASSUME NEW n \in Nat, NEW T \in SUBSET (0 .. n), T # {}
    PROVE  \E m \in T : \A k \in T : k <= m
<1> DEFINE U == {n - k : k \in T}
<1>1. U \in SUBSET Nat /\ U # {}
  <2>1. \A k \in T : n - k \in Nat
      OBVIOUS
  <2> QED
      BY <2>1
<1>2. PICK u \in U : \A k \in U : u <= k
  <2> HIDE DEF U
  <2> QED
      BY <1>1, LeastNat
<1>3. PICK m \in T : u = n - m
    OBVIOUS
<1>4. ASSUME NEW k \in T
      PROVE  k <= m
  <2>1. n - k \in U
      OBVIOUS
  <2>2. n - m <= n - k
      BY <1>2, <1>3, <2>1
  <2>3. m \in 0 .. n /\ k \in 0 .. n
      OBVIOUS
  <2> QED
      BY <2>2, <2>3
<1> QED
    BY <1>4

\* MaxLocal is at least the link of every order.
LEMMA MaxLocalBounds ==
    ASSUME NEW n \in Nat, \A o \in Orders : orders[o].remote \in 0 .. n
    PROVE  /\ MaxLocal \in 0 .. n
           /\ \A o \in Orders : orders[o].remote <= MaxLocal
<1> DEFINE T == {orders[o].remote : o \in Orders} \union {0}
<1>1. T \in SUBSET (0 .. n) /\ T # {}
    OBVIOUS
<1>2. \E m \in T : \A k \in T : k <= m
  <2> HIDE DEF T
  <2> QED
      BY <1>1, GreatestNat
<1>3. MaxLocal = CHOOSE m \in T : \A k \in T : m >= k
    BY DEF MaxLocal, Max
<1>4. \A m, k \in T : k <= m <=> m >= k
    BY <1>1
<1>5. MaxLocal \in T /\ \A k \in T : MaxLocal >= k
  <2> HIDE DEF T
  <2> QED
      BY <1>2, <1>3, <1>4
<1>6. \A o \in Orders : orders[o].remote \in T
    OBVIOUS
<1> HIDE DEF T
<1> QED
    BY <1>1, <1>4, <1>5, <1>6

\* The newest order the task has to do is one of them.
LEMMA LatestIsOne ==
    ASSUME NEW n \in Nat, job.todo # {}, \A x \in job.todo : x.id \in 1 .. n
    PROVE  Latest \in job.todo
<1> DEFINE T == {x.id : x \in job.todo}
<1>1. T \in SUBSET (0 .. n) /\ T # {}
    OBVIOUS
<1>2. PICK m \in T : \A k \in T : k <= m
  <2> HIDE DEF T
  <2> QED
      BY <1>1, GreatestNat
<1>3. PICK x \in job.todo : x.id = m
    OBVIOUS
<1>4. \A y \in job.todo : y.id <= x.id
    BY <1>2, <1>3
<1> QED
    BY <1>4 DEF Latest

\* A sequence is one of its elements.
LEMMA SeqOfElems ==
    ASSUME NEW S, NEW u \in Seq(S)
    PROVE  u \in Seq(Elems(u)) /\ DOMAIN u = 1 .. Len(u) /\ Len(u) \in Nat
<1>1. DOMAIN u = 1 .. Len(u) /\ Len(u) \in Nat
    OBVIOUS
<1>2. u \in [1 .. Len(u) -> Elems(u)]
    BY <1>1 DEF Elems
<1> QED
    BY <1>1, <1>2

\* The orders d of the shop after the others.
LEMMA StoreGrows ==
    ASSUME NEW st, StoreOK(st), NEW d \in Nat, NEW t, t = [k \in 1 .. d |-> t[k]],
           \A k \in 1 .. d : StoreRow(t[k])
    PROVE  /\ StoreOK(st \o t)
           /\ Len(st \o t) = Len(st) + d /\ Len(st) \in Nat
           /\ \A r \in 1 .. Len(st) : (st \o t)[r] = st[r]
           /\ \A r \in Len(st) + 1 .. Len(st) + d : (st \o t)[r] = t[r - Len(st)]
<1> DEFINE S == Elems(st) \union Elems(t)
<1>1. st \in Seq(S) /\ Len(st) \in Nat /\ DOMAIN st = 1 .. Len(st)
    BY DEF StoreOK, Elems
<1>2. t \in [1 .. d -> S]
    BY DEF Elems
<1>3. t \in Seq(S) /\ Len(t) = d
    BY <1>2
<1> DEFINE u == st \o t
<1>4. /\ u \in Seq(S) /\ Len(u) = Len(st) + d
      /\ \A r \in 1 .. Len(st) + d : u[r] = IF r <= Len(st) THEN st[r] ELSE t[r - Len(st)]
  <2> HIDE DEF S
  <2> QED
      BY <1>1, <1>3, ConcatProperties
<1>5. /\ \A r \in 1 .. Len(st) : u[r] = st[r]
      /\ \A r \in Len(st) + 1 .. Len(st) + d : u[r] = t[r - Len(st)]
    BY <1>1, <1>4
<1> HIDE DEF u, S
<1>6. DOMAIN u = 1 .. Len(st) + d
    BY <1>1, <1>4
<1>7. u \in Seq(Elems(u))
    BY <1>4, SeqOfElems
<1>8. ASSUME NEW r \in DOMAIN u
      PROVE  StoreRow(u[r])
  <2>1. CASE r <= Len(st)
      BY <2>1, <1>1, <1>5, <1>6 DEF StoreOK
  <2>2. CASE r > Len(st)
    <3>1. r \in Len(st) + 1 .. Len(st) + d
        BY <2>2, <1>1, <1>6
    <3>2. u[r] = t[r - Len(st)]
        BY <3>1, <1>5
    <3>3. r - Len(st) \in 1 .. d
        BY <3>1, <1>1
    <3> QED
        BY <3>2, <3>3
  <2> QED
      BY <2>1, <2>2, <1>1, <1>6
<1>9. StoreOK(u)
    BY <1>7, <1>8 DEF StoreOK
<1> QED
    BY <1>1, <1>4, <1>5, <1>9 DEF u

\* One order of the shop changes.
LEMMA StoreChanges ==
    ASSUME NEW st, StoreOK(st), NEW r \in DOMAIN st,
           NEW u, u = [q \in DOMAIN st |-> u[q]], StoreRow(u[r]),
           \A q \in DOMAIN st \ {r} : u[q] = st[q]
    PROVE  StoreOK(u) /\ Len(u) = Len(st) /\ DOMAIN u = DOMAIN st
<1> DEFINE S == Elems(st) \union {u[r]}
<1>1. st \in Seq(S) /\ DOMAIN st = 1 .. Len(st) /\ Len(st) \in Nat
    BY DEF StoreOK, Elems
<1>2. \A q \in DOMAIN st : u[q] \in S
    BY DEF Elems
<1>3. u \in Seq(S) /\ Len(u) = Len(st) /\ DOMAIN u = DOMAIN st
  <2> HIDE DEF S
  <2>1. u \in [1 .. Len(st) -> S]
      BY <1>1, <1>2
  <2> QED
      BY <1>1, <2>1
<1> HIDE DEF S
<1>4. \A q \in DOMAIN u : StoreRow(u[q])
    BY <1>3 DEF StoreOK
<1>5. u \in Seq(Elems(u))
    BY <1>3, SeqOfElems
<1> QED
    BY <1>3, <1>4, <1>5 DEF StoreOK

\* What the shop makes of an order it obeys keeps where the order comes from.
LEMMA ObeyedKeeps ==
    ASSUME NEW row, NEW ls, NEW s, StoreRow(s), NEW fresh, NEW fees
    PROVE  LET u == Obeyed(row, ls, s, fresh, fees) IN
           StoreRow(u) /\ u.via = s.via /\ u.of = s.of
<1> DEFINE u == Obeyed(row, ls, s, fresh, fees)
<1>1. PICK a, b, c, d :
        u = [s EXCEPT !.status = a, !.lines = b, !.shipping = c, !.fees = d]
    BY Zenon DEF Obeyed
<1> HIDE DEF u
<1>2. s = [via |-> s.via, status |-> s.status, lines |-> s.lines,
           shipping |-> s.shipping, fees |-> s.fees, of |-> s.of]
    BY DEF StoreRow
<1>3. u = [via |-> s.via, status |-> a, lines |-> b, shipping |-> c, fees |-> d, of |-> s.of]
    BY <1>1, <1>2
<1> QED
    BY <1>3 DEF StoreRow, u

\* A push of the order o, obeyed n times and heard or not: the orders of the
\* shop stay, but for the one that o is linked to; the new ones are those of o,
\* and o is linked to the last of them if the answer is heard.
LEMMA PushFacts ==
    ASSUME StoreOK(store), NEW o \in Orders, NEW row, OrderRow(row, Len(store)),
           row.status # "none", NEW n \in 0 .. 2, NEW heard \in BOOLEAN, heard => n > 0
    PROVE  LET p == Push(o, row, n, heard) IN
           /\ StoreOK(p.store) /\ Len(p.store) \in Nat /\ Len(store) <= Len(p.store)
           /\ OrderRow(p.row, Len(p.store)) /\ p.row.status = row.status
           /\ row.remote # 0 => p.row.remote = row.remote /\ Len(p.store) = Len(store)
           /\ row.remote = 0 => p.row.remote = 0 \/ p.row.remote > Len(store)
           /\ \A r \in 1 .. Len(store) :
                /\ p.store[r].via = store[r].via /\ p.store[r].of = store[r].of
                /\ r # row.remote => p.store[r] = store[r]
           /\ \A r \in Len(store) + 1 .. Len(p.store) :
                p.store[r].via = "rest-api" /\ p.store[r].of = o
           /\ (n = 1 /\ heard /\ row.remote = 0) =>
                p.row.remote = Len(store) + 1 /\ Len(p.store) = Len(store) + 1
<1> DEFINE ls == PreSync(row)
           create == row.remote = 0
           known == create \/ Ids(ls) \union Removed(ls) \subseteq store[row.remote].lines
           done == IF ~known THEN 0 ELSE IF Removed(ls) # {} /\ n > 1 THEN 1 ELSE n
           new == Cardinality(Unlinked(ls, Len(ls)))
           fresh(k) == nextLine + (k - 1) * new .. nextLine + k * new - 1
           sent == [k \in 1 .. done |-> Obeyed(row, ls, RestOrder(o), fresh(k), NewFees(row))]
           redone == Obeyed(row, ls, store[row.remote], UNION {fresh(k) : k \in 1 .. done},
                            done * NewFees(row))
           after == IF done = 0 THEN store
                    ELSE IF create THEN store \o sent
                    ELSE [store EXCEPT ![row.remote] = redone]
           r0 == IF create THEN Len(after) ELSE row.remote
           success == heard /\ done = n
           p == Push(o, row, n, heard)
<1>1. /\ p.store = after
      /\ p.row = IF success THEN AfterPush(row, ls, r0, after[r0].lines) ELSE row
    BY DEF Push
<1>2. done \in 0 .. 2 /\ (create => (done = 0 <=> n = 0)) /\ (create /\ n = 1 => done = 1)
    OBVIOUS
<1>3. DOMAIN store = 1 .. Len(store) /\ Len(store) \in Nat
    BY DEF StoreOK
<1>4. sent = [k \in 1 .. done |-> sent[k]]
    OBVIOUS
<1>5. \A k \in 1 .. done : StoreRow(sent[k]) /\ sent[k].via = "rest-api" /\ sent[k].of = o
  <2>1. StoreRow(RestOrder(o)) /\ RestOrder(o).via = "rest-api" /\ RestOrder(o).of = o
      BY DEF RestOrder, StoreRow
  <2>2. TAKE k \in 1 .. done
  <2>3. sent[k] = Obeyed(row, ls, RestOrder(o), fresh(k), NewFees(row))
      OBVIOUS
  <2> QED
      BY <2>1, <2>3, ObeyedKeeps
<1>6. row.remote # 0 => /\ row.remote \in DOMAIN store /\ StoreRow(redone)
                        /\ redone.via = store[row.remote].via
                        /\ redone.of = store[row.remote].of
  <2>1. HAVE row.remote # 0
  <2>2. row.remote \in DOMAIN store
      BY <2>1, <1>3 DEF OrderRow
  <2>3. StoreRow(store[row.remote])
      BY <2>2 DEF StoreOK
  <2> QED
      BY <2>2, <2>3, ObeyedKeeps
<1> HIDE DEF p, sent, redone, done, known, ls
<1>7. /\ StoreOK(after) /\ Len(after) \in Nat
      /\ Len(after) = IF create THEN Len(store) + done ELSE Len(store)
      /\ \A r \in 1 .. Len(store) :
           /\ after[r].via = store[r].via /\ after[r].of = store[r].of
           /\ r # row.remote => after[r] = store[r]
      /\ \A r \in Len(store) + 1 .. Len(after) : after[r].via = "rest-api" /\ after[r].of = o
  <2>1. CASE done = 0
      BY <2>1, <1>3
  <2>2. CASE done # 0 /\ create
    <3>1. after = store \o sent
        BY <2>2
    <3>2. done \in Nat
        BY <1>2
    <3>3. /\ StoreOK(after)
          /\ Len(after) = Len(store) + done
          /\ \A r \in 1 .. Len(store) : after[r] = store[r]
          /\ \A r \in Len(store) + 1 .. Len(store) + done : after[r] = sent[r - Len(store)]
      <4> HIDE DEF after
      <4> QED
          BY <3>1, <3>2, <1>4, <1>5, StoreGrows
    <3> HIDE DEF after
    <3>4. \A r \in Len(store) + 1 .. Len(after) : r - Len(store) \in 1 .. done
        BY <1>3, <3>2, <3>3
    <3> QED
        BY <3>2, <3>3, <3>4, <1>3, <1>5, <2>2
  <2>3. CASE done # 0 /\ ~create
    <3>1. after = [store EXCEPT ![row.remote] = redone]
        BY <2>3
    <3>2. /\ StoreOK(after) /\ Len(after) = Len(store)
          /\ after[row.remote] = redone
          /\ \A r \in DOMAIN store \ {row.remote} : after[r] = store[r]
      <4> HIDE DEF after
      <4>1. row.remote \in DOMAIN store /\ StoreRow(redone)
          BY <1>6, <2>3
      <4>2. /\ after = [r \in DOMAIN store |-> after[r]]
            /\ after[row.remote] = redone
            /\ \A r \in DOMAIN store \ {row.remote} : after[r] = store[r]
          BY <3>1, <4>1
      <4>3. StoreOK(after) /\ Len(after) = Len(store)
          BY <4>1, <4>2, StoreChanges
      <4> QED
          BY <4>2, <4>3
    <3> HIDE DEF after
    <3> QED
        BY <3>2, <1>3, <1>6, <2>3
  <2> QED
      BY <2>1, <2>2, <2>3
<1> HIDE DEF after
<1>8. CASE success
  <2>1. p.row = AfterPush(row, ls, r0, after[r0].lines)
      BY <1>1, <1>8
  <2>2. p.row.remote = r0 /\ p.row.status = row.status
      BY <2>1 DEF AfterPush, OrderRow
  <2>3. /\ r0 \in 0 .. Len(after) /\ Len(store) <= Len(after)
        /\ row.remote # 0 => r0 = row.remote /\ Len(after) = Len(store)
        /\ row.remote = 0 => r0 > Len(store)
        /\ (n = 1 /\ row.remote = 0) => r0 = Len(store) + 1 /\ Len(after) = Len(store) + 1
      BY <1>2, <1>3, <1>7, <1>8 DEF OrderRow
  <2>4. OrderRow(p.row, Len(after))
      BY <2>1, <2>2, <2>3 DEF AfterPush, OrderRow
  <2> HIDE DEF r0, success, create
  <2> QED
      BY <2>2, <2>3, <2>4, <1>1, <1>7 DEF p
<1>9. CASE ~success
  <2>1. p.row = row
      BY <1>1, <1>9
  <2>2. ~ (n = 1 /\ heard /\ create)
      BY <1>2, <1>9
  <2>3. Len(store) <= Len(after) /\ OrderRow(row, Len(after))
      BY <1>2, <1>3, <1>7 DEF OrderRow
  <2> QED
      BY <2>1, <2>2, <2>3, <1>1, <1>2, <1>3, <1>7 DEF p
<1> QED
    BY <1>8, <1>9

\* Between two tasks the session holds nothing.
LEMMA NothingHeld ==
    ASSUME NEW j, j = NoJob
    PROVE  /\ j.step = "idle" /\ j.todo = {} /\ j.rows = <<>> /\ j.alerts = {}
           /\ DOMAIN j.rows = {} /\ JobRow(j)
<1>1. j = [step |-> "idle", todo |-> {}, rows |-> <<>>, alerts |-> {}]
    BY DEF NoJob
<1>2. DOMAIN <<>> = {}
    OBVIOUS
<1> QED
    BY <1>1, <1>2 DEF JobRow

\* It holds from the start.
LEMMA OrdersInitInv == OrdersInit => OrdersInv
<1> SUFFICES ASSUME OrdersInit
             PROVE  OrdersInv
    OBVIOUS
<1> USE DEF OrdersInit
<1>1. DOMAIN orders = Orders /\ calm \in BOOLEAN
    OBVIOUS
<1>2. StoreOK(store) /\ Len(store) = 0 /\ DOMAIN store = {}
  <2>1. store = <<>> /\ DOMAIN store = {} /\ Len(store) = 0
      OBVIOUS
  <2>2. store \in Seq(Elems(store))
      BY <2>1
  <2> QED
      BY <2>1, <2>2 DEF StoreOK
<1>3. /\ job.step = "idle" /\ job.rows = <<>> /\ DOMAIN job.rows = {} /\ JobRow(job)
    BY NothingHeld
<1>4. \A o \in Orders : OrderRow(orders[o], 0) /\ orders[o].remote = 0 /\ Held(o) = orders[o]
    BY <1>3 DEF OrderRow, NoOrder, Held
<1>5. SessionOK
    BY <1>2, <1>3, <1>4 DEF SessionOK
<1>6. DirectOK /\ TodoOK /\ CopiesAreLinked /\ WantedOK
    BY <1>2, <1>3 DEF DirectOK, TodoOK, CopiesAreLinked, WantedOK
<1> QED
    BY <1>1, <1>2, <1>3, <1>5, <1>6 DEF OrdersInv

\* A write of the row of the order o between two tasks, which keeps its link
\* and its cancellation.
LEMMA EditKeeps ==
    ASSUME OrdersInv, UNCHANGED calm, NEW o \in Orders, NEW row, Edit(o, row),
           OrderRow(row, Len(store)), row.status # "none", row.remote = orders[o].remote,
           orders[o].status = "cancelled" => row.status = "cancelled",
           alerts \subseteq alerts'
    PROVE  OrdersInv'
<1>1. /\ job = NoJob /\ job' = job /\ store' = store /\ wanted' = wanted
      /\ orders' = [orders EXCEPT ![o] = row]
    BY DEF Edit
<1>2. /\ job.step = "idle" /\ job.rows = <<>> /\ DOMAIN job.rows = {}
    BY <1>1, NothingHeld
<1>3. DOMAIN orders' = Orders /\ orders'[o] = row /\ \A p \in Orders \ {o} : orders'[p] = orders[p]
    BY <1>1 DEF OrdersInv
<1>4. \A p \in Orders : Held(p) = orders[p] /\ Held(p)' = orders'[p]
    BY <1>1, <1>2 DEF Held
<1>5. \A p \in Orders : orders'[p].remote = orders[p].remote
    BY <1>3
<1>6. SessionOK'
  <2>1. \A p \in Orders : OrderRow(orders'[p], Len(store))
      BY <1>3 DEF OrdersInv, SessionOK
  <2> QED
      BY <2>1, <1>1, <1>2, <1>4, <1>5 DEF OrdersInv, SessionOK
<1>7. DirectOK' /\ TodoOK'
    BY <1>1, <1>2 DEF DirectOK, TodoOK
<1>8. CopiesAreLinked'
  <2>1. \A r \in DOMAIN store : store[r].via = "rest-api" => store[r].of \in Orders
      BY DEF OrdersInv, StoreOK, StoreRow
  <2> QED
      BY <2>1, <1>1, <1>4, <1>5 DEF OrdersInv, CopiesAreLinked
<1>9. WantedOK'
  <2>1. \A r : Seen(r) => Seen(r)'
      BY <1>1, <1>3, <1>4, <1>5 DEF Seen
  <2> QED
      BY <2>1, <1>1, <1>2, <1>5 DEF OrdersInv, WantedOK
<1> QED
    BY <1>1, <1>3, <1>6, <1>7, <1>8, <1>9 DEF OrdersInv

\* The rows that the edits of the users write.
LEMMA EditRows ==
    ASSUME NEW n \in Nat, NEW row, OrderRow(row, n), row.status # "none"
    PROVE  /\ LET u == [row EXCEPT !.status = "billed", !.billed = TRUE] IN
                OrderRow(u, n) /\ u.remote = row.remote /\ u.status = "billed"
           /\ LET u == Cancelled(row) IN
                OrderRow(u, n) /\ u.remote = row.remote /\ u.status = "cancelled"
<1>1. row = [status |-> row.status, remote |-> row.remote, lines |-> row.lines,
             fee |-> row.fee, billed |-> row.billed]
    BY DEF OrderRow
<1>3. LET u == [row EXCEPT !.status = "billed", !.billed = TRUE] IN
      OrderRow(u, n) /\ u.remote = row.remote /\ u.status = "billed"
  <2>1. PICK u : u = [row EXCEPT !.status = "billed", !.billed = TRUE]
      OBVIOUS
  <2>2. u = [status |-> "billed", remote |-> row.remote, lines |-> row.lines,
             fee |-> row.fee, billed |-> TRUE]
      BY <1>1, <2>1
  <2>4. OrderRow(u, n) /\ u.remote = row.remote /\ u.status = "billed"
      BY <2>2 DEF OrderRow
  <2> QED
      BY <2>1, <2>4
<1>4. LET u == Cancelled(row) IN
      OrderRow(u, n) /\ u.remote = row.remote /\ u.status = "cancelled"
  <2>1. PICK ls : Cancelled(row) = [row EXCEPT !.status = "cancelled", !.lines = ls]
      BY DEF Cancelled
  <2> DEFINE u == Cancelled(row)
  <2>2. u = [status |-> "cancelled", remote |-> row.remote, lines |-> ls,
             fee |-> row.fee, billed |-> row.billed]
      BY <1>1, <2>1
  <2> HIDE DEF u
  <2> QED
      BY <2>2 DEF OrderRow, u
<1> QED
    BY <1>3, <1>4

\* An order that is typed in.
LEMMA DraftRow ==
    ASSUME NEW n \in Nat, NEW r \in 0 .. n, NEW ls, NEW f
    PROVE  LET u == Draft(r, ls, f) IN
           OrderRow(u, n) /\ u.remote = r /\ u.status = "draft"
BY DEF OrderRow, Draft

\* An order typed in has no link.
LEMMA CreateOrderInv ==
    ASSUME OrdersInv, UNCHANGED calm, NEW o \in Orders, NEW f, CreateOrder(o, f)
    PROVE  OrdersInv'
<1>1. Len(store) \in Nat /\ 0 \in 0 .. Len(store)
    BY DEF OrdersInv, StoreOK
<1>2. PICK row : /\ row = Draft(0, <<[active |-> TRUE, id |-> 0]>>, IF f THEN "new" ELSE "none")
                 /\ Edit(o, row) /\ orders[o].status = "none" /\ alerts' = alerts
    BY DEF CreateOrder, Exists
<1>3. OrderRow(row, Len(store)) /\ row.remote = 0 /\ row.status = "draft"
    BY <1>1, <1>2, DraftRow
<1>4. orders[o].remote = 0
    BY <1>2 DEF OrdersInv, SessionOK, OrderRow
<1> QED
    BY <1>2, <1>3, <1>4, EditKeeps

\* Only the lines of a draft change.
LEMMA LinesEdited ==
    ASSUME OrdersInv, UNCHANGED calm, NEW o \in Orders, NEW ls,
           Edit(o, [orders[o] EXCEPT !.lines = ls]), orders[o].status = "draft",
           UNCHANGED alerts
    PROVE  OrdersInv'
<1>1. OrderRow(orders[o], Len(store))
    BY DEF OrdersInv, SessionOK
<1>2. PICK row : row = [orders[o] EXCEPT !.lines = ls]
    OBVIOUS
<1>3. orders[o] = [status |-> orders[o].status, remote |-> orders[o].remote,
                   lines |-> orders[o].lines, fee |-> orders[o].fee, billed |-> orders[o].billed]
    BY <1>1 DEF OrderRow
<1>4. row = [status |-> orders[o].status, remote |-> orders[o].remote,
             lines |-> ls, fee |-> orders[o].fee, billed |-> orders[o].billed]
    BY <1>2, <1>3
<1>5. OrderRow(row, Len(store)) /\ row.remote = orders[o].remote /\ row.status = "draft"
    BY <1>1, <1>4 DEF OrderRow
<1> QED
    BY <1>2, <1>5, EditKeeps

\* Adding a line touches no link.
LEMMA AddLineInv ==
    ASSUME OrdersInv, UNCHANGED calm, NEW o \in Orders, AddLine(o)
    PROVE  OrdersInv'
<1>1. PICK ls : /\ Edit(o, [orders[o] EXCEPT !.lines = ls])
                /\ orders[o].status = "draft" /\ alerts' = alerts
    BY DEF AddLine
<1> QED
    BY <1>1, LinesEdited

\* Cancelling a line touches no link.
LEMMA CancelLineInv ==
    ASSUME OrdersInv, UNCHANGED calm, NEW o \in Orders, NEW i, CancelLine(o, i)
    PROVE  OrdersInv'
<1>1. PICK ls : /\ Edit(o, [orders[o] EXCEPT !.lines = ls])
                /\ orders[o].status = "draft" /\ alerts' = alerts
    BY DEF CancelLine
<1> QED
    BY <1>1, LinesEdited

\* An invoice touches no link.
LEMMA BillInv ==
    ASSUME OrdersInv, UNCHANGED calm, NEW o \in Orders, Bill(o)
    PROVE  OrdersInv'
<1>1. Len(store) \in Nat /\ OrderRow(orders[o], Len(store))
    BY DEF OrdersInv, StoreOK, SessionOK
<1>2. PICK row : /\ row = [orders[o] EXCEPT !.status = "billed", !.billed = TRUE]
                 /\ Edit(o, row) /\ orders[o].status = "draft" /\ alerts' = alerts
    BY DEF Bill
<1>3. OrderRow(row, Len(store)) /\ row.remote = orders[o].remote /\ row.status = "billed"
    BY <1>1, <1>2, EditRows
<1> QED
    BY <1>2, <1>3, EditKeeps

\* A cancelled order keeps its link and stays cancelled.
LEMMA CancelOrderInv ==
    ASSUME OrdersInv, UNCHANGED calm, NEW o \in Orders, CancelOrder(o)
    PROVE  OrdersInv'
<1>1. Len(store) \in Nat /\ OrderRow(orders[o], Len(store))
    BY DEF OrdersInv, StoreOK, SessionOK
<1>2. PICK row : /\ row = Cancelled(orders[o])
                 /\ Edit(o, row) /\ orders[o].status # "none" /\ alerts \subseteq alerts'
    BY DEF CancelOrder
<1>3. OrderRow(row, Len(store)) /\ row.remote = orders[o].remote /\ row.status = "cancelled"
    BY <1>1, <1>2, EditRows
<1> QED
    BY <1>2, <1>3, EditKeeps

(* The customers.                                                          *)

\* An order placed in the shop is new to the ERP.
LEMMA NewStoreOrderInv ==
    ASSUME OrdersInv, UNCHANGED calm, NEW f, NewStoreOrder(f)
    PROVE  OrdersInv'
<1>1. PICK s : /\ s = [via |-> "store-api", status |-> "pending", lines |-> {nextLine},
                       shipping |-> f, fees |-> 0, of |-> Absent]
               /\ store' = Append(store, s)
    BY DEF NewStoreOrder
<1>2. /\ UNCHANGED <<orders, alerts, wanted, job>>
      /\ StoreOK(store) /\ Len(store) \in Nat /\ DOMAIN store = 1 .. Len(store)
    BY DEF NewStoreOrder, OrdersInv, StoreOK
<1>3. StoreRow(s) /\ s.via = "store-api"
    BY <1>1 DEF StoreRow
<1>4. /\ StoreOK(store') /\ Len(store') = Len(store) + 1
      /\ DOMAIN store' = 1 .. Len(store) + 1
      /\ \A r \in DOMAIN store : store'[r] = store[r]
      /\ store'[Len(store) + 1] = s
  <2> DEFINE S == Elems(store) \union {s}
  <2>1. store \in Seq(S) /\ s \in S
      BY <1>2 DEF StoreOK, Elems
  <2> HIDE DEF S
  <2>2. /\ store' \in Seq(S) /\ Len(store') = Len(store) + 1
        /\ \A r \in 1 .. Len(store) : store'[r] = store[r]
        /\ store'[Len(store) + 1] = s
      BY <1>1, <2>1, AppendProperties
  <2>3. store' \in Seq(Elems(store')) /\ DOMAIN store' = 1 .. Len(store')
      BY <2>2, SeqOfElems
  <2>4. \A r \in DOMAIN store' : StoreRow(store'[r])
      BY <1>2, <1>3, <2>2, <2>3 DEF StoreOK
  <2> QED
      BY <1>2, <2>2, <2>3, <2>4 DEF StoreOK
<1>5. \A o : Held(o)' = Held(o)
    BY <1>2 DEF Held
<1>6. SessionOK'
  <2>1. \A row : OrderRow(row, Len(store)) => OrderRow(row, Len(store'))
      BY <1>2, <1>4 DEF OrderRow
  <2> QED
      BY <2>1, <1>2, <1>5 DEF OrdersInv, SessionOK
<1>7. DirectOK' /\ TodoOK'
    BY <1>2, <1>4 DEF OrdersInv, DirectOK, TodoOK, Exists
<1>8. CopiesAreLinked'
    BY <1>2, <1>3, <1>4, <1>5 DEF OrdersInv, CopiesAreLinked
<1>9. WantedOK'
  <2>1. \A r : Seen(r)' <=> Seen(r)
      BY <1>2, <1>5 DEF Seen
  <2>2. DOMAIN store \subseteq DOMAIN store'
      BY <1>2, <1>4
  <2> QED
      BY <2>1, <2>2, <1>2, <1>4 DEF OrdersInv, WantedOK
<1> QED
    BY <1>2, <1>4, <1>6, <1>7, <1>8, <1>9 DEF OrdersInv

\* A cancellation by the customer is shown by the shop; in a calm behaviour the
\* ERP knows the order and no task is running.
LEMMA CancelByCustomerInv ==
    ASSUME OrdersInv, UNCHANGED calm, NEW q \in DOMAIN store, CancelByCustomer(q)
    PROVE  OrdersInv'
<1>1. /\ UNCHANGED <<orders, alerts, job>>
      /\ StoreOK(store) /\ Len(store) \in Nat /\ DOMAIN store = 1 .. Len(store)
      /\ store[q].via = "store-api" /\ wanted' = wanted \union {q}
      /\ store' = [store EXCEPT ![q].status = "cancelled"]
      /\ calm => job = NoJob /\ Known(q) # {}
    BY DEF CancelByCustomer, OrdersInv, StoreOK
<1>2. /\ StoreOK(store') /\ Len(store') = Len(store) /\ DOMAIN store' = DOMAIN store
      /\ \A r \in DOMAIN store \ {q} : store'[r] = store[r]
      /\ store'[q].via = "store-api" /\ store'[q].status = "cancelled"
  <2>1. store[q] = [via |-> store[q].via, status |-> store[q].status, lines |-> store[q].lines,
                    shipping |-> store[q].shipping, fees |-> store[q].fees, of |-> store[q].of]
      BY <1>1 DEF StoreOK, StoreRow
  <2>2. store'[q] = [via |-> "store-api", status |-> "cancelled", lines |-> store[q].lines,
                     shipping |-> store[q].shipping, fees |-> store[q].fees, of |-> store[q].of]
      BY <1>1, <2>1
  <2>3. /\ store' = [r \in DOMAIN store |-> store'[r]]
        /\ \A r \in DOMAIN store \ {q} : store'[r] = store[r]
      BY <1>1
  <2>4. StoreRow(store'[q]) /\ store'[q].via = "store-api" /\ store'[q].status = "cancelled"
      BY <2>2 DEF StoreRow
  <2>5. StoreOK(store') /\ Len(store') = Len(store) /\ DOMAIN store' = DOMAIN store
    <3>1. PICK st : st = store'
        OBVIOUS
    <3>2. /\ st = [r \in DOMAIN store |-> st[r]] /\ StoreRow(st[q])
          /\ \A r \in DOMAIN store \ {q} : st[r] = store[r]
        BY <3>1, <2>3, <2>4
    <3>3. StoreOK(st) /\ Len(st) = Len(store) /\ DOMAIN st = DOMAIN store
        BY <1>1, <3>2, StoreChanges
    <3> QED
        BY <3>1, <3>3
  <2> QED
      BY <2>3, <2>4, <2>5
<1>3. \A o : Held(o)' = Held(o)
    BY <1>1 DEF Held
<1>4. SessionOK' /\ DirectOK' /\ TodoOK'
    BY <1>1, <1>2, <1>3 DEF OrdersInv, SessionOK, DirectOK, TodoOK, Exists
<1>5. CopiesAreLinked'
    BY <1>1, <1>2, <1>3 DEF OrdersInv, CopiesAreLinked
<1>6. WantedOK'
  <2>1. \A r : Seen(r)' <=> Seen(r)
      BY <1>1, <1>3 DEF Seen
  <2>2. calm => \E o \in Orders : orders[o].remote = q
      BY <1>1 DEF Known
  <2>3. calm => job.step = "idle"
      BY <1>1, NothingHeld
  <2> QED
      BY <2>1, <2>2, <2>3, <1>1, <1>2 DEF OrdersInv, WantedOK
<1> QED
    BY <1>1, <1>2, <1>4, <1>5, <1>6 DEF OrdersInv

(* The pushes.                                                             *)

\* The rows h and the orders st of the shop: no two rows share an order of the
\* shop and, in a calm behaviour, none that the ERP created is without its link.
LinkedRows(h, st) ==
    /\ \A q \in Orders : OrderRow(h[q], Len(st))
    /\ \A q, s \in Orders : (h[q].remote # 0 /\ h[q].remote = h[s].remote) => q = s
    /\ calm => \A r \in DOMAIN st : st[r].via = "rest-api" => h[st[r].of].remote = r

\* A push of o has left the rows g instead of h and the orders st of the shop:
\* the other orders are as they were, and links stay.
PushedRows(h, g, o, st) ==
    /\ StoreOK(st) /\ LinkedRows(g, st)
    /\ \A row : OrderRow(row, Len(store)) => OrderRow(row, Len(st))
    /\ \A q \in Orders :
         /\ g[q].status = h[q].status
         /\ h[q].remote # 0 => g[q].remote = h[q].remote
    /\ DOMAIN store \subseteq DOMAIN st
    /\ \A r \in DOMAIN store :
         /\ st[r].via = store[r].via
         /\ r # h[o].remote => st[r] = store[r]

\* The calls: none is unheard in a calm behaviour, none is heard that the shop
\* has not obeyed.
LEMMA CallsHeard ==
    ASSUME calm \in BOOLEAN, NEW c \in Calls
    PROVE  /\ c[1] \in 0 .. 2 /\ c[2] \in BOOLEAN /\ (c[2] => c[1] > 0)
           /\ calm => c[1] = 1 /\ c[2]
<1>1. CASE calm
  <2>1. c = <<1, TRUE>>
      BY <1>1 DEF Calls
  <2> QED
      BY <2>1
<1>2. CASE ~calm
  <2>1. c \in (0 .. 2) \X {FALSE} \/ c \in (1 .. 2) \X {TRUE}
      BY <1>2 DEF Calls
  <2>2. CASE c \in (0 .. 2) \X {FALSE}
    <3>1. c[1] \in 0 .. 2 /\ c[2] = FALSE
        BY <2>2
    <3> QED
        BY <3>1, <1>2
  <2>3. CASE c \in (1 .. 2) \X {TRUE}
    <3>1. c[1] \in 1 .. 2 /\ c[2] = TRUE
        BY <2>3
    <3>2. c[1] \in 0 .. 2 /\ c[1] > 0
        BY <3>1
    <3>3. c[2] \in BOOLEAN
        BY <3>1
    <3> QED
        BY <3>2, <3>3, <1>2
  <2> QED
      BY <2>1, <2>2, <2>3
<1> QED
    BY <1>1, <1>2

\* The push of the order o when the rows are h.
LEMMA PushKeeps ==
    ASSUME StoreOK(store), calm \in BOOLEAN, NEW h, LinkedRows(h, store),
           NEW o \in Orders, h[o].status # "none", NEW c \in Calls,
           NEW p, p = Push(o, h[o], c[1], c[2]),
           NEW g, \A q \in Orders : g[q] = IF q = o THEN p.row ELSE h[q]
    PROVE  PushedRows(h, g, o, p.store)
<1> USE DEF LinkedRows
<1>1. PICK n \in 0 .. 2, heard \in BOOLEAN :
        /\ p = Push(o, h[o], n, heard) /\ (heard => n > 0)
        /\ calm => n = 1 /\ heard
    BY CallsHeard
<1>2. PICK row : row = h[o]
    OBVIOUS
<1>3. OrderRow(row, Len(store)) /\ row.status # "none" /\ p = Push(o, row, n, heard)
    BY <1>1, <1>2
<1>4. /\ StoreOK(p.store) /\ Len(p.store) \in Nat /\ Len(store) <= Len(p.store)
      /\ OrderRow(p.row, Len(p.store)) /\ p.row.status = row.status
      /\ row.remote # 0 => p.row.remote = row.remote /\ Len(p.store) = Len(store)
      /\ row.remote = 0 => p.row.remote = 0 \/ p.row.remote > Len(store)
      /\ \A r \in 1 .. Len(store) :
           /\ p.store[r].via = store[r].via /\ p.store[r].of = store[r].of
           /\ r # row.remote => p.store[r] = store[r]
      /\ \A r \in Len(store) + 1 .. Len(p.store) :
           p.store[r].via = "rest-api" /\ p.store[r].of = o
      /\ (n = 1 /\ heard /\ row.remote = 0) =>
           p.row.remote = Len(store) + 1 /\ Len(p.store) = Len(store) + 1
    BY <1>1, <1>3, PushFacts
<1>5. /\ Len(store) \in Nat /\ DOMAIN store = 1 .. Len(store)
      /\ DOMAIN p.store = 1 .. Len(p.store)
    BY <1>4 DEF StoreOK
<1>6. \A x : OrderRow(x, Len(store)) => OrderRow(x, Len(p.store))
    BY <1>4, <1>5 DEF OrderRow
<1>7. \A q \in Orders :
        /\ OrderRow(g[q], Len(p.store)) /\ g[q].status = h[q].status
        /\ h[q].remote # 0 => g[q].remote = h[q].remote
  <2> TAKE q \in Orders
  <2>1. CASE q = o
      BY <2>1, <1>2, <1>4
  <2>2. CASE q # o
      BY <2>2, <1>6
  <2> QED
      BY <2>1, <2>2
<1>8. \A q, s \in Orders : (g[q].remote # 0 /\ g[q].remote = g[s].remote) => q = s
  <2>1. \A q \in Orders : h[q].remote \in 0 .. Len(store)
      BY DEF OrderRow
  <2>2. \A q \in Orders \ {o} : g[q] = h[q]
      OBVIOUS
  <2>3. g[o].remote = h[o].remote \/ g[o].remote > Len(store)
      BY <1>2, <1>4
  <2>4. g[o].remote \in Nat
      BY <1>4, <1>7 DEF OrderRow
  <2> QED
      BY <1>5, <2>1, <2>2, <2>3, <2>4
<1>9. calm => \A r \in DOMAIN p.store :
                p.store[r].via = "rest-api" => g[p.store[r].of].remote = r
  <2> SUFFICES ASSUME calm, NEW r \in DOMAIN p.store, p.store[r].via = "rest-api"
               PROVE  g[p.store[r].of].remote = r
      OBVIOUS
  <2>1. CASE r \in 1 .. Len(store)
    <3>1. p.store[r].of = store[r].of /\ store[r].via = "rest-api"
        BY <2>1, <1>4
    <3>2. store[r].of \in Orders /\ h[store[r].of].remote = r /\ r # 0
        BY <2>1, <3>1, <1>5 DEF StoreOK, StoreRow
    <3> QED
        BY <3>1, <3>2, <1>7
  <2>2. CASE r \in Len(store) + 1 .. Len(p.store)
    <3>1. p.store[r].of = o /\ Len(p.store) # Len(store)
        BY <2>2, <1>4, <1>5
    <3>2. row.remote = 0
        BY <3>1, <1>4
    <3>3. g[o].remote = Len(store) + 1 /\ Len(p.store) = Len(store) + 1
        BY <3>2, <1>1, <1>4
    <3>4. r = Len(store) + 1
        BY <2>2, <3>3, <1>5
    <3> QED
        BY <3>1, <3>3, <3>4
  <2> QED
      BY <2>1, <2>2, <1>4, <1>5
<1>10. DOMAIN store \subseteq DOMAIN p.store
    BY <1>4, <1>5
<1> QED
    BY <1>2, <1>4, <1>5, <1>6, <1>7, <1>8, <1>9, <1>10 DEF PushedRows

\* A push from a tab links its order to a new one of the shop or leaves its
\* link; in a calm behaviour it overwrites no cancellation that is not seen.
LEMMA PushFromTabInv ==
    ASSUME OrdersInv, UNCHANGED calm, NEW o \in Orders, NEW c \in Calls, PushFromTab(o, c)
    PROVE  OrdersInv'
<1>1. PICK p : /\ p = Push(o, orders[o], c[1], c[2])
               /\ store' = p.store /\ orders' = [orders EXCEPT ![o] = p.row]
    BY DEF PushFromTab, Pushed
<1>2. /\ job = NoJob /\ orders[o].status # "none" /\ (calm => ~Unseen(o))
      /\ UNCHANGED <<alerts, wanted, job>>
    BY DEF PushFromTab, Exists
<1>3. job.step = "idle" /\ job.rows = <<>> /\ DOMAIN job.rows = {}
    BY <1>2, NothingHeld
<1>4. DOMAIN orders = Orders /\ StoreOK(store) /\ calm \in BOOLEAN
    BY DEF OrdersInv
<1>5. /\ DOMAIN orders' = Orders
      /\ \A q \in Orders : orders'[q] = IF q = o THEN p.row ELSE orders[q]
    BY <1>1, <1>4
<1>6. \A q \in Orders : Held(q) = orders[q] /\ Held(q)' = orders'[q]
    BY <1>2, <1>3 DEF Held
<1>7. LinkedRows(orders, store)
  <2>1. \A r \in DOMAIN store : store[r].via = "rest-api" => store[r].of \in Orders
      BY <1>4 DEF StoreOK, StoreRow
  <2> QED
      BY <2>1, <1>6 DEF OrdersInv, SessionOK, CopiesAreLinked, LinkedRows
<1>8. PICK g : g = orders'
    OBVIOUS
<1>9. \A q \in Orders : g[q] = IF q = o THEN p.row ELSE orders[q]
    BY <1>5, <1>8
<1>10. PushedRows(orders, g, o, p.store)
    BY <1>1, <1>2, <1>4, <1>7, <1>9, PushKeeps
<1>11. \A r \in DOMAIN p.store : p.store[r].via = "rest-api" => p.store[r].of \in Orders
    BY <1>10 DEF PushedRows, StoreOK, StoreRow
<1>12. SessionOK'
    BY <1>1, <1>2, <1>3, <1>6, <1>8, <1>10 DEF SessionOK, PushedRows, LinkedRows
<1>13. DirectOK' /\ TodoOK'
    BY <1>2, <1>3 DEF DirectOK, TodoOK
<1>14. CopiesAreLinked'
    BY <1>1, <1>6, <1>8, <1>10, <1>11 DEF CopiesAreLinked, PushedRows, LinkedRows
<1>15. WantedOK'
  <2> SUFFICES ASSUME calm, NEW r \in wanted
               PROVE  /\ r \in DOMAIN store' /\ store'[r].via = "store-api"
                      /\ \E q \in Orders : orders'[q].remote = r
                      /\ Seen(r)' \/ store'[r].status = "cancelled"
      BY <1>2, <1>3 DEF WantedOK
  <2>1. /\ r \in DOMAIN store /\ store[r].via = "store-api"
        /\ \E q \in Orders : orders[q].remote = r
        /\ Seen(r) \/ store[r].status = "cancelled"
      BY DEF OrdersInv, WantedOK
  <2>2. r # 0
      BY <2>1 DEF OrdersInv, StoreOK
  <2>3. Seen(r) => Seen(r)'
      BY <1>2, <1>6, <1>8, <1>10, <2>2 DEF Seen, PushedRows
  <2>4. CASE r = orders[o].remote
    <3>1. Seen(r)
        BY <1>2, <1>6, <2>4 DEF Unseen, Seen
    <3> QED
        BY <3>1, <2>1, <2>2, <2>3, <1>1, <1>8, <1>10 DEF PushedRows
  <2>5. CASE r # orders[o].remote
      BY <2>5, <2>1, <2>2, <2>3, <1>1, <1>8, <1>10 DEF PushedRows
  <2> QED
      BY <2>4, <2>5
<1> QED
    BY <1>1, <1>2, <1>4, <1>5, <1>10, <1>12, <1>13, <1>14, <1>15 DEF OrdersInv, PushedRows

(* The task.                                                               *)

\* The task begins with orders above every link; in a calm behaviour there are
\* none, as the ERP has the link of each order it created.
LEMMA StartInv ==
    ASSUME OrdersInv, UNCHANGED calm, Start
    PROVE  OrdersInv'
<1>1. PICK page \in Fetched({r \in DOMAIN store : store[r].via = "rest-api" /\ r > MaxLocal}) :
      \E todo \in Resolved(page) :
        job' = [NoJob EXCEPT !.step = "direct",
                             !.todo = {[id |-> r, status |-> store[r].status] : r \in todo}]
    BY DEF Start
<1>2. PICK todo \in Resolved(page) :
        job' = [NoJob EXCEPT !.step = "direct",
                             !.todo = {[id |-> r, status |-> store[r].status] : r \in todo}]
    BY <1>1
<1>3. /\ job = NoJob /\ UNCHANGED <<orders, alerts, store, wanted>>
      /\ StoreOK(store) /\ Len(store) \in Nat /\ DOMAIN store = 1 .. Len(store)
    BY DEF Start, OrdersInv, StoreOK
<1>4. DOMAIN job.rows = {} /\ job.rows = <<>> /\ job.alerts = {}
    BY <1>3, NothingHeld
<1>5. job' = [step |-> "direct", todo |-> {[id |-> r, status |-> store[r].status] : r \in todo},
              rows |-> <<>>, alerts |-> {}]
    BY <1>2 DEF NoJob
<1>6. /\ job'.step = "direct" /\ job'.rows = <<>> /\ DOMAIN job'.rows = {} /\ job'.alerts = {}
      /\ job'.todo = {[id |-> r, status |-> store[r].status] : r \in todo} /\ JobRow(job')
  <2>1. DOMAIN <<>> = {}
      OBVIOUS
  <2> QED
      BY <1>5, <2>1 DEF JobRow
<1>7. /\ todo \subseteq {r \in DOMAIN store : store[r].via = "rest-api" /\ r > MaxLocal}
      /\ calm => todo = {r \in DOMAIN store : store[r].via = "rest-api" /\ r > MaxLocal}
    BY <1>1, <1>2 DEF Fetched, Resolved
<1>8. \A o \in Orders : Held(o) = orders[o] /\ Held(o)' = orders[o]
    BY <1>3, <1>4, <1>6 DEF Held
<1>9. \A o \in Orders : orders[o].remote \in 0 .. Len(store)
    BY DEF OrdersInv, SessionOK, OrderRow
<1>10. MaxLocal \in 0 .. Len(store) /\ \A o \in Orders : orders[o].remote <= MaxLocal
    BY <1>3, <1>9, MaxLocalBounds
<1>11. SessionOK'
    BY <1>3, <1>6, <1>8 DEF OrdersInv, SessionOK
<1>12. \A x \in job'.todo : \E r \in todo : x = [id |-> r, status |-> store[r].status] /\ x.id = r
    BY <1>6
<1>13. DirectOK'
  <2>1. \A x, y \in job'.todo : x.id = y.id => x = y
      BY <1>12
  <2>2. ASSUME NEW x \in job'.todo, NEW o \in Orders
        PROVE  orders[o].remote # x.id
    <3>1. x.id > MaxLocal /\ x.id \in Nat
        BY <1>3, <1>7, <1>12
    <3> QED
        BY <3>1, <1>3, <1>9, <1>10
  <2>3. ASSUME calm
        PROVE  job'.todo = {}
    <3>1. ASSUME NEW r \in DOMAIN store, store[r].via = "rest-api"
          PROVE  ~ (r > MaxLocal)
      <4>1. store[r].of \in Orders
          BY <3>1, <1>3 DEF StoreOK, StoreRow
      <4>2. orders[store[r].of].remote = r
          BY <3>1, <4>1, <2>3, <1>8 DEF OrdersInv, CopiesAreLinked
      <4> QED
          BY <4>1, <4>2, <1>3, <1>10
    <3>2. todo = {}
        BY <3>1, <2>3, <1>7
    <3> QED
        BY <3>2, <1>6
  <2> QED
      BY <2>1, <2>2, <2>3, <1>3, <1>6 DEF DirectOK
<1>14. TodoOK'
    BY <1>3, <1>6, <1>7, <1>12 DEF TodoOK
<1>15. CopiesAreLinked'
  <2>1. \A r \in DOMAIN store : store[r].via = "rest-api" => store[r].of \in Orders
      BY <1>3 DEF StoreOK, StoreRow
  <2> QED
      BY <2>1, <1>3, <1>8 DEF OrdersInv, CopiesAreLinked
<1>16. WantedOK'
  <2>1. \A r : Seen(r)' <=> Seen(r)
      BY <1>3, <1>4, <1>6, <1>8 DEF Seen
  <2> QED
      BY <2>1, <1>3, <1>6 DEF OrdersInv, WantedOK
<1> QED
    BY <1>3, <1>6, <1>11, <1>13, <1>14, <1>15, <1>16 DEF OrdersInv

\* One order less to do.
LEMMA OneLess ==
    ASSUME JobRow(job), NEW x, job' = [job EXCEPT !.todo = @ \ {x}]
    PROVE  /\ JobRow(job') /\ job'.step = job.step /\ job'.rows = job.rows
           /\ job'.alerts = job.alerts /\ job'.todo = job.todo \ {x}
<1>1. job = [step |-> job.step, todo |-> job.todo, rows |-> job.rows, alerts |-> job.alerts]
    BY DEF JobRow
<1>2. job' = [step |-> job.step, todo |-> job.todo \ {x}, rows |-> job.rows, alerts |-> job.alerts]
    BY <1>1
<1> QED
    BY <1>2 DEF JobRow

\* The rows of orders that come from the shop.
LEMMA ImportedRow ==
    ASSUME NEW n \in Nat, NEW x, x.id \in 1 .. n
    PROVE  LET u == Imported(x) IN
           OrderRow(u, n) /\ u.remote = x.id /\ u.status = "draft"
<1>1. PICK ls, f : Imported(x) = Draft(x.id, ls, f)
    BY DEF Imported
<1> QED
    BY <1>1, DraftRow

\* An import links a new row to an order that no row has, nor will have to be
\* imported again.
LEMMA ImportDirectInv ==
    ASSUME OrdersInv, UNCHANGED calm, ImportDirect
    PROVE  OrdersInv'
<1>1. /\ job.step = "direct" /\ job.todo # {} /\ job' = [job EXCEPT !.todo = @ \ {Latest}]
      /\ UNCHANGED <<alerts, store, wanted>>
      /\ StoreOK(store) /\ Len(store) \in Nat /\ DOMAIN store = 1 .. Len(store)
    BY DEF ImportDirect, OrdersInv, StoreOK
<1>2. ~calm /\ job.rows = <<>> /\ DOMAIN job.rows = {}
    BY <1>1 DEF OrdersInv, DirectOK
<1>3. PICK x \in job.todo : x = Latest
    BY <1>1, LatestIsOne DEF OrdersInv, TodoOK
<1>4. x.id \in 1 .. Len(store) /\ \A o \in Orders : orders[o].remote # x.id
    BY <1>1 DEF OrdersInv, TodoOK, DirectOK
<1>5. /\ JobRow(job') /\ job'.step = "direct" /\ job'.rows = <<>> /\ job'.alerts = job.alerts
      /\ job'.todo = job.todo \ {x}
    BY <1>1, <1>2, <1>3, OneLess DEF OrdersInv
<1>6. \A o \in Orders : Held(o) = orders[o] /\ Held(o)' = orders'[o]
    BY <1>2, <1>5 DEF Held
<1>7. TodoOK'
    BY <1>1, <1>5 DEF OrdersInv, TodoOK
<1>8. CopiesAreLinked' /\ WantedOK'
    BY <1>2 DEF CopiesAreLinked, WantedOK
<1>9. \A y \in job'.todo : y \in job.todo /\ y.id # x.id
    BY <1>1, <1>5 DEF OrdersInv, DirectOK
<1>10. CASE UNCHANGED orders
  <2>1. SessionOK'
      BY <1>1, <1>2, <1>5, <1>6, <1>10 DEF OrdersInv, SessionOK
  <2>2. DirectOK'
      BY <1>1, <1>2, <1>5, <1>9, <1>10 DEF OrdersInv, DirectOK
  <2> QED
      BY <2>1, <2>2, <1>1, <1>5, <1>7, <1>8, <1>10 DEF OrdersInv
<1>11. CASE ~ UNCHANGED orders
  <2>1. PICK o \in Orders : ~Exists(o) /\ orders' = [Committed EXCEPT ![o] = Imported(x)]
      BY <1>3, <1>11 DEF ImportDirect
  <2>2. OrderRow(Imported(x), Len(store)) /\ Imported(x).remote = x.id
      BY <1>1, <1>4, ImportedRow
  <2>3. /\ DOMAIN orders' = Orders /\ orders'[o] = Imported(x)
        /\ \A q \in Orders \ {o} : orders'[q] = orders[q]
    <3>1. Committed = [q \in Orders |-> Held(q)]
        BY DEF Committed
    <3> QED
        BY <2>1, <3>1, <1>6
  <2>4. \A q \in Orders : OrderRow(orders'[q], Len(store))
      BY <2>2, <2>3 DEF OrdersInv, SessionOK
  <2>5. \A q, s \in Orders :
          (orders'[q].remote # 0 /\ orders'[q].remote = orders'[s].remote) => q = s
    <3>1. \A q, s \in Orders :
            (orders[q].remote # 0 /\ orders[q].remote = orders[s].remote) => q = s
        BY <1>6 DEF OrdersInv, SessionOK
    <3> QED
        BY <3>1, <2>2, <2>3, <1>4
  <2>6. SessionOK'
      BY <2>4, <2>5, <1>1, <1>2, <1>5, <1>6 DEF SessionOK
  <2>7. DirectOK'
    <3>1. \A y \in job'.todo : \A q \in Orders : orders'[q].remote # y.id
        BY <2>2, <2>3, <1>1, <1>9 DEF OrdersInv, DirectOK
    <3>2. \A y, z \in job'.todo : y.id = z.id => y = z
        BY <1>1, <1>9 DEF OrdersInv, DirectOK
    <3> QED
        BY <3>1, <3>2, <1>2, <1>5 DEF DirectOK
  <2> QED
      BY <2>3, <2>6, <2>7, <1>1, <1>5, <1>7, <1>8 DEF OrdersInv
<1> QED
    BY <1>10, <1>11

\* A step of the task that only reads changes nothing that is linked.
LEMMA RowsStay ==
    ASSUME OrdersInv, UNCHANGED <<orders, alerts, store, wanted, calm>>, JobRow(job'),
           job'.rows = job.rows, job'.alerts = job.alerts
    PROVE  /\ DOMAIN orders' = Orders /\ calm' \in BOOLEAN /\ StoreOK(store')
           /\ SessionOK' /\ CopiesAreLinked'
           /\ \A r : Seen(r)' <=> Seen(r)
<1>1. \A o \in Orders : Held(o)' = Held(o)
    BY DEF Held
<1>2. \A r \in DOMAIN store : store[r].via = "rest-api" => store[r].of \in Orders
    BY DEF OrdersInv, StoreOK, StoreRow
<1>3. \A r : Seen(r)' <=> Seen(r)
    BY <1>1 DEF Seen
<1> QED
    BY <1>1, <1>2, <1>3 DEF OrdersInv, SessionOK, CopiesAreLinked

\* What the task then reads of the shop shows every cancellation that is not
\* seen, in a calm behaviour.
LEMMA FetchStoreInv ==
    ASSUME OrdersInv, UNCHANGED calm, FetchStore
    PROVE  OrdersInv'
<1>1. PICK page \in Fetched({r \in DOMAIN store : store[r].via = "store-api"}) :
      \E todo \in Resolved(page) :
        job' = [job EXCEPT !.step = "store",
                           !.todo = {[id |-> r, status |-> store[r].status] : r \in todo}]
    BY DEF FetchStore
<1>2. PICK todo \in Resolved(page) :
        job' = [job EXCEPT !.step = "store",
                           !.todo = {[id |-> r, status |-> store[r].status] : r \in todo}]
    BY <1>1
<1>3. UNCHANGED <<orders, alerts, store, wanted>>
    BY DEF FetchStore
<1>4. job = [step |-> job.step, todo |-> job.todo, rows |-> job.rows, alerts |-> job.alerts]
    BY DEF OrdersInv, JobRow
<1>5. job' = [step |-> "store", todo |-> {[id |-> r, status |-> store[r].status] : r \in todo},
              rows |-> job.rows, alerts |-> job.alerts]
    BY <1>2, <1>4
<1>6. /\ job'.step = "store" /\ job'.rows = job.rows /\ job'.alerts = job.alerts
      /\ job'.todo = {[id |-> r, status |-> store[r].status] : r \in todo} /\ JobRow(job')
    BY <1>5 DEF OrdersInv, JobRow
<1>7. /\ todo \subseteq {r \in DOMAIN store : store[r].via = "store-api"}
      /\ calm => todo = {r \in DOMAIN store : store[r].via = "store-api"}
    BY <1>1, <1>2 DEF Fetched, Resolved
<1>8. /\ DOMAIN orders' = Orders /\ calm' \in BOOLEAN /\ StoreOK(store')
      /\ SessionOK' /\ CopiesAreLinked'
      /\ \A r : Seen(r)' <=> Seen(r)
    BY <1>3, <1>6, RowsStay
<1>9. \A x \in job'.todo : x.id \in DOMAIN store
  <2>1. \A r \in todo : r \in DOMAIN store
      BY <1>7
  <2> QED
      BY <2>1, <1>6
<1>10. DirectOK' /\ TodoOK'
    BY <1>3, <1>6, <1>9 DEF DirectOK, TodoOK
<1>11. WantedOK'
  <2> SUFFICES ASSUME calm, NEW r \in wanted
               PROVE  /\ r \in DOMAIN store /\ store[r].via = "store-api"
                      /\ \E o \in Orders : orders[o].remote = r
                      /\ Seen(r) \/ store[r].status = "cancelled"
                      /\ Seen(r) \/ [id |-> r, status |-> "cancelled"] \in job'.todo
      BY <1>3, <1>6, <1>8 DEF WantedOK
  <2>1. /\ r \in DOMAIN store /\ store[r].via = "store-api"
        /\ \E o \in Orders : orders[o].remote = r
        /\ Seen(r) \/ store[r].status = "cancelled"
      BY DEF OrdersInv, WantedOK
  <2>2. [id |-> r, status |-> store[r].status] \in job'.todo
      BY <2>1, <1>6, <1>7
  <2> QED
      BY <2>1, <2>2
<1> QED
    BY <1>6, <1>8, <1>10, <1>11 DEF OrdersInv

\* When the task begins to push it has seen every cancellation, in a calm
\* behaviour.
LEMMA StartPushInv ==
    ASSUME OrdersInv, UNCHANGED calm, StartPush
    PROVE  OrdersInv'
<1>1. /\ UNCHANGED <<orders, alerts, store, wanted>> /\ job.step = "store" /\ job.todo = {}
      /\ job' = [job EXCEPT !.step = "push", !.todo = {o \in Orders : Exists(o)}]
    BY DEF StartPush
<1>2. job = [step |-> job.step, todo |-> job.todo, rows |-> job.rows, alerts |-> job.alerts]
    BY DEF OrdersInv, JobRow
<1>3. job' = [step |-> "push", todo |-> {o \in Orders : Exists(o)},
              rows |-> job.rows, alerts |-> job.alerts]
    BY <1>1, <1>2
<1>4. /\ job'.step = "push" /\ job'.rows = job.rows /\ job'.alerts = job.alerts
      /\ job'.todo = {o \in Orders : Exists(o)} /\ JobRow(job')
    BY <1>3 DEF OrdersInv, JobRow
<1>5. /\ DOMAIN orders' = Orders /\ calm' \in BOOLEAN /\ StoreOK(store')
      /\ SessionOK' /\ CopiesAreLinked'
      /\ \A r : Seen(r)' <=> Seen(r)
    BY <1>1, <1>4, RowsStay
<1>6. DirectOK' /\ TodoOK'
    BY <1>1, <1>4 DEF DirectOK, TodoOK, Exists
<1>7. WantedOK'
    BY <1>1, <1>4, <1>5 DEF OrdersInv, WantedOK
<1> QED
    BY <1>4, <1>5, <1>6, <1>7 DEF OrdersInv

\* The session keeps one more row.
LEMMA HeldAfter ==
    ASSUME JobRow(job), NEW o \in Orders, NEW row, JobRow(job'), job'.rows = Written(o, row),
           DOMAIN orders = Orders, UNCHANGED orders
    PROVE  /\ DOMAIN job'.rows = DOMAIN job.rows \union {o}
           /\ \A q \in Orders : Held(q)' = IF q = o THEN row ELSE Held(q)
BY DEF JobRow, Held, Written

\* A push of the task links its order to a new one of the shop or leaves its
\* link.
LEMMA PushRecentInv ==
    ASSUME OrdersInv, UNCHANGED calm, NEW o \in Orders, NEW c \in Calls, PushRecent(o, c)
    PROVE  OrdersInv'
<1>1. PICK p : /\ p = Push(o, Held(o), c[1], c[2]) /\ store' = p.store
               /\ job' = [job EXCEPT !.todo = @ \ {o}, !.rows = Written(o, p.row)]
    BY DEF PushRecent, Pushed
<1>2. /\ job.step = "push" /\ o \in job.todo /\ UNCHANGED <<orders, alerts, wanted>>
      /\ DOMAIN orders = Orders /\ StoreOK(store) /\ calm \in BOOLEAN
    BY DEF PushRecent, OrdersInv
<1>3. job = [step |-> job.step, todo |-> job.todo, rows |-> job.rows, alerts |-> job.alerts]
    BY DEF OrdersInv, JobRow
<1>4. job' = [step |-> "push", todo |-> job.todo \ {o}, rows |-> Written(o, p.row),
              alerts |-> job.alerts]
    BY <1>1, <1>2, <1>3
<1>5. /\ job'.step = "push" /\ job'.rows = Written(o, p.row) /\ job'.alerts = job.alerts
      /\ job'.todo = job.todo \ {o} /\ JobRow(job')
    BY <1>4 DEF OrdersInv, JobRow, Written
<1>6. /\ DOMAIN job'.rows = DOMAIN job.rows \union {o}
      /\ \A q \in Orders : Held(q)' = IF q = o THEN p.row ELSE Held(q)
    BY <1>2, <1>5, HeldAfter DEF OrdersInv
<1> DEFINE h == [q \in Orders |-> Held(q)]
           g == [q \in Orders |-> Held(q)']
<1>7. /\ \A q \in Orders : h[q] = Held(q) /\ g[q] = Held(q)'
      /\ \A q \in Orders : g[q] = IF q = o THEN p.row ELSE h[q]
    BY <1>6
<1> HIDE DEF h, g
<1>8. LinkedRows(h, store)
  <2>1. \A r \in DOMAIN store : store[r].via = "rest-api" => store[r].of \in Orders
      BY <1>2 DEF StoreOK, StoreRow
  <2> QED
      BY <2>1, <1>7 DEF OrdersInv, SessionOK, CopiesAreLinked, LinkedRows
<1>9. orders[o].status # "none" /\ h[o].status # "none"
  <2>1. orders[o].status # "none"
      BY <1>2 DEF OrdersInv, TodoOK, Exists
  <2> QED
      BY <2>1, <1>7 DEF OrdersInv, SessionOK, Held
<1>10. PushedRows(h, g, o, p.store)
    BY <1>1, <1>2, <1>7, <1>8, <1>9, PushKeeps
<1>11. \A r \in DOMAIN p.store : p.store[r].via = "rest-api" => p.store[r].of \in Orders
    BY <1>10 DEF PushedRows, StoreOK, StoreRow
<1>12. SessionOK'
  <2>1. \A q \in Orders : OrderRow(orders[q], Len(p.store))
      BY <1>10 DEF OrdersInv, SessionOK, PushedRows
  <2>2. \A q \in Orders : orders[q].remote # 0 => Held(q)'.remote = orders[q].remote
      BY <1>7, <1>10 DEF OrdersInv, SessionOK, PushedRows
  <2>3. \A q \in DOMAIN job'.rows : orders[q].status # "none" /\ job'.rows[q].status # "none"
    <3>1. \A q \in DOMAIN job'.rows : q \in Orders /\ Held(q)' = job'.rows[q]
        BY <1>5 DEF JobRow, Held
    <3>2. \A q \in DOMAIN job'.rows : orders[q].status # "none" /\ Held(q).status # "none"
        BY <1>6, <1>7, <1>9 DEF OrdersInv, SessionOK, Held
    <3> QED
        BY <3>1, <3>2, <1>7, <1>10 DEF PushedRows
  <2> QED
      BY <2>1, <2>2, <2>3, <1>1, <1>2, <1>7, <1>10 DEF SessionOK, PushedRows, LinkedRows
<1>13. DirectOK' /\ TodoOK'
    BY <1>2, <1>5 DEF OrdersInv, DirectOK, TodoOK, Exists
<1>14. CopiesAreLinked'
    BY <1>1, <1>7, <1>10, <1>11 DEF CopiesAreLinked, PushedRows, LinkedRows
<1>15. WantedOK'
  <2> SUFFICES ASSUME calm, NEW r \in wanted
               PROVE  /\ r \in DOMAIN store' /\ store'[r].via = "store-api"
                      /\ \E q \in Orders : orders[q].remote = r
                      /\ Seen(r)'
      BY <1>2, <1>5 DEF WantedOK
  <2>1. /\ r \in DOMAIN store /\ store[r].via = "store-api"
        /\ \E q \in Orders : orders[q].remote = r
        /\ Seen(r)
      BY <1>2 DEF OrdersInv, WantedOK
  <2>2. r # 0
      BY <2>1 DEF OrdersInv, StoreOK
  <2>3. Seen(r)'
      BY <2>1, <2>2, <1>2, <1>5, <1>7, <1>10 DEF Seen, PushedRows
  <2> QED
      BY <2>1, <2>3, <1>1, <1>10 DEF PushedRows
<1> QED
    BY <1>1, <1>2, <1>5, <1>10, <1>12, <1>13, <1>14, <1>15 DEF OrdersInv, PushedRows

\* An order of the shop that no row has gets a row, which is pushed: the links
\* of the others, and what is still to do for a cancellation, stay.
LEMMA CreateFromStoreInv ==
    ASSUME OrdersInv, UNCHANGED calm, NEW c \in Calls, CreateFromStore(c)
    PROVE  OrdersInv'
<1>1. /\ job.step = "store" /\ job.todo # {} /\ UNCHANGED wanted
      /\ \A o \in Orders : Held(o).remote # Latest.id
      /\ StoreOK(store) /\ Len(store) \in Nat /\ DOMAIN store = 1 .. Len(store)
      /\ DOMAIN orders = Orders /\ calm \in BOOLEAN /\ JobRow(job)
  <2>1. /\ job.step = "store" /\ job.todo # {} /\ UNCHANGED wanted
        /\ \A o \in Orders : Held(o).remote # Latest.id
      BY Zenon DEF CreateFromStore
  <2>2. /\ StoreOK(store) /\ Len(store) \in Nat /\ DOMAIN store = 1 .. Len(store)
        /\ DOMAIN orders = Orders /\ calm \in BOOLEAN /\ JobRow(job)
      BY DEF OrdersInv, StoreOK
  <2> QED
      BY <2>1, <2>2
<1>2. PICK x \in job.todo : x = Latest
    BY <1>1, LatestIsOne DEF OrdersInv, TodoOK
<1>3. x.id \in 1 .. Len(store) /\ x.id # 0 /\ \A o \in Orders : Held(o).remote # x.id
    BY <1>1, <1>2 DEF OrdersInv, TodoOK
<1>4. calm => \A r \in wanted : r # x.id
  <2>1. \A o \in Orders : orders[o].remote # x.id
      BY <1>3 DEF OrdersInv, SessionOK
  <2> QED
      BY <2>1 DEF OrdersInv, WantedOK
<1>5. calm => \A r \in wanted : ~Seen(r) => [id |-> r, status |-> "cancelled"] \in job.todo \ {x}
  <2>1. \A r : [id |-> r, status |-> "cancelled"].id = r
      OBVIOUS
  <2> QED
      BY <2>1, <1>1, <1>4 DEF OrdersInv, WantedOK
<1>6. CASE Readable(x)
  <2>1. PICK o \in Orders \ TypedIn :
          LET row == Imported(x)
              p == Push(o, row, c[1], c[2])
          IN /\ ~Exists(o)
             /\ orders' = [Committed EXCEPT ![o] = row]
             /\ alerts' = alerts \union job.alerts
             /\ Pushed(o, p)
             /\ job' = [job EXCEPT !.todo = @ \ {Latest}, !.alerts = {},
                                   !.rows = [q \in {o} |-> p.row]]
      BY <1>2, <1>6 DEF CreateFromStore
  <2>2. PICK row : row = Imported(x)
      OBVIOUS
  <2>3. PICK p : p = Push(o, row, c[1], c[2])
      OBVIOUS
  <2>4. /\ o \in Orders /\ orders[o].status = "none"
        /\ orders' = [Committed EXCEPT ![o] = row]
        /\ alerts' = alerts \union job.alerts /\ store' = p.store
        /\ job' = [job EXCEPT !.todo = @ \ {x}, !.alerts = {}, !.rows = [q \in {o} |-> p.row]]
      BY <2>1, <2>2, <2>3, <1>2 DEF Exists, Pushed
  <2>5. job = [step |-> job.step, todo |-> job.todo, rows |-> job.rows, alerts |-> job.alerts]
      BY <1>1 DEF JobRow
  <2>6. job' = [step |-> "store", todo |-> job.todo \ {x}, rows |-> [q \in {o} |-> p.row],
                alerts |-> {}]
      BY <2>4, <2>5, <1>1
  <2>7. /\ job'.step = "store" /\ job'.todo = job.todo \ {x} /\ job'.alerts = {}
        /\ DOMAIN job'.rows = {o} /\ job'.rows[o] = p.row /\ JobRow(job')
    <3>1. PICK rows : rows = [q \in {o} |-> p.row]
        OBVIOUS
    <3>2. DOMAIN rows = {o} /\ rows[o] = p.row /\ o \in Orders
        BY <3>1
    <3>3. job' = [step |-> "store", todo |-> job.todo \ {x}, rows |-> rows, alerts |-> {}]
        BY <2>6, <3>1
    <3> QED
        BY <3>2, <3>3 DEF JobRow
  <2>8. OrderRow(row, Len(store)) /\ row.remote = x.id /\ row.status = "draft"
      BY <2>2, <1>1, <1>3, ImportedRow
  <2>9. /\ DOMAIN orders' = Orders
        /\ \A q \in Orders : orders'[q] = IF q = o THEN row ELSE Held(q)
    <3>1. Committed = [q \in Orders |-> Held(q)]
        BY DEF Committed
    <3> QED
        BY <2>4, <3>1
  <2> DEFINE h == [q \in Orders |-> orders'[q]]
             g == [q \in Orders |-> Held(q)']
  <2>10. /\ \A q \in Orders : h[q] = orders'[q] /\ g[q] = Held(q)'
         /\ \A q \in Orders : g[q] = IF q = o THEN p.row ELSE h[q]
      BY <2>7 DEF Held
  <2>11. Held(o).remote = 0
    <3>1. o \notin DOMAIN job.rows
        BY <2>4 DEF OrdersInv, SessionOK
    <3> QED
        BY <2>4, <3>1 DEF OrdersInv, SessionOK, OrderRow, Held
  <2> HIDE DEF h, g
  <2>12. LinkedRows(h, store)
    <3>1. \A q \in Orders : OrderRow(h[q], Len(store))
        BY <2>8, <2>9, <2>10 DEF OrdersInv, SessionOK
    <3>2. \A q, s \in Orders : (h[q].remote # 0 /\ h[q].remote = h[s].remote) => q = s
        BY <2>8, <2>9, <2>10, <1>3 DEF OrdersInv, SessionOK
    <3>3. ASSUME calm, NEW r \in DOMAIN store, store[r].via = "rest-api"
          PROVE  h[store[r].of].remote = r
      <4>1. store[r].of \in Orders /\ Held(store[r].of).remote = r /\ r # 0
          BY <3>3, <1>1 DEF OrdersInv, CopiesAreLinked, StoreOK, StoreRow
      <4>2. store[r].of # o
          BY <4>1, <2>11
      <4> QED
          BY <4>1, <4>2, <2>9, <2>10
    <3> QED
        BY <3>1, <3>2, <3>3 DEF LinkedRows
  <2>13. h[o] = row /\ row.status # "none"
      BY <2>4, <2>8, <2>9, <2>10
  <2>14. PushedRows(h, g, o, p.store)
      BY <1>1, <2>3, <2>4, <2>10, <2>12, <2>13, PushKeeps
  <2>15. \A r \in DOMAIN p.store : p.store[r].via = "rest-api" => p.store[r].of \in Orders
      BY <2>14 DEF PushedRows, StoreOK, StoreRow
  <2>16. SessionOK'
    <3>1. \A q \in Orders : OrderRow(orders'[q], Len(p.store))
        BY <2>10, <2>12, <2>14 DEF PushedRows, LinkedRows
    <3>2. \A q \in Orders : orders'[q].remote # 0 => Held(q)'.remote = orders'[q].remote
        BY <2>10, <2>14 DEF PushedRows
    <3>3. \A q \in DOMAIN job'.rows : orders'[q].status # "none" /\ job'.rows[q].status # "none"
      <4>1. p.row.status = row.status
          BY <2>4, <2>10, <2>13, <2>14 DEF PushedRows
      <4> QED
          BY <4>1, <2>4, <2>7, <2>9, <2>13
    <3> QED
        BY <3>1, <3>2, <3>3, <2>4, <2>10, <2>14 DEF SessionOK, PushedRows, LinkedRows
  <2>17. TodoOK' /\ DirectOK'
      BY <1>1, <2>4, <2>7, <2>14 DEF OrdersInv, TodoOK, DirectOK, PushedRows
  <2>18. CopiesAreLinked'
      BY <2>4, <2>10, <2>14, <2>15 DEF CopiesAreLinked, PushedRows, LinkedRows
  <2>19. WantedOK'
    <3> SUFFICES ASSUME calm, NEW r \in wanted
                 PROVE  /\ r \in DOMAIN store' /\ store'[r].via = "store-api"
                        /\ \E q \in Orders : orders'[q].remote = r
                        /\ Seen(r)' \/ store'[r].status = "cancelled"
                        /\ Seen(r)' \/ [id |-> r, status |-> "cancelled"] \in job'.todo
        BY <1>1, <2>7 DEF WantedOK
    <3>1. /\ r \in DOMAIN store /\ store[r].via = "store-api"
          /\ \E q \in Orders : orders[q].remote = r
          /\ Seen(r) \/ store[r].status = "cancelled"
        BY DEF OrdersInv, WantedOK
    <3>2. r # 0 /\ r # x.id
        BY <3>1, <1>1, <1>4
    <3>3. \E q \in Orders : orders'[q].remote = r
      <4>1. PICK q \in Orders : orders[q].remote = r
          BY <3>1
      <4>2. Held(q).remote = r
          BY <4>1, <3>2 DEF OrdersInv, SessionOK
      <4> QED
          BY <4>2, <3>2, <2>9, <2>11
    <3>4. ASSUME Seen(r)
          PROVE  Seen(r)'
      <4>1. PICK q \in Orders :
              Held(q).remote = r /\ (Held(q).status = "cancelled" \/ q \in alerts \union job.alerts)
          BY <3>4 DEF Seen
      <4>2. orders'[q] = Held(q)
          BY <4>1, <3>2, <2>9, <2>11
      <4>3. Held(q)'.remote = r /\ Held(q)'.status = Held(q).status
          BY <4>1, <4>2, <3>2, <2>10, <2>14 DEF PushedRows
      <4> QED
          BY <4>1, <4>3, <2>4 DEF Seen
    <3>5. store'[r] = store[r] /\ r \in DOMAIN store'
        BY <3>1, <3>2, <2>4, <2>8, <2>13, <2>14 DEF PushedRows
    <3>6. ~Seen(r) => [id |-> r, status |-> "cancelled"] \in job'.todo
        BY <1>5, <2>7
    <3> QED
        BY <3>1, <3>3, <3>4, <3>5, <3>6
  <2> QED
      BY <1>1, <2>4, <2>7, <2>9, <2>14, <2>16, <2>17, <2>18, <2>19 DEF OrdersInv, PushedRows
<1>7. CASE ~Readable(x)
  <2>1. /\ UNCHANGED <<orders, alerts, store>>
        /\ job' = [job EXCEPT !.todo = @ \ {x}]
      BY <1>2, <1>7 DEF CreateFromStore
  <2>2. /\ JobRow(job') /\ job'.step = job.step /\ job'.rows = job.rows
        /\ job'.alerts = job.alerts /\ job'.todo = job.todo \ {x}
      BY <2>1, <1>1, OneLess
  <2>3. /\ DOMAIN orders' = Orders /\ calm' \in BOOLEAN /\ StoreOK(store')
        /\ SessionOK' /\ CopiesAreLinked'
        /\ \A r : Seen(r)' <=> Seen(r)
      BY <1>1, <2>1, <2>2, RowsStay
  <2>4. DirectOK' /\ TodoOK'
      BY <1>1, <2>1, <2>2 DEF OrdersInv, DirectOK, TodoOK
  <2>5. WantedOK'
      BY <1>1, <1>5, <2>1, <2>2, <2>3 DEF OrdersInv, WantedOK
  <2> QED
      BY <2>2, <2>3, <2>4, <2>5 DEF OrdersInv
<1> QED
    BY <1>6, <1>7

\* A cancellation the task has read is seen: the order is cancelled or has an
\* alert.
LEMMA HandleStoreInv ==
    ASSUME OrdersInv, UNCHANGED calm, HandleStore
    PROVE  OrdersInv'
<1>1. /\ job.step = "store" /\ job.todo # {} /\ UNCHANGED <<orders, alerts, store, wanted>>
      /\ StoreOK(store) /\ Len(store) \in Nat /\ DOMAIN store = 1 .. Len(store)
      /\ DOMAIN orders = Orders /\ calm \in BOOLEAN /\ JobRow(job)
    BY DEF HandleStore, OrdersInv, StoreOK
<1>2. PICK x \in job.todo : x = Latest
    BY <1>1, LatestIsOne DEF OrdersInv, TodoOK
<1>3. PICK o \in Orders :
        /\ Held(o).remote = x.id
        /\ job' = [job EXCEPT
             !.todo = @ \ {x},
             !.rows = IF x.status = "cancelled" /\ Held(o).status = "draft"
                      THEN Written(o, Cancelled(Held(o))) ELSE @,
             !.alerts = IF x.status = "cancelled" /\ Held(o).status # "draft"
                        THEN @ \union {o} ELSE @]
    BY <1>2 DEF HandleStore
<1>4. job = [step |-> job.step, todo |-> job.todo, rows |-> job.rows, alerts |-> job.alerts]
    BY <1>1 DEF JobRow
<1>5. PICK rows : rows = IF x.status = "cancelled" /\ Held(o).status = "draft"
                         THEN Written(o, Cancelled(Held(o))) ELSE job.rows
    OBVIOUS
<1>6. PICK al : al = IF x.status = "cancelled" /\ Held(o).status # "draft"
                     THEN job.alerts \union {o} ELSE job.alerts
    OBVIOUS
<1>7. job' = [job EXCEPT !.todo = @ \ {x}, !.rows = rows, !.alerts = al]
    BY <1>3, <1>5, <1>6
<1>8. job' = [step |-> "store", todo |-> job.todo \ {x}, rows |-> rows, alerts |-> al]
    BY <1>1, <1>4, <1>7
<1>9. DOMAIN rows \subseteq Orders
    BY <1>1, <1>5 DEF JobRow, Written
<1>10. /\ job'.step = "store" /\ job'.todo = job.todo \ {x} /\ job'.rows = rows
       /\ job'.alerts = al /\ JobRow(job') /\ job.alerts \subseteq job'.alerts
    BY <1>6, <1>8, <1>9 DEF JobRow
<1>11. x.id \in 1 .. Len(store)
    BY <1>1 DEF OrdersInv, TodoOK
<1>12. OrderRow(Held(o), Len(store)) /\ Held(o).status # "none" /\ orders[o].status # "none"
  <2>1. OrderRow(Held(o), Len(store)) /\ Held(o).status # "none"
      BY <1>3, <1>11 DEF OrdersInv, SessionOK, OrderRow
  <2>2. CASE o \in DOMAIN job.rows
      BY <2>1, <2>2 DEF OrdersInv, SessionOK
  <2>3. CASE o \notin DOMAIN job.rows
      BY <2>1, <2>3 DEF Held
  <2> QED
      BY <2>1, <2>2, <2>3
<1>13. /\ \A q \in Orders :
            /\ OrderRow(Held(q)', Len(store)) /\ Held(q)'.remote = Held(q).remote
            /\ Held(q).status = "cancelled" => Held(q)'.status = "cancelled"
       /\ \A q \in DOMAIN job'.rows : orders[q].status # "none" /\ job'.rows[q].status # "none"
       /\ x.status = "cancelled" => Held(o)'.status = "cancelled" \/ o \in job'.alerts
  <2>1. CASE x.status = "cancelled" /\ Held(o).status = "draft"
    <3>1. PICK row : row = Cancelled(Held(o))
        OBVIOUS
    <3>2. OrderRow(row, Len(store)) /\ row.remote = Held(o).remote /\ row.status = "cancelled"
        BY <3>1, <1>1, <1>12, EditRows
    <3>3. job'.rows = Written(o, row)
        BY <2>1, <3>1, <1>5, <1>10
    <3>4. /\ DOMAIN job'.rows = DOMAIN job.rows \union {o}
          /\ \A q \in Orders : Held(q)' = IF q = o THEN row ELSE Held(q)
        BY <3>3, <1>1, <1>10, HeldAfter
    <3>5. \A q \in DOMAIN job'.rows : job'.rows[q] = IF q = o THEN row ELSE job.rows[q]
        BY <3>3, <3>4, <1>1 DEF Written, Held, JobRow
    <3> QED
        BY <3>2, <3>4, <3>5, <1>12 DEF OrdersInv, SessionOK
  <2>2. CASE ~ (x.status = "cancelled" /\ Held(o).status = "draft")
    <3>1. job'.rows = job.rows
        BY <2>2, <1>5, <1>10
    <3>2. \A q \in Orders : Held(q)' = Held(q)
        BY <3>1, <1>1 DEF Held
    <3>3. x.status = "cancelled" => o \in job'.alerts
        BY <2>2, <1>6, <1>10
    <3> QED
        BY <3>1, <3>2, <3>3 DEF OrdersInv, SessionOK
  <2> QED
      BY <2>1, <2>2
<1>14. SessionOK'
    BY <1>1, <1>13 DEF OrdersInv, SessionOK
<1>15. DirectOK' /\ TodoOK'
    BY <1>1, <1>10 DEF OrdersInv, DirectOK, TodoOK
<1>16. CopiesAreLinked'
  <2>1. \A r \in DOMAIN store : store[r].via = "rest-api" => store[r].of \in Orders
      BY <1>1 DEF StoreOK, StoreRow
  <2> QED
      BY <2>1, <1>1, <1>13 DEF OrdersInv, CopiesAreLinked
<1>17. WantedOK'
  <2> SUFFICES ASSUME calm, NEW r \in wanted
               PROVE  Seen(r)' \/ (~Seen(r) /\ [id |-> r, status |-> "cancelled"] \in job'.todo)
      BY <1>1, <1>10 DEF OrdersInv, WantedOK
  <2>1. CASE Seen(r)
    <3>1. PICK q \in Orders :
            Held(q).remote = r /\ (Held(q).status = "cancelled" \/ q \in alerts \union job.alerts)
        BY <2>1 DEF Seen
    <3>2. q \in alerts \union job.alerts => q \in alerts' \union job'.alerts
        BY <1>1, <1>10
    <3> QED
        BY <3>1, <3>2, <1>13 DEF Seen
  <2>2. CASE ~Seen(r)
    <3>1. [id |-> r, status |-> "cancelled"] \in job.todo
        BY <2>2, <1>1 DEF OrdersInv, WantedOK
    <3>2. CASE x = [id |-> r, status |-> "cancelled"]
      <4>1. x.id = r /\ x.status = "cancelled"
          BY <3>2
      <4> QED
          BY <4>1, <1>3, <1>13 DEF Seen
    <3>3. CASE x # [id |-> r, status |-> "cancelled"]
        BY <3>1, <3>3, <2>2, <1>10
    <3> QED
        BY <3>2, <3>3
  <2> QED
      BY <2>1, <2>2
<1> QED
    BY <1>1, <1>10, <1>14, <1>15, <1>16, <1>17 DEF OrdersInv

\* After the task the session is over: what it held is written or lost.
LEMMA SessionOver ==
    ASSUME OrdersInv, UNCHANGED <<store, wanted, calm>>, job' = NoJob,
           DOMAIN orders' = Orders, alerts \subseteq alerts',
           \A o \in Orders : OrderRow(orders'[o], Len(store)),
           \A o, p \in Orders :
             (orders'[o].remote # 0 /\ orders'[o].remote = orders'[p].remote) => o = p,
           calm => /\ \A o \in Orders : orders'[o] = Held(o)
                   /\ job.alerts \subseteq alerts'
    PROVE  OrdersInv'
<1>1. /\ job'.step = "idle" /\ job'.rows = <<>> /\ DOMAIN job'.rows = {} /\ JobRow(job')
    BY NothingHeld
<1>2. \A o \in Orders : Held(o)' = orders'[o]
    BY <1>1 DEF Held
<1>3. SessionOK'
    BY <1>1, <1>2 DEF SessionOK
<1>4. DirectOK' /\ TodoOK'
    BY <1>1 DEF DirectOK, TodoOK
<1>5. CopiesAreLinked'
  <2>1. \A r \in DOMAIN store : store[r].via = "rest-api" => store[r].of \in Orders
      BY DEF OrdersInv, StoreOK, StoreRow
  <2> QED
      BY <2>1, <1>2 DEF OrdersInv, CopiesAreLinked
<1>6. WantedOK'
  <2> SUFFICES ASSUME calm, NEW r \in wanted
               PROVE  /\ r \in DOMAIN store /\ store[r].via = "store-api"
                      /\ \E o \in Orders : orders'[o].remote = r
                      /\ Seen(r)' \/ store[r].status = "cancelled"
      BY <1>1 DEF WantedOK
  <2>1. /\ r \in DOMAIN store /\ store[r].via = "store-api"
        /\ \E o \in Orders : orders[o].remote = r
        /\ Seen(r) \/ store[r].status = "cancelled"
      BY DEF OrdersInv, WantedOK
  <2>2. r # 0
      BY <2>1 DEF OrdersInv, StoreOK
  <2>3. \E o \in Orders : orders'[o].remote = r
      BY <2>1, <2>2 DEF OrdersInv, SessionOK
  <2>4. Seen(r) => Seen(r)'
      BY <1>2 DEF Seen
  <2> QED
      BY <2>1, <2>3, <2>4
<1> QED
    BY <1>1, <1>3, <1>4, <1>5, <1>6 DEF OrdersInv

\* At its end the task writes what its session held.
LEMMA FinishSyncInv ==
    ASSUME OrdersInv, UNCHANGED calm, FinishSync
    PROVE  OrdersInv'
<1>1. /\ UNCHANGED <<store, wanted>> /\ job' = NoJob /\ alerts' = alerts \union job.alerts
      /\ orders' = [o \in Orders |-> Held(o)]
    BY DEF FinishSync, Committed
<1>2. DOMAIN orders' = Orders /\ \A o \in Orders : orders'[o] = Held(o)
    BY <1>1
<1>3. /\ \A o \in Orders : OrderRow(orders'[o], Len(store))
      /\ \A o, p \in Orders :
           (orders'[o].remote # 0 /\ orders'[o].remote = orders'[p].remote) => o = p
    BY <1>2 DEF OrdersInv, SessionOK
<1>4. alerts \subseteq alerts' /\ job.alerts \subseteq alerts'
    BY <1>1
<1> QED
    BY <1>1, <1>2, <1>3, <1>4, SessionOver

\* A task that dies leaves the committed rows.
LEMMA DieInv ==
    ASSUME OrdersInv, UNCHANGED calm, Die
    PROVE  OrdersInv'
<1>1. /\ UNCHANGED <<orders, alerts, store, wanted>> /\ job' = NoJob /\ ~calm
    BY DEF Die
<1>2. \A o, p \in Orders :
        (orders[o].remote # 0 /\ orders[o].remote = orders[p].remote) => o = p
    BY DEF OrdersInv, SessionOK
<1>3. DOMAIN orders = Orders /\ \A o \in Orders : OrderRow(orders[o], Len(store))
    BY DEF OrdersInv, SessionOK
<1> QED
    BY <1>1, <1>2, <1>3, SessionOver

\* Every step keeps the invariant.
LEMMA OrdersNextInv == OrdersInv /\ [OrdersNext]_orderVars => OrdersInv'
<1> SUFFICES ASSUME OrdersInv, [OrdersNext]_orderVars
             PROVE  OrdersInv'
    OBVIOUS
<1>1. ASSUME UNCHANGED calm, NEW f \in Fees, NewStoreOrder(f)
      PROVE  OrdersInv'
    BY <1>1, NewStoreOrderInv
<1>2. ASSUME UNCHANGED calm, NEW f \in Fees, NEW o \in TypedIn, CreateOrder(o, f)
      PROVE  OrdersInv'
    BY <1>2, CreateOrderInv, WooOrdersAssumption
<1>3. ASSUME UNCHANGED calm, NEW r \in DOMAIN store, CancelByCustomer(r)
      PROVE  OrdersInv'
    BY <1>3, CancelByCustomerInv
<1>4. ASSUME UNCHANGED calm, NEW o \in Orders, AddLine(o) \/ Bill(o) \/ CancelOrder(o)
      PROVE  OrdersInv'
    BY <1>4, AddLineInv, BillInv, CancelOrderInv
<1>5. ASSUME UNCHANGED calm, NEW o \in Orders, NEW i \in DOMAIN orders[o].lines, CancelLine(o, i)
      PROVE  OrdersInv'
    BY <1>5, CancelLineInv
<1>6. ASSUME UNCHANGED calm, NEW o \in Orders, NEW c \in Calls,
             PushFromTab(o, c) \/ PushRecent(o, c)
      PROVE  OrdersInv'
    BY <1>6, PushFromTabInv, PushRecentInv
<1>7. ASSUME UNCHANGED calm, NEW c \in Calls, CreateFromStore(c)
      PROVE  OrdersInv'
    BY <1>7, CreateFromStoreInv
<1>8. ASSUME UNCHANGED calm, Start \/ ImportDirect \/ FetchStore
      PROVE  OrdersInv'
    BY <1>8, StartInv, ImportDirectInv, FetchStoreInv
<1>9. ASSUME UNCHANGED calm, HandleStore \/ StartPush \/ FinishSync \/ Die
      PROVE  OrdersInv'
    BY <1>9, HandleStoreInv, StartPushInv, FinishSyncInv, DieInv
<1>10. CASE UNCHANGED orderVars
    BY <1>10 DEF orderVars, OrdersInv, StoreOK, StoreRow, JobRow, SessionOK, OrderRow, Held,
                 DirectOK, TodoOK, Exists, CopiesAreLinked, WantedOK, Seen
<1> QED
    BY <1>1, <1>2, <1>3, <1>4, <1>5, <1>6, <1>7, <1>8, <1>9, <1>10 DEF OrdersNext

\* The invariant of the orders holds in every reachable state.
THEOREM OrdersInductive == OrdersSpec => []OrdersInv
BY OrdersInitInv, OrdersNextInv, PTL DEF OrdersSpec

\* No two orders of the ERP are ever linked to the same order of the shop,
\* whatever is lost and wherever the task dies; when nothing is lost, every order
\* the ERP created in the shop is linked to its own and to no other.
THEOREM LinksSafe == OrdersSpec => []OneToOne
<1>1. OrdersInv => OneToOne
  <2> SUFFICES ASSUME OrdersInv
               PROVE  OneToOne
      OBVIOUS
  <2>1. DOMAIN orders = Orders
      BY DEF OrdersInv
  <2>2. \A o, p \in Orders :
          (orders[o].remote # 0 /\ orders[o].remote = orders[p].remote) => o = p
      BY DEF OrdersInv, SessionOK
  <2>3. ASSUME calm, job = NoJob, NEW r \in DOMAIN store, store[r].via = "rest-api"
        PROVE  {o \in Orders : orders[o].remote = r} = {store[r].of}
    <3>1. \A o : Held(o) = orders[o]
        BY <2>3, NothingHeld DEF Held
    <3>2. store[r].of \in Orders /\ r # 0
        BY <2>3 DEF OrdersInv, StoreOK, StoreRow
    <3>3. orders[store[r].of].remote = r
        BY <2>3, <3>1, <3>2 DEF OrdersInv, CopiesAreLinked
    <3> QED
        BY <2>2, <3>2, <3>3
  <2> QED
      BY <2>1, <2>2, <2>3 DEF OneToOne
<1> QED
    BY <1>1, OrdersInductive, PTL

\* In a calm behaviour no push wipes out the cancellation of a customer before
\* the ERP has taken it over.
THEOREM CancellationsSafe == OrdersSpec => []CancellationIsSeen
<1>1. OrdersInv => CancellationIsSeen
  <2> SUFFICES ASSUME OrdersInv, calm, job = NoJob, NEW r \in wanted,
                      store[r].status # "cancelled"
               PROVE  \E o \in Orders :
                        orders[o].remote = r /\ (orders[o].status = "cancelled" \/ o \in alerts)
      BY DEF OrdersInv, CancellationIsSeen
  <2>1. \A o : Held(o) = orders[o]
      BY NothingHeld DEF Held
  <2>2. job.alerts = {}
      BY NothingHeld
  <2>3. Seen(r)
      BY DEF OrdersInv, WantedOK
  <2> QED
      BY <2>1, <2>2, <2>3 DEF Seen
<1> QED
    BY <1>1, OrdersInductive, PTL

-----------------------------------------------------------------------------
(* The lines and the fee of an order in the shop.                          *)

\* No two lines of an order have the same identifier.
LinesOK(ls) ==
    /\ ls \in Seq([active : BOOLEAN, id : Nat])
    /\ \A i, j \in DOMAIN ls : (ls[i].id # 0 /\ ls[i].id = ls[j].id) => i = j

\* The orders of the shop have lines it gave, before n.
ShopLines(st, n) ==
    /\ n \in Nat \ {0}
    /\ \A r \in DOMAIN st :
         st[r].lines \subseteq 1 .. n - 1 /\ st[r].fees \in Nat /\ st[r].shipping \in BOOLEAN

\* An order without link has sent nothing; the lines of a linked one are those
\* of the shop order s. On an order with a fee there are not both lines to send
\* and lines to remove: reading the order again gives no line away. The shop
\* charges the fee of an order once.
RowMatches(row, s) ==
    /\ LinesOK(row.lines) /\ row.billed \in BOOLEAN
    /\ row.remote = 0 =>
         Ids(row.lines) \union Removed(row.lines) = {} /\ row.fee \in {"none", "new"}
    /\ row.remote # 0 =>
         /\ s.lines = Ids(row.lines) \union Removed(row.lines)
         /\ row.fee # "none" =>
              Unlinked(row.lines, Len(row.lines)) = {} \/ Removed(row.lines) = {}
         /\ row.status # "cancelled" =>
              /\ row.fee # "new" /\ (row.fee = "shipping" <=> s.shipping)
              /\ s.fees + (IF s.shipping THEN 1 ELSE 0) = (IF row.fee = "none" THEN 0 ELSE 1)

\* There is nothing to send and nothing to remove.
Settled(row) == Unlinked(row.lines, Len(row.lines)) = {} /\ Removed(row.lines) = {}

\* An order of the shop that no row has is as its customer left it.
Untouched(h, st) ==
    \A r \in DOMAIN st : (\A o \in Orders : h[o].remote # r) =>
      st[r].fees = 0 /\ \E l \in Nat \ {0} : st[r].lines = {l}

\* The rows h, the orders st of the shop, and the orders ed that are edited.
RowsMatch(h, st, n, ed) ==
    /\ ShopLines(st, n) /\ Untouched(h, st)
    /\ \A o \in Orders : RowMatches(h[o], st[h[o].remote])
    /\ \A o \in Orders \ ed : h[o].remote # 0 => Settled(h[o])

\* It is said of the rows as the session of the task sees them.
MatchInv ==
    (calm /\ ~Replaces) => RowsMatch([o \in Orders |-> Held(o)], store, nextLine, edited)

\* The lines after an answer.
LinesAfter(ls, held) == SyncLineIds(ls, held, TRUE)

\* A push in a calm behaviour: obeyed once and heard.
IsCalmPush(p, o, row) == p = Push(o, row, 1, TRUE)

\* The place of a number in an interval.
LEMMA AscendingInterval ==
    ASSUME NEW a \in Nat, NEW k \in Nat, NEW S, S = a .. a + k - 1
    PROVE  /\ Ascending(S) = [i \in 1 .. k |-> a + i - 1]
           /\ Len(Ascending(S)) = k
<1>1. Cardinality(S) = k
    BY FS_Interval
<1>2. \A x \in S : {y \in S : y < x} = a .. x - 1 /\ Cardinality(a .. x - 1) = x - a
  <2> TAKE x \in S
  <2>1. {y \in S : y < x} = a .. x - 1
      OBVIOUS
  <2>2. x \in Int /\ x - 1 \in Int /\ a <= x
      OBVIOUS
  <2>3. Cardinality(a .. x - 1) = x - a
    <3>1. Cardinality(a .. x - 1) = IF a > x - 1 THEN 0 ELSE x - 1 - a + 1
        BY <2>2, FS_Interval
    <3> QED
        BY <2>2, <3>1
  <2> QED
      BY <2>1, <2>3
<1>3. ASSUME NEW i \in 1 .. k
      PROVE  (CHOOSE x \in S : Cardinality({y \in S : y < x}) = i - 1) = a + i - 1
  <2>1. \A x \in S : Cardinality({y \in S : y < x}) = i - 1 <=> x = a + i - 1
    <3> TAKE x \in S
    <3>1. Cardinality({y \in S : y < x}) = x - a
        BY <1>2
    <3> QED
        BY <3>1
  <2>2. a + i - 1 \in S
      OBVIOUS
  <2> QED
      BY <2>1, <2>2
<1>4. Ascending(S) = [i \in 1 .. k |-> a + i - 1]
    BY <1>1, <1>3 DEF Ascending
<1> QED
    BY <1>4

\* The only number of a set.
LEMMA AscendingSingle ==
    ASSUME NEW l \in Nat
    PROVE  Ascending({l}) = [i \in 1 .. 1 |-> l]
<1>1. {l} = l .. l + 1 - 1
    OBVIOUS
<1>2. Ascending({l}) = [i \in 1 .. 1 |-> l + i - 1]
    BY <1>1, AscendingInterval
<1>3. \A i \in 1 .. 1 : l + i - 1 = l
    OBVIOUS
<1> QED
    BY <1>2, <1>3

\* No number is in no order.
LEMMA AscendingEmpty == Len(Ascending({})) = 0
<1>1. {} = 0 .. 0 + 0 - 1
    OBVIOUS
<1> QED
    BY <1>1, AscendingInterval

\* The lines to send of an order, in their order, are counted from 1 to their
\* number.
LEMMA Ranks ==
    ASSUME NEW ls \in Seq([active : BOOLEAN, id : Nat])
    PROVE  LET U == Unlinked(ls, Len(ls))
               rank(i) == Cardinality(Unlinked(ls, i))
           IN /\ Cardinality(U) \in Nat
              /\ \A i \in U : rank(i) \in 1 .. Cardinality(U)
              /\ \A i, j \in U : rank(i) = rank(j) => i = j
              /\ \A m \in 1 .. Cardinality(U) : \E i \in U : rank(i) = m
<1> DEFINE U == Unlinked(ls, Len(ls))
           rank(i) == Cardinality(Unlinked(ls, i))
<1>1. Len(ls) \in Nat /\ DOMAIN ls = 1 .. Len(ls)
    OBVIOUS
<1>2. \A n \in Nat : IsFiniteSet(Unlinked(ls, n)) /\ Cardinality(Unlinked(ls, n)) \in Nat
  <2> TAKE n \in Nat
  <2>1. IsFiniteSet(1 .. n)
      BY FS_Interval
  <2>2. Unlinked(ls, n) \subseteq 1 .. n
      BY DEF Unlinked
  <2> QED
      BY <2>1, <2>2, FS_Subset, FS_CardinalityType
<1>3. \A m, n \in Nat : m <= n => Cardinality(Unlinked(ls, m)) <= Cardinality(Unlinked(ls, n))
  <2> SUFFICES ASSUME NEW m \in Nat, NEW n \in Nat, m <= n
               PROVE  Cardinality(Unlinked(ls, m)) <= Cardinality(Unlinked(ls, n))
      OBVIOUS
  <2>1. Unlinked(ls, m) \subseteq Unlinked(ls, n)
      BY DEF Unlinked
  <2> QED
      BY <2>1, <1>2, FS_Subset
<1>4. ASSUME NEW m \in Nat, NEW j \in U, m < j
      PROVE  Cardinality(Unlinked(ls, m)) < rank(j)
  <2>1. j \in Nat /\ j \in Unlinked(ls, j) /\ j \notin Unlinked(ls, m)
      BY <1>1, <1>4 DEF Unlinked
  <2>2. Unlinked(ls, m) \subseteq Unlinked(ls, j) /\ Unlinked(ls, m) # Unlinked(ls, j)
      BY <2>1, <1>4 DEF Unlinked
  <2>3. /\ Cardinality(Unlinked(ls, m)) <= rank(j)
        /\ Cardinality(Unlinked(ls, m)) # rank(j)
      BY <2>1, <2>2, <1>2, FS_Subset
  <2> QED
      BY <2>1, <2>3, <1>2
<1>5. U \subseteq 1 .. Len(ls) /\ Unlinked(ls, 0) = {} /\ Cardinality(Unlinked(ls, 0)) = 0
    BY FS_EmptySet DEF Unlinked
<1> DEFINE c == Cardinality(U)
<1>6. c \in Nat /\ IsFiniteSet(U)
    BY <1>1, <1>2
<1>7. \A i \in U : rank(i) \in 1 .. c
  <2> TAKE i \in U
  <2>1. i \in Nat /\ i <= Len(ls) /\ 0 < i
      BY <1>1, <1>5
  <2>2. 0 < rank(i)
      BY <2>1, <1>4, <1>5
  <2>3. rank(i) <= c /\ rank(i) \in Nat
      BY <2>1, <1>1, <1>2, <1>3
  <2> QED
      BY <2>2, <2>3, <1>6
<1>8. \A i, j \in U : rank(i) = rank(j) => i = j
  <2> SUFFICES ASSUME NEW i \in U, NEW j \in U, rank(i) = rank(j), i # j
               PROVE  FALSE
      OBVIOUS
  <2>1. i \in Nat /\ j \in Nat /\ rank(i) \in Nat /\ rank(j) \in Nat
      BY <1>5, <1>7
  <2>2. CASE i < j
      BY <2>1, <2>2, <1>4
  <2>3. CASE j < i
      BY <2>1, <2>3, <1>4
  <2> QED
      BY <2>1, <2>2, <2>3
<1>9. \A m \in 1 .. c : \E i \in U : rank(i) = m
  <2> DEFINE f == [i \in U |-> rank(i)]
  <2>1. f \in [U -> 1 .. c] /\ \A i, j \in U : f[i] = f[j] => i = j
      BY <1>7, <1>8
  <2>2. f \in Injection(U, 1 .. c)
    <3> HIDE DEF f, c, U
    <3> QED
        BY <2>1 DEF Injection, IsInjective
  <2>3. IsFiniteSet(1 .. c) /\ Cardinality(1 .. c) = c
      BY <1>6, FS_Interval
  <2>4. f \in Surjection(U, 1 .. c)
    <3> HIDE DEF f
    <3> QED
        BY <2>2, <2>3, FS_Injection
  <2>5. \A m \in 1 .. c : \E i \in U : f[i] = m
    <3> HIDE DEF f, c, U
    <3> QED
        BY <2>4 DEF Surjection
  <2> QED
      BY <2>5
<1> QED
    BY <1>6, <1>7, <1>8, <1>9

\* A line.
LEMMA LineType ==
    ASSUME NEW b \in BOOLEAN, NEW l \in Nat, NEW v, v = [active |-> b, id |-> l]
    PROVE  v \in [active : BOOLEAN, id : Nat] /\ v.active = b /\ v.id = l
OBVIOUS

\* What a line has.
LEMMA LineFields ==
    ASSUME NEW v \in [active : BOOLEAN, id : Nat]
    PROVE  v = [active |-> v.active, id |-> v.id] /\ v.active \in BOOLEAN /\ v.id \in Nat
OBVIOUS

\* The lines of an order.
LEMMA LinesAre ==
    ASSUME NEW ls \in Seq([active : BOOLEAN, id : Nat])
    PROVE  /\ Len(ls) \in Nat /\ DOMAIN ls = 1 .. Len(ls)
           /\ \A i \in DOMAIN ls :
                /\ ls[i] \in [active : BOOLEAN, id : Nat]
                /\ ls[i] = [active |-> ls[i].active, id |-> ls[i].id]
                /\ ls[i].active \in BOOLEAN /\ ls[i].id \in Nat
<1> DEFINE T == [active : BOOLEAN, id : Nat]
<1>1. Len(ls) \in Nat /\ DOMAIN ls = 1 .. Len(ls) /\ \A i \in DOMAIN ls : ls[i] \in T
  <2>1. ls \in Seq(T)
      OBVIOUS
  <2> HIDE DEF T
  <2> QED
      BY <2>1
<1> QED
    BY <1>1, LineFields

\* A sequence from its elements.
LEMMA SeqOf ==
    ASSUME NEW T, NEW n \in Nat, NEW u \in [1 .. n -> T]
    PROVE  u \in Seq(T) /\ Len(u) = n
OBVIOUS

\* The lines of the shop that no active line has go to those to send: after the
\* answer to a push the active lines are those of the shop, and the cancelled
\* ones have lost theirs.
LEMMA PushedLines ==
    ASSUME NEW ls, LinesOK(ls), NEW n \in Nat \ {0},
           Ids(ls) \union Removed(ls) \subseteq 1 .. n - 1,
           NEW new, new = Cardinality(Unlinked(ls, Len(ls))),
           NEW fresh, fresh = n .. n + new - 1,
           NEW u, u = LinesAfter(ls, Ids(ls) \union fresh)
    PROVE  /\ new \in Nat /\ LinesOK(u)
           /\ Ids(u) = Ids(ls) \union fresh /\ Removed(u) = {}
           /\ Unlinked(u, Len(u)) = {}
<1> DEFINE U == Unlinked(ls, Len(ls))
           rank(i) == Cardinality(Unlinked(ls, i))
<1>1. /\ ls \in Seq([active : BOOLEAN, id : Nat])
      /\ Len(ls) \in Nat /\ DOMAIN ls = 1 .. Len(ls)
      /\ \A i \in DOMAIN ls : /\ ls[i] = [active |-> ls[i].active, id |-> ls[i].id]
                              /\ ls[i].active \in BOOLEAN /\ ls[i].id \in Nat
  <2>1. ls \in Seq([active : BOOLEAN, id : Nat])
      BY DEF LinesOK
  <2> QED
      BY <2>1, LinesAre
<1>2. /\ new \in Nat
      /\ \A i \in U : rank(i) \in 1 .. new
      /\ \A i, j \in U : rank(i) = rank(j) => i = j
      /\ \A m \in 1 .. new : \E i \in U : rank(i) = m
    BY <1>1, Ranks
<1>3. Ids(ls) \subseteq 1 .. n - 1
    OBVIOUS
<1> DEFINE spare == Ascending((Ids(ls) \union fresh) \ Ids(ls))
<1>4. Len(spare) = new /\ \A m \in 1 .. new : spare[m] = n + m - 1
  <2>1. (Ids(ls) \union fresh) \ Ids(ls) = fresh
    <3>1. \A l \in fresh : l \notin 1 .. n - 1
        BY <1>2
    <3> QED
        BY <3>1, <1>3
  <2>2. Ascending(fresh) = [m \in 1 .. new |-> n + m - 1] /\ Len(Ascending(fresh)) = new
    <3>1. n \in Nat /\ new \in Nat
        BY <1>2
    <3> QED
        BY <3>1, AscendingInterval
  <2> QED
      BY <2>1, <2>2
<1>5. u = [i \in DOMAIN ls |->
             CASE ls[i].active /\ ls[i].id = 0 /\ rank(i) <= Len(spare) ->
                       [ls[i] EXCEPT !.id = spare[rank(i)]]
               [] ~ls[i].active -> [ls[i] EXCEPT !.id = 0]
               [] OTHER -> ls[i]]
    BY DEF LinesAfter, SyncLineIds
<1> HIDE DEF spare
<1>6. \A i \in DOMAIN ls : i \in U <=> ls[i].active /\ ls[i].id = 0
    BY <1>1 DEF Unlinked
<1> HIDE DEF U, rank
<1>7. DOMAIN u = DOMAIN ls
    BY <1>5
<1>8. \A i \in DOMAIN ls :
        u[i] = [active |-> ls[i].active,
                id |-> IF i \in U THEN n + rank(i) - 1
                       ELSE IF ls[i].active THEN ls[i].id ELSE 0]
  <2> TAKE i \in DOMAIN ls
  <2>1. CASE i \in U
    <3>1. rank(i) <= Len(spare) /\ spare[rank(i)] = n + rank(i) - 1
        BY <2>1, <1>2, <1>4
    <3>2. u[i] = [ls[i] EXCEPT !.id = n + rank(i) - 1]
        BY <2>1, <3>1, <1>5, <1>6
    <3> QED
        BY <2>1, <3>2, <1>1
  <2>2. CASE i \notin U /\ ls[i].active
    <3>1. u[i] = ls[i]
        BY <2>2, <1>1, <1>5, <1>6
    <3> QED
        BY <2>2, <3>1, <1>1
  <2>3. CASE i \notin U /\ ~ls[i].active
    <3>1. u[i] = [ls[i] EXCEPT !.id = 0]
        BY <2>3, <1>5
    <3> QED
        BY <2>3, <3>1, <1>1
  <2> QED
      BY <2>1, <2>2, <2>3
<1> HIDE DEF spare
<1>9. \A i \in DOMAIN ls : /\ u[i].active = ls[i].active
                           /\ i \in U => u[i].id = n + rank(i) - 1 /\ u[i].id \in fresh
                           /\ (i \notin U /\ ls[i].active) => u[i].id = ls[i].id
                           /\ ~ls[i].active => u[i].id = 0
                           /\ u[i] \in [active : BOOLEAN, id : Nat]
  <2> TAKE i \in DOMAIN ls
  <2>1. CASE i \in U
    <3>1. rank(i) \in 1 .. new
        BY <2>1, <1>2
    <3>2. u[i] = [active |-> ls[i].active, id |-> n + rank(i) - 1]
        BY <2>1, <1>8
    <3>3. PICK l \in fresh : l = n + rank(i) - 1 /\ l \in Nat
        BY <3>1, <1>2
    <3>4. ls[i].active \in BOOLEAN /\ ls[i].active
        BY <2>1, <1>1, <1>6
    <3>5. u[i] = [active |-> ls[i].active, id |-> l]
        BY <3>2, <3>3
    <3>6. u[i] \in [active : BOOLEAN, id : Nat] /\ u[i].active = ls[i].active /\ u[i].id = l
      <4>1. PICK b \in BOOLEAN : b = ls[i].active
          BY <3>4
      <4>2. PICK v : v = u[i]
          OBVIOUS
      <4>3. v = [active |-> b, id |-> l] /\ l \in Nat
          BY <3>3, <3>5, <4>1, <4>2
      <4>4. v \in [active : BOOLEAN, id : Nat] /\ v.active = b /\ v.id = l
          BY <4>3, LineType
      <4> QED
          BY <4>1, <4>2, <4>4
    <3> HIDE DEF rank
    <3> QED
        BY <2>1, <3>3, <3>4, <3>6
  <2>2. CASE i \notin U
    <3>1. PICK l \in Nat : l = IF ls[i].active THEN ls[i].id ELSE 0
        BY <1>1
    <3>2. u[i] = [active |-> ls[i].active, id |-> l]
        BY <2>2, <3>1, <1>8
    <3>3. u[i] \in [active : BOOLEAN, id : Nat] /\ u[i].active = ls[i].active /\ u[i].id = l
      <4>1. PICK b \in BOOLEAN : b = ls[i].active
          BY <1>1
      <4>2. PICK v : v = u[i]
          OBVIOUS
      <4>3. v = [active |-> b, id |-> l]
          BY <3>2, <4>1, <4>2
      <4>4. v \in [active : BOOLEAN, id : Nat] /\ v.active = b /\ v.id = l
          BY <4>3, LineType
      <4> QED
          BY <4>1, <4>2, <4>4
    <3> QED
        BY <2>2, <3>1, <3>3
  <2> QED
      BY <2>1, <2>2
<1>10. u \in Seq([active : BOOLEAN, id : Nat]) /\ Len(u) = Len(ls)
  <2> DEFINE T == [active : BOOLEAN, id : Nat]
  <2>1. u = [i \in DOMAIN ls |-> u[i]]
      BY <1>5
  <2>2. \A i \in DOMAIN ls : u[i] \in T
      BY <1>9
  <2> HIDE DEF T
  <2>3. u \in [1 .. Len(ls) -> T]
      BY <2>1, <2>2, <1>1
  <2>4. u \in Seq(T) /\ Len(u) = Len(ls)
      BY <2>3, <1>1, SeqOf
  <2> QED
      BY <2>4 DEF T
<1>11. \A i \in DOMAIN ls : ls[i].active /\ i \notin U => ls[i].id # 0 /\ ls[i].id \in Ids(ls)
  <2>1. \A i \in DOMAIN ls : ls[i].active /\ i \notin U => ls[i].id # 0
      BY <1>6
  <2> QED
      BY <2>1 DEF Ids
<1>12. LinesOK(u)
  <2> SUFFICES ASSUME NEW i \in DOMAIN ls, NEW j \in DOMAIN ls, u[i].id # 0, u[i].id = u[j].id
               PROVE  i = j
      BY <1>7, <1>10 DEF LinesOK
  <2>1. ls[i].active /\ ls[j].active
      BY <1>9
  <2>2. CASE i \in U /\ j \in U
    <3>1. u[i].id = n + rank(i) - 1 /\ u[j].id = n + rank(j) - 1
        BY <2>2, <1>9
    <3>2. rank(i) \in 1 .. new /\ rank(j) \in 1 .. new
        BY <2>2, <1>2
    <3>3. \A a, b \in 1 .. new : n + a - 1 = n + b - 1 => a = b
        BY <1>2
    <3>4. rank(i) = rank(j)
        BY <3>1, <3>2, <3>3
    <3> QED
        BY <2>2, <3>4, <1>2
  <2>3. CASE i \notin U /\ j \notin U
    <3>1. ls[i].id = ls[j].id /\ ls[i].id # 0
        BY <2>1, <2>3, <1>9
    <3> QED
        BY <3>1 DEF LinesOK
  <2>4. \A k, m \in DOMAIN ls :
          (k \in U /\ m \notin U /\ ls[m].active) => u[k].id # u[m].id
    <3>1. \A l \in fresh : l \notin Ids(ls)
        BY <1>2, <1>3
    <3> TAKE k, m \in DOMAIN ls
    <3> HAVE k \in U /\ m \notin U /\ ls[m].active
    <3>2. u[k].id \in fresh
        BY <1>9
    <3>3. u[m].id = ls[m].id /\ ls[m].id \in Ids(ls)
        BY <1>9, <1>11
    <3> QED
        BY <3>1, <3>2, <3>3
  <2> QED
      BY <2>1, <2>2, <2>3, <2>4
<1>13. Removed(u) = {}
  <2>1. \A i \in DOMAIN u : ~u[i].active => u[i].id = 0
      BY <1>7, <1>9
  <2> QED
      BY <2>1 DEF Removed
<1>14. Unlinked(u, Len(u)) = {}
  <2>1. \A i \in 1 .. Len(u) : u[i].active => u[i].id # 0
    <3> TAKE i \in 1 .. Len(u)
    <3>1. i \in DOMAIN ls
        BY <1>1, <1>10
    <3>2. CASE i \in U
      <4>1. u[i].id \in fresh
          BY <3>1, <3>2, <1>9
      <4>2. \A l \in fresh : l # 0
          BY <1>2
      <4> QED
          BY <4>1, <4>2
    <3>3. CASE i \notin U
        BY <3>1, <3>3, <1>9, <1>11
    <3> QED
        BY <3>2, <3>3
  <2> QED
      BY <2>1 DEF Unlinked
<1>15. Ids(u) = Ids(ls) \union fresh
  <2>1. ASSUME NEW l \in Ids(u)
        PROVE  l \in Ids(ls) \union fresh
    <3>1. PICK i \in DOMAIN u : u[i].active /\ l = u[i].id
        BY DEF Ids
    <3> QED
        BY <3>1, <1>7, <1>9, <1>11
  <2>2. ASSUME NEW l \in Ids(ls)
        PROVE  l \in Ids(u)
    <3>1. PICK i \in DOMAIN ls : ls[i].active /\ l = ls[i].id /\ l # 0
        BY DEF Ids
    <3>2. i \in DOMAIN u /\ u[i].active /\ u[i].id = l
        BY <3>1, <1>6, <1>7, <1>9
    <3> QED
        BY <3>1, <3>2 DEF Ids
  <2>3. ASSUME NEW l \in fresh
        PROVE  l \in Ids(u)
    <3>1. l - n + 1 \in 1 .. new /\ l # 0 /\ l \in Nat
        BY <1>2
    <3>2. PICK i \in U : rank(i) = l - n + 1
        BY <3>1, <1>2
    <3>3. i \in DOMAIN ls /\ ls[i].active
        BY <1>1, <1>6 DEF U, Unlinked
    <3>4. u[i].id = n + rank(i) - 1 /\ u[i].active = ls[i].active /\ i \in DOMAIN u
        BY <3>2, <3>3, <1>7, <1>9
    <3>5. n + (l - n + 1) - 1 = l
        BY <3>1
    <3>6. u[i].id = l /\ u[i].active
        BY <3>2, <3>3, <3>4, <3>5
    <3> QED
        BY <3>1, <3>4, <3>6 DEF Ids
  <2> QED
      BY <2>1, <2>2, <2>3
<1> QED
    BY <1>2, <1>12, <1>13, <1>14, <1>15

\* Reading an order again before a push gives no line away, when it has not
\* both a line to send and one to remove.
LEMMA PreSyncKeeps ==
    ASSUME NEW row, LinesOK(row.lines),
           row.remote # 0 =>
             /\ store[row.remote].lines = Ids(row.lines) \union Removed(row.lines)
             /\ row.fee # "none" =>
                  Unlinked(row.lines, Len(row.lines)) = {} \/ Removed(row.lines) = {}
    PROVE  PreSync(row) = row.lines
<1> DEFINE ls == row.lines
           spare == Ascending((Ids(ls) \union Removed(ls)) \ Ids(ls))
           rank(i) == Cardinality(Unlinked(ls, i))
           u == SyncLineIds(ls, Ids(ls) \union Removed(ls), FALSE)
<1>1. CASE row.remote # 0 /\ row.fee # "none"
  <2>1. PreSync(row) = u
      BY <1>1 DEF PreSync
  <2>2. u = [i \in DOMAIN ls |->
               CASE ls[i].active /\ ls[i].id = 0 /\ rank(i) <= Len(spare) ->
                         [ls[i] EXCEPT !.id = spare[rank(i)]]
                 [] ~ls[i].active /\ FALSE -> [ls[i] EXCEPT !.id = 0]
                 [] OTHER -> ls[i]]
      BY DEF SyncLineIds
  <2>3. ls \in Seq([active : BOOLEAN, id : Nat]) /\ DOMAIN ls = 1 .. Len(ls) /\ Len(ls) \in Nat
      BY DEF LinesOK
  <2>4. \A i \in DOMAIN ls : ~ (ls[i].active /\ ls[i].id = 0 /\ rank(i) <= Len(spare))
    <3>1. CASE Unlinked(ls, Len(ls)) = {}
        BY <3>1, <2>3 DEF Unlinked
    <3>2. CASE Removed(ls) = {}
      <4>1. (Ids(ls) \union Removed(ls)) \ Ids(ls) = {}
          BY <3>2
      <4>2. Len(spare) = 0
          BY <4>1, AscendingEmpty
      <4>3. ASSUME NEW i \in DOMAIN ls, ls[i].active, ls[i].id = 0
            PROVE  rank(i) > 0
        <5>1. i \in Unlinked(ls, Len(ls))
            BY <4>3, <2>3 DEF Unlinked
        <5>2. rank(i) \in 1 .. Cardinality(Unlinked(ls, Len(ls))) /\ Cardinality(Unlinked(ls, Len(ls))) \in Nat
            BY <5>1, <2>3, Ranks
        <5> QED
            BY <5>2
      <4>4. \A i \in DOMAIN ls : (ls[i].active /\ ls[i].id = 0) => rank(i) > 0 /\ rank(i) \in Nat
        <5>1. ASSUME NEW i \in DOMAIN ls
              PROVE  rank(i) \in Nat
          <6>1. IsFiniteSet(1 .. i) /\ Unlinked(ls, i) \subseteq 1 .. i
              BY <2>3, FS_Interval DEF Unlinked
          <6> QED
              BY <6>1, FS_Subset, FS_CardinalityType
        <5> QED
            BY <5>1, <4>3
      <4> HIDE DEF spare, rank
      <4> QED
          BY <4>2, <4>4
    <3> QED
        BY <1>1, <3>1, <3>2
  <2> HIDE DEF spare, rank
  <2>5. u = [i \in DOMAIN ls |-> ls[i]]
      BY <2>2, <2>4
  <2>6. ls = [i \in DOMAIN ls |-> ls[i]]
      BY <2>3
  <2> QED
      BY <2>1, <2>5, <2>6
<1>2. CASE ~ (row.remote # 0 /\ row.fee # "none")
    BY <1>2 DEF PreSync
<1> QED
    BY <1>1, <1>2

\* What the shop makes of the lines and the fee of an order it obeys.
LEMMA ObeyedRow ==
    ASSUME NEW row, NEW ls, NEW s, StoreRow(s), s.shipping \in BOOLEAN, NEW fresh, NEW fees
    PROVE  LET u == Obeyed(row, ls, s, fresh, fees) IN
           /\ u.lines = (s.lines \ Removed(ls)) \union fresh
           /\ u.fees = s.fees + fees
           /\ u.shipping \in BOOLEAN
           /\ u.shipping <=> s.shipping /\ row.fee # "shipping"
<1> DEFINE u == Obeyed(row, ls, s, fresh, fees)
<1>1. s = [via |-> s.via, status |-> s.status, lines |-> s.lines,
           shipping |-> s.shipping, fees |-> s.fees, of |-> s.of]
    BY DEF StoreRow
<1>2. PICK b \in BOOLEAN : b <=> s.shipping /\ row.fee # "shipping"
    OBVIOUS
<1>3. PICK w : w = WcStatus(row)
    OBVIOUS
<1>4. PICK ss \in BOOLEAN : s.shipping = ss
    OBVIOUS
<1>5. (s.shipping /\ row.fee # "shipping") = b
    BY <1>2
<1>6. u = [s EXCEPT !.status = w, !.lines = (@ \ Removed(ls)) \union fresh,
                    !.shipping = b, !.fees = @ + fees]
    BY <1>3, <1>5, Zenon DEF Obeyed
<1>7. PICK a, c : a = (s.lines \ Removed(ls)) \union fresh /\ c = s.fees + fees
    OBVIOUS
<1> HIDE DEF u
<1>8. u = [via |-> s.via, status |-> w, lines |-> a, shipping |-> b, fees |-> c, of |-> s.of]
    BY <1>1, <1>6, <1>7
<1>9. u.lines = a /\ u.fees = c /\ u.shipping = b
    BY <1>8
<1> QED
    BY <1>2, <1>7, <1>9 DEF u

\* What a successful push makes of the row.
LEMMA AfterPushRow ==
    ASSUME NEW row, NEW n, OrderRow(row, n), NEW ls, NEW r, NEW held,
           NEW u, u = AfterPush(row, ls, r, held)
    PROVE  /\ u.remote = r /\ u.status = row.status /\ u.billed = row.billed
           /\ u.lines = LinesAfter(ls, held)
           /\ row.fee = "none" => u.fee = "none"
           /\ row.fee # "none" => u.fee = IF row.status = "cancelled" THEN "new" ELSE "linked"
<1>1. row = [status |-> row.status, remote |-> row.remote, lines |-> row.lines,
             fee |-> row.fee, billed |-> row.billed]
    BY DEF OrderRow
<1>2. PICK ls2 : ls2 = LinesAfter(ls, held)
    OBVIOUS
<1>3. PICK f : f = CASE row.fee = "none" -> "none"
                     [] row.fee # "none" /\ row.status = "cancelled" -> "new"
                     [] OTHER -> "linked"
    OBVIOUS
<1>4. u = [row EXCEPT !.remote = r, !.lines = ls2, !.fee = f]
    BY <1>2, <1>3 DEF AfterPush, LinesAfter
<1>5. u.remote = r /\ u.status = row.status /\ u.billed = row.billed /\ u.lines = ls2 /\ u.fee = f
    BY <1>1, <1>4
<1>6. /\ row.fee = "none" => f = "none"
      /\ row.fee # "none" => f = IF row.status = "cancelled" THEN "new" ELSE "linked"
    BY <1>3
<1> QED
    BY <1>2, <1>5, <1>6

\* What a push that is obeyed once and heard does with the order o.
LEMMA CalmPush ==
    ASSUME StoreOK(store), ShopLines(store, nextLine), NEW o \in Orders, NEW row,
           OrderRow(row, Len(store)), RowMatches(row, store[row.remote]),
           NEW p, IsCalmPush(p, o, row)
    PROVE  /\ p.success /\ p.nextLine \in Nat /\ nextLine <= p.nextLine
           /\ ShopLines(p.store, p.nextLine)
           /\ RowMatches(p.row, p.store[p.row.remote]) /\ Settled(p.row)
           /\ p.row.remote # 0
<1> DEFINE ls == PreSync(row)
           create == row.remote = 0
           new == Cardinality(Unlinked(ls, Len(ls)))
           lent == nextLine .. nextLine + new - 1
           told == LinesAfter(ls, Ids(ls) \union lent)
           sent == Obeyed(row, ls, IF create THEN RestOrder(o) ELSE store[row.remote],
                          lent, NewFees(row))
           r0 == IF create THEN Len(store) + 1 ELSE row.remote
<1>1. LinesOK(ls) /\ ls = row.lines
    BY PreSyncKeeps DEF RowMatches
<1>2. /\ StoreOK(store) /\ Len(store) \in Nat /\ DOMAIN store = 1 .. Len(store)
      /\ row.remote # 0 => row.remote \in DOMAIN store
    BY DEF StoreOK, OrderRow
<1>3. nextLine \in Nat \ {0} /\ Ids(ls) \union Removed(ls) \subseteq 1 .. nextLine - 1
    BY <1>1, <1>2 DEF ShopLines, RowMatches
<1>4. /\ new \in Nat /\ LinesOK(told)
      /\ Ids(told) = Ids(ls) \union lent /\ Removed(told) = {} /\ Unlinked(told, Len(told)) = {}
    BY <1>1, <1>3, PushedLines
<1>5. create \/ Ids(ls) \union Removed(ls) \subseteq store[row.remote].lines
    BY <1>1 DEF RowMatches
<1> DEFINE fresh1(k) == nextLine + (k - 1) * new .. nextLine + k * new - 1
           known == create \/ Ids(ls) \union Removed(ls) \subseteq store[row.remote].lines
           done == IF ~known THEN 0 ELSE IF Removed(ls) # {} /\ 1 > 1 THEN 1 ELSE 1
           after == IF done = 0 THEN store
                    ELSE IF create
                    THEN store \o [k \in 1 .. done |-> Obeyed(row, ls, RestOrder(o), fresh1(k), NewFees(row))]
                    ELSE [store EXCEPT ![row.remote] =
                            Obeyed(row, ls, @, UNION {fresh1(k) : k \in 1 .. done}, done * NewFees(row))]
           r1 == IF create THEN Len(after) ELSE row.remote
<1>6. /\ p.store = after /\ p.nextLine = nextLine + done * new
      /\ p.success <=> done = 1
      /\ p.row = IF done = 1 THEN AfterPush(row, ls, r1, after[r1].lines) ELSE row
  <2>1. PICK n, heard : n = 1 /\ heard = TRUE /\ p = Push(o, row, n, heard)
      BY Zenon DEF IsCalmPush
  <2> DEFINE done2 == IF ~known THEN 0 ELSE IF Removed(ls) # {} /\ n > 1 THEN 1 ELSE n
             after2 == IF done2 = 0 THEN store
                       ELSE IF create
                       THEN store \o [k \in 1 .. done2 |->
                                        Obeyed(row, ls, RestOrder(o), fresh1(k), NewFees(row))]
                       ELSE [store EXCEPT ![row.remote] =
                               Obeyed(row, ls, @, UNION {fresh1(k) : k \in 1 .. done2},
                                      done2 * NewFees(row))]
             r2 == IF create THEN Len(after2) ELSE row.remote
  <2>2. /\ p.store = after2 /\ p.nextLine = nextLine + done2 * new
        /\ p.success = (heard /\ done2 = n)
        /\ p.row = IF heard /\ done2 = n THEN AfterPush(row, ls, r2, after2[r2].lines) ELSE row
    <3> HIDE DEF fresh1
    <3> QED
        BY <2>1 DEF Push, fresh1
  <2>3. done2 = done
      BY <2>1
  <2>4. after2 = after /\ r2 = r1
    <3> HIDE DEF done2, done, fresh1
    <3> QED
        BY <2>3
  <2> HIDE DEF after2, after, done2, done, r2, r1
  <2>5. p.success <=> done = 1
      BY <2>1, <2>2, <2>3
  <2>6. p.row = IF done = 1 THEN AfterPush(row, ls, r1, after[r1].lines) ELSE row
      BY <2>1, <2>2, <2>3, <2>4
  <2> QED
      BY <2>2, <2>3, <2>4, <2>5, <2>6
<1> HIDE DEF ls
<1>7. known /\ done = 1
    BY <1>1, <1>5
<1>8. fresh1(1) = lent /\ UNION {fresh1(k) : k \in 1 .. done} = lent
  <2>1. fresh1(1) = nextLine + 0 * new .. nextLine + 1 * new - 1
      OBVIOUS
  <2>2. 0 * new = 0 /\ 1 * new = new /\ nextLine + 0 = nextLine
      BY <1>3, <1>4
  <2>3. fresh1(1) = lent
      BY <2>1, <2>2
  <2>4. 1 .. done = {1}
      BY <1>7
  <2> HIDE DEF fresh1
  <2> QED
      BY <2>3, <2>4
<1>9. NewFees(row) \in {0, 1} /\ 1 * NewFees(row) = NewFees(row)
    BY DEF NewFees
<1> DEFINE s0 == IF create THEN RestOrder(o) ELSE store[row.remote]
<1>10. after = IF create THEN store \o [k \in 1 .. 1 |-> sent] ELSE [store EXCEPT ![row.remote] = sent]
  <2>1. CASE create
    <3>1. \A k \in 1 .. 1 : fresh1(k) = lent
        BY <1>8
    <3>2. [k \in 1 .. 1 |-> Obeyed(row, ls, RestOrder(o), fresh1(k), NewFees(row))] = [k \in 1 .. 1 |-> sent]
        BY <2>1, <3>1
    <3> HIDE DEF fresh1, sent
    <3> QED
        BY <2>1, <3>2, <1>7
  <2>2. CASE ~create
    <3>1. Obeyed(row, ls, store[row.remote], UNION {fresh1(k) : k \in 1 .. done}, done * NewFees(row)) = sent
        BY <2>2, <1>7, <1>8, <1>9
    <3>2. after = [store EXCEPT ![row.remote] =
                     Obeyed(row, ls, store[row.remote], UNION {fresh1(k) : k \in 1 .. done}, done * NewFees(row))]
        BY <2>2, <1>7
    <3> HIDE DEF fresh1, sent, after
    <3> QED
        BY <2>2, <3>1, <3>2
  <2> QED
      BY <2>1, <2>2
<1> HIDE DEF after, fresh1, known, done
<1>11. /\ p.success /\ p.nextLine = nextLine + new /\ p.store = after
       /\ p.row = AfterPush(row, ls, r1, after[r1].lines)
  <2>1. \A k \in Nat : 1 * k = k
      OBVIOUS
  <2>2. done * new = new
      BY <2>1, <1>4, <1>7
  <2> HIDE DEF new, r1
  <2> QED
      BY <2>2, <1>6, <1>7
\* The order of the shop.
<1>12. /\ StoreRow(s0) /\ s0.shipping \in BOOLEAN /\ s0.fees \in Nat
       /\ s0.lines = Ids(ls) \union Removed(ls)
  <2>1. CASE create
    <3>1. PICK s : s = RestOrder(o)
        OBVIOUS
    <3>4. s = [via |-> "rest-api", status |-> "pending", lines |-> {},
               shipping |-> FALSE, fees |-> 0, of |-> o]
        BY <3>1 DEF RestOrder
    <3>5. StoreRow(s) /\ s.lines = {} /\ s.shipping \in BOOLEAN /\ s.fees \in Nat
        BY <3>4 DEF StoreRow
    <3>2. s0 = RestOrder(o)
        BY <2>1
    <3>3. Ids(ls) \union Removed(ls) = {}
        BY <2>1, <1>1 DEF RowMatches
    <3> HIDE DEF s0
    <3> QED
        BY <3>1, <3>2, <3>3, <3>5
  <2>2. CASE ~create
      BY <2>2, <1>1, <1>2 DEF RowMatches, ShopLines, StoreOK
  <2> QED
      BY <2>1, <2>2
<1> HIDE DEF s0
<1>13. /\ StoreRow(sent)
       /\ sent.lines = (s0.lines \ Removed(ls)) \union lent
       /\ sent.fees = s0.fees + NewFees(row)
       /\ sent.shipping \in BOOLEAN /\ (sent.shipping <=> s0.shipping /\ row.fee # "shipping")
  <2>1. sent = Obeyed(row, ls, s0, lent, NewFees(row))
      BY DEF s0
  <2>2. PICK x, f : x = sent /\ f = NewFees(row)
      OBVIOUS
  <2> HIDE DEF sent, lent, ls
  <2>3. x = Obeyed(row, ls, s0, lent, f)
      BY <2>1, <2>2
  <2>4. StoreRow(x)
      BY <2>3, <1>12, ObeyedKeeps
  <2>5. /\ x.lines = (s0.lines \ Removed(ls)) \union lent
        /\ x.fees = s0.fees + f
        /\ x.shipping \in BOOLEAN
        /\ x.shipping <=> s0.shipping /\ row.fee # "shipping"
      BY <2>3, <1>12, ObeyedRow
  <2> QED
      BY <2>2, <2>4, <2>5
<1>14. sent.lines = Ids(ls) \union lent
  <2>1. ASSUME NEW l \in Ids(ls), l \in Removed(ls)
        PROVE  FALSE
    <3>1. PICK i, j \in DOMAIN ls : /\ ls[i].active /\ ~ls[j].active /\ ls[i].id = l
                                    /\ ls[j].id = l /\ l # 0
        BY <2>1 DEF Ids, Removed
    <3> QED
        BY <3>1, <1>1 DEF LinesOK
  <2> HIDE DEF lent, ls
  <2> QED
      BY <2>1, <1>12, <1>13
<1> HIDE DEF sent
<1>15. /\ DOMAIN after = 1 .. Len(after) /\ r1 \in DOMAIN after
       /\ after[r1] = sent
       /\ \A r \in DOMAIN after \ {r1} : r \in DOMAIN store /\ after[r] = store[r]
  <2>1. CASE create
    <3> DEFINE t == [k \in 1 .. 1 |-> sent]
    <3>1. t = [k \in 1 .. 1 |-> t[k]] /\ \A k \in 1 .. 1 : StoreRow(t[k])
        BY <1>13
    <3>2. t[1] = sent
        OBVIOUS
    <3>3. after = store \o t
        BY <2>1, <1>10
    <3> HIDE DEF t
    <3>4. /\ StoreOK(store \o t)
          /\ Len(store \o t) = Len(store) + 1
          /\ \A r \in 1 .. Len(store) : (store \o t)[r] = store[r]
          /\ \A r \in Len(store) + 1 .. Len(store) + 1 : (store \o t)[r] = t[r - Len(store)]
        BY <3>1, <1>2, StoreGrows
    <3>5. r1 = Len(store) + 1 /\ after[r1] = t[1]
      <4>1. r1 = Len(store) + 1 /\ r1 - Len(store) = 1
          BY <2>1, <3>3, <3>4, <1>2
      <4>2. r1 \in Len(store) + 1 .. Len(store) + 1
          BY <4>1, <1>2
      <4> QED
          BY <4>1, <4>2, <3>3, <3>4
    <3>6. DOMAIN after = 1 .. Len(after)
        BY <3>3, <3>4 DEF StoreOK
    <3> QED
        BY <3>2, <3>3, <3>4, <3>5, <3>6, <1>2
  <2>2. CASE ~create
    <3>1. after = [store EXCEPT ![row.remote] = sent] /\ r1 = row.remote /\ r1 \in DOMAIN store
        BY <2>2, <1>2, <1>10
    <3>2. after = [q \in DOMAIN store |-> after[q]] /\ after[r1] = sent
          /\ \A q \in DOMAIN store \ {r1} : after[q] = store[q]
        BY <3>1
    <3>3. StoreRow(after[r1])
        BY <3>2, <1>13
    <3>4. StoreOK(after) /\ Len(after) = Len(store) /\ DOMAIN after = DOMAIN store
      <4>1. PICK v : v = after
          OBVIOUS
      <4>5. PICK r \in DOMAIN store : r = r1
          BY <3>1
      <4>2. v = [q \in DOMAIN store |-> v[q]] /\ StoreRow(v[r])
          BY <3>2, <3>3, <4>1, <4>5
      <4>3. \A q \in DOMAIN store \ {r} : v[q] = store[q]
          BY <3>2, <4>1, <4>5
      <4>4. StoreOK(v) /\ Len(v) = Len(store) /\ DOMAIN v = DOMAIN store
          BY <4>2, <4>3, <1>2, StoreChanges
      <4> QED
          BY <4>1, <4>4
    <3> QED
        BY <3>1, <3>2, <3>4, <1>2
  <2> QED
      BY <2>1, <2>2
<1> HIDE DEF new, lent, r1
<1>16. p.nextLine \in Nat \ {0} /\ nextLine <= p.nextLine
  <2>1. nextLine \in Nat \ {0} /\ new \in Nat /\ p.nextLine = nextLine + new
      BY <1>3, <1>4, <1>11
  <2> QED
      BY <2>1
<1>17. ShopLines(p.store, p.nextLine)
  <2>1. \A l \in 1 .. nextLine - 1 : l \in 1 .. p.nextLine - 1
    <3>1. nextLine \in Nat /\ p.nextLine \in Nat /\ nextLine <= p.nextLine
        BY <1>3, <1>16
    <3> QED
        BY <3>1
  <2>2. lent \subseteq 1 .. p.nextLine - 1
    <3>1. nextLine \in Nat \ {0} /\ new \in Nat /\ p.nextLine = nextLine + new
        BY <1>3, <1>4, <1>11
    <3> QED
        BY <3>1 DEF lent
  <2>3. sent.lines \subseteq 1 .. p.nextLine - 1
      BY <2>1, <2>2, <1>3, <1>14
  <2>4. sent.fees \in Nat
      BY <1>9, <1>12, <1>13
  <2>5. \A r \in DOMAIN store : store[r].lines \subseteq 1 .. p.nextLine - 1
      BY <2>1 DEF ShopLines
  <2>6. \A r \in DOMAIN p.store :
          /\ p.store[r].lines \subseteq 1 .. p.nextLine - 1 /\ p.store[r].fees \in Nat
          /\ p.store[r].shipping \in BOOLEAN
    <3> TAKE r \in DOMAIN p.store
    <3>1. CASE r = r1
        BY <3>1, <2>3, <2>4, <1>11, <1>13, <1>15
    <3>2. CASE r # r1
        BY <3>2, <2>5, <1>11, <1>15 DEF ShopLines
    <3> QED
        BY <3>1, <3>2
  <2> QED
      BY <2>6, <1>16 DEF ShopLines
<1>18. /\ p.row.remote = r1 /\ p.row.status = row.status /\ p.row.billed = row.billed
       /\ p.row.lines = told
       /\ row.fee = "none" => p.row.fee = "none"
       /\ row.fee # "none" => p.row.fee = IF row.status = "cancelled" THEN "new" ELSE "linked"
  <2>1. p.row = AfterPush(row, ls, r1, Ids(ls) \union lent)
      BY <1>11, <1>14, <1>15
  <2>2. PICK x : x = p.row
      OBVIOUS
  <2>3. x = AfterPush(row, ls, r1, Ids(ls) \union lent)
      BY <2>1, <2>2
  <2>4. /\ x.remote = r1 /\ x.status = row.status /\ x.billed = row.billed
        /\ x.lines = LinesAfter(ls, Ids(ls) \union lent)
        /\ row.fee = "none" => x.fee = "none"
        /\ row.fee # "none" => x.fee = IF row.status = "cancelled" THEN "new" ELSE "linked"
      BY <2>3, AfterPushRow
  <2> QED
      BY <2>2, <2>4 DEF told
<1>19. r1 # 0
    BY <1>15
<1>20. row.status # "cancelled" =>
         /\ p.row.fee # "new" /\ ~sent.shipping /\ p.row.fee # "shipping"
         /\ sent.fees = IF p.row.fee = "none" THEN 0 ELSE 1
  <2> SUFFICES ASSUME row.status # "cancelled"
               PROVE  /\ p.row.fee # "new" /\ ~sent.shipping /\ p.row.fee # "shipping"
                      /\ sent.fees = IF p.row.fee = "none" THEN 0 ELSE 1
      OBVIOUS
  <2>1. CASE create
    <3>1. ~s0.shipping /\ s0.fees = 0
        BY <2>1 DEF s0, RestOrder
    <3>2. row.fee \in {"none", "new"}
        BY <2>1 DEF RowMatches
    <3>3. CASE row.fee = "none"
        BY <3>1, <3>3, <1>13, <1>18 DEF NewFees
    <3>4. CASE row.fee = "new"
        BY <3>1, <3>4, <1>13, <1>18 DEF NewFees
    <3> QED
        BY <3>2, <3>3, <3>4
  <2>2. CASE ~create
    <3>1. /\ row.fee # "new" /\ (row.fee = "shipping" <=> s0.shipping)
          /\ s0.fees + (IF s0.shipping THEN 1 ELSE 0) = (IF row.fee = "none" THEN 0 ELSE 1)
        BY <2>2 DEF s0, RowMatches
    <3>2. CASE row.fee = "none"
        BY <3>1, <3>2, <1>12, <1>13, <1>18 DEF NewFees
    <3>3. CASE row.fee = "shipping"
        BY <3>1, <3>3, <1>12, <1>13, <1>18 DEF NewFees
    <3>4. CASE row.fee \notin {"none", "shipping"}
        BY <3>1, <3>4, <1>12, <1>13, <1>18 DEF NewFees
    <3> QED
        BY <3>2, <3>3, <3>4
  <2> QED
      BY <2>1, <2>2
<1>21. RowMatches(p.row, sent) /\ Settled(p.row)
  <2>1. /\ LinesOK(p.row.lines) /\ sent.lines = Ids(p.row.lines) \union Removed(p.row.lines)
        /\ p.row.billed \in BOOLEAN
        /\ Unlinked(p.row.lines, Len(p.row.lines)) = {} /\ Removed(p.row.lines) = {}
      BY <1>4, <1>14, <1>18 DEF RowMatches
  <2>2. row.status # "cancelled" =>
          /\ p.row.fee # "new" /\ (p.row.fee = "shipping" <=> sent.shipping)
          /\ sent.fees + (IF sent.shipping THEN 1 ELSE 0) = (IF p.row.fee = "none" THEN 0 ELSE 1)
    <3>1. CASE row.status = "cancelled"
        BY <3>1
    <3>2. CASE row.status # "cancelled"
      <4>1. /\ p.row.fee # "new" /\ ~sent.shipping /\ p.row.fee # "shipping"
            /\ sent.fees = IF p.row.fee = "none" THEN 0 ELSE 1
          BY <3>2, <1>20
      <4>2. \A k \in {0, 1} : k + 0 = k
          OBVIOUS
      <4>3. sent.fees \in {0, 1}
          BY <4>1
      <4> QED
          BY <4>1, <4>2, <4>3
    <3> QED
        BY <3>1, <3>2
  <2> QED
      BY <2>1, <2>2, <1>18, <1>19 DEF RowMatches, Settled
<1> QED
    BY <1>11, <1>15, <1>16, <1>17, <1>18, <1>19, <1>21

\* One row changes, and keeps its link if it has one.
LEMMA RowChanges ==
    ASSUME NEW st, StoreOK(st), NEW h, NEW n, NEW ed, RowsMatch(h, st, n, ed),
           NEW o \in Orders, NEW row, RowMatches(row, st[row.remote]),
           h[o].remote # 0 => row.remote = h[o].remote,
           NEW g, \A q \in Orders : g[q] = IF q = o THEN row ELSE h[q],
           NEW ed2, ed \subseteq ed2, o \in ed2 \/ Settled(row)
    PROVE  RowsMatch(g, st, n, ed2)
<1>1. Untouched(g, st)
  <2> SUFFICES ASSUME NEW r \in DOMAIN st, \A q \in Orders : g[q].remote # r
               PROVE  st[r].fees = 0 /\ \E l \in Nat \ {0} : st[r].lines = {l}
      BY DEF Untouched
  <2>1. r # 0
      BY DEF StoreOK
  <2>2. \A q \in Orders : h[q].remote # r
      BY <2>1
  <2> QED
      BY <2>2 DEF RowsMatch, Untouched
<1>2. ASSUME NEW q \in Orders
      PROVE  RowMatches(g[q], st[g[q].remote])
  <2>1. CASE q = o
      BY <2>1
  <2>2. CASE q # o
      BY <2>2 DEF RowsMatch
  <2> QED
      BY <2>1, <2>2
<1>3. ASSUME NEW q \in Orders \ ed2, g[q].remote # 0
      PROVE  Settled(g[q])
  <2>1. CASE q = o
      BY <2>1
  <2>2. CASE q # o
      BY <2>2, <1>3 DEF RowsMatch
  <2> QED
      BY <2>1, <2>2
<1> QED
    BY <1>1, <1>2, <1>3 DEF RowsMatch

\* The same rows, whatever holds them.
LEMMA SameRows ==
    ASSUME NEW st, NEW h, NEW n, NEW ed, RowsMatch(h, st, n, ed),
           NEW g, \A q \in Orders : g[q] = h[q]
    PROVE  RowsMatch(g, st, n, ed)
<1>1. Untouched(g, st)
    BY DEF RowsMatch, Untouched
<1> QED
    BY <1>1 DEF RowsMatch

\* What PushFacts says of such a push.
LEMMA CalmPushFacts ==
    ASSUME StoreOK(store), NEW o \in Orders, NEW row, OrderRow(row, Len(store)),
           row.status # "none", NEW p, IsCalmPush(p, o, row)
    PROVE  /\ StoreOK(p.store) /\ Len(p.store) \in Nat /\ Len(store) <= Len(p.store)
           /\ row.remote # 0 => p.row.remote = row.remote /\ Len(p.store) = Len(store)
           /\ \A r \in 1 .. Len(store) : r # row.remote => p.store[r] = store[r]
           /\ row.remote = 0 => p.row.remote = Len(store) + 1 /\ Len(p.store) = Len(store) + 1
<1> DEFINE Facts(n, heard) ==
        /\ StoreOK(p.store) /\ Len(p.store) \in Nat /\ Len(store) <= Len(p.store)
        /\ row.remote # 0 => p.row.remote = row.remote /\ Len(p.store) = Len(store)
        /\ \A r \in 1 .. Len(store) : r # row.remote => p.store[r] = store[r]
        /\ (n = 1 /\ heard /\ row.remote = 0) =>
             p.row.remote = Len(store) + 1 /\ Len(p.store) = Len(store) + 1
<1>1. \A n \in 0 .. 2, heard \in BOOLEAN :
        ((heard => n > 0) /\ p = Push(o, row, n, heard)) => Facts(n, heard)
  <2> TAKE n \in 0 .. 2, heard \in BOOLEAN
  <2> HAVE (heard => n > 0) /\ p = Push(o, row, n, heard)
  <2> QED
      BY PushFacts
<1>2. p = Push(o, row, 1, TRUE)
    BY Zenon DEF IsCalmPush
<1>3. 1 \in 0 .. 2 /\ 1 > 0
    OBVIOUS
<1> HIDE DEF Facts
<1>4. Facts(1, TRUE)
    BY <1>1, <1>2, <1>3, Zenon
<1> QED
    BY <1>4 DEF Facts

\* A calm push of the order o when the rows are h.
LEMMA PushMatches ==
    ASSUME StoreOK(store), calm, NEW h, LinkedRows(h, store), NEW ed,
           RowsMatch(h, store, nextLine, ed),
           NEW o \in Orders, h[o].status # "none", NEW p, IsCalmPush(p, o, h[o]),
           NEW g, \A q \in Orders : g[q] = IF q = o THEN p.row ELSE h[q]
    PROVE  p.success /\ RowsMatch(g, p.store, p.nextLine, ed \ {o})
<1>1. PICK row : row = h[o]
    OBVIOUS
<1>2. /\ OrderRow(row, Len(store)) /\ RowMatches(row, store[row.remote]) /\ row.status # "none"
      /\ IsCalmPush(p, o, row) /\ ShopLines(store, nextLine)
    BY <1>1 DEF LinkedRows, RowsMatch
<1>3. /\ p.success /\ p.nextLine \in Nat /\ nextLine <= p.nextLine
      /\ ShopLines(p.store, p.nextLine)
      /\ RowMatches(p.row, p.store[p.row.remote]) /\ Settled(p.row)
      /\ p.row.remote # 0
    BY <1>2, CalmPush
<1>4. /\ StoreOK(p.store) /\ Len(p.store) \in Nat /\ Len(store) <= Len(p.store)
      /\ row.remote # 0 => p.row.remote = row.remote /\ Len(p.store) = Len(store)
      /\ \A r \in 1 .. Len(store) : r # row.remote => p.store[r] = store[r]
      /\ row.remote = 0 => p.row.remote = Len(store) + 1 /\ Len(p.store) = Len(store) + 1
    BY <1>2, CalmPushFacts
<1>5. Len(store) \in Nat /\ DOMAIN store = 1 .. Len(store) /\ DOMAIN p.store = 1 .. Len(p.store)
    BY <1>4 DEF StoreOK
<1>6. \A q \in Orders \ {o} :
        h[q].remote # row.remote \/ row.remote = 0
    BY <1>1 DEF LinkedRows
<1>7. Untouched(g, p.store)
  <2> SUFFICES ASSUME NEW r \in DOMAIN p.store, \A q \in Orders : g[q].remote # r
               PROVE  p.store[r].fees = 0 /\ \E l \in Nat \ {0} : p.store[r].lines = {l}
      BY DEF Untouched
  <2>1. p.row.remote # r
      OBVIOUS
  <2>2. r \in 1 .. Len(store) /\ r # row.remote
      BY <2>1, <1>4, <1>5
  <2>3. p.store[r] = store[r]
      BY <2>2, <1>4
  <2>4. \A q \in Orders : h[q].remote # r
      BY <2>2, <1>1
  <2> QED
      BY <2>2, <2>3, <2>4, <1>5 DEF RowsMatch, Untouched
<1>8. ASSUME NEW q \in Orders
      PROVE  RowMatches(g[q], p.store[g[q].remote])
  <2>1. CASE q = o
      BY <2>1, <1>3
  <2>2. CASE q # o
    <3>1. g[q] = h[q] /\ h[q].remote \in 0 .. Len(store) /\ RowMatches(h[q], store[h[q].remote])
        BY <2>2 DEF LinkedRows, OrderRow, RowsMatch
    <3>2. CASE h[q].remote = 0
        BY <3>1, <3>2 DEF RowMatches
    <3>3. CASE h[q].remote # 0
      <4>1. h[q].remote \in 1 .. Len(store) /\ h[q].remote # row.remote
          BY <3>1, <3>3, <2>2, <1>5, <1>6
      <4>2. p.store[h[q].remote] = store[h[q].remote]
          BY <4>1, <1>4
      <4> QED
          BY <3>1, <4>2
    <3> QED
        BY <3>2, <3>3
  <2> QED
      BY <2>1, <2>2
<1>9. ASSUME NEW q \in Orders \ (ed \ {o}), g[q].remote # 0
      PROVE  Settled(g[q])
  <2>1. CASE q = o
      BY <2>1, <1>3
  <2>2. CASE q # o
      BY <2>2, <1>9 DEF RowsMatch
  <2> QED
      BY <2>1, <2>2
<1> QED
    BY <1>3, <1>7, <1>8, <1>9 DEF RowsMatch

\* Lines that keep their identifiers, whatever is cancelled.
LEMMA LinesKeep ==
    ASSUME NEW ls, LinesOK(ls), NEW u, u = [i \in DOMAIN ls |-> u[i]],
           \A i \in DOMAIN ls : /\ u[i] \in [active : BOOLEAN, id : Nat]
                                /\ u[i].id = ls[i].id
    PROVE  LinesOK(u) /\ Ids(u) \union Removed(u) = Ids(ls) \union Removed(ls)
           /\ Len(u) = Len(ls) /\ DOMAIN u = DOMAIN ls
<1>1. /\ ls \in Seq([active : BOOLEAN, id : Nat])
      /\ Len(ls) \in Nat /\ DOMAIN ls = 1 .. Len(ls)
      /\ \A i \in DOMAIN ls : ls[i].active \in BOOLEAN
  <2>1. ls \in Seq([active : BOOLEAN, id : Nat])
      BY DEF LinesOK
  <2> QED
      BY <2>1, LinesAre
<1>2. u \in Seq([active : BOOLEAN, id : Nat]) /\ Len(u) = Len(ls) /\ DOMAIN u = DOMAIN ls
  <2> DEFINE T == [active : BOOLEAN, id : Nat]
  <2>1. \A i \in DOMAIN ls : u[i] \in T
      OBVIOUS
  <2> HIDE DEF T
  <2>2. u \in [1 .. Len(ls) -> T]
      BY <2>1, <1>1
  <2>3. u \in Seq(T) /\ Len(u) = Len(ls) /\ DOMAIN u = DOMAIN ls
      BY <2>2, <1>1, SeqOf
  <2> QED
      BY <2>3 DEF T
<1>3. \A i \in DOMAIN ls : u[i].active \in BOOLEAN
    OBVIOUS
<1>4. Ids(u) \union Removed(u) = {u[i].id : i \in DOMAIN u} \ {0}
    BY <1>2, <1>3 DEF Ids, Removed
<1>5. Ids(ls) \union Removed(ls) = {ls[i].id : i \in DOMAIN ls} \ {0}
    BY <1>1 DEF Ids, Removed
<1>6. LinesOK(u)
    BY <1>2 DEF LinesOK
<1>7. {u[i].id : i \in DOMAIN u} = {ls[i].id : i \in DOMAIN ls}
    BY <1>2
<1> QED
    BY <1>2, <1>4, <1>5, <1>6, <1>7

\* The rows when the session holds nothing.
LEMMA MatchIdle ==
    ASSUME job.rows = <<>>, NEW st, NEW n, NEW ed
    PROVE  RowsMatch([o \in Orders |-> Held(o)], st, n, ed) <=> RowsMatch(orders, st, n, ed)
<1>1. DOMAIN job.rows = {}
    OBVIOUS
<1>2. \A o \in Orders : [q \in Orders |-> Held(q)][o] = orders[o]
    BY <1>1 DEF Held
<1>3. PICK h : h = [q \in Orders |-> Held(q)]
    OBVIOUS
<1>4. \A o \in Orders : h[o] = orders[o]
    BY <1>2, <1>3
<1> QED
    BY <1>3, <1>4, SameRows

\* It holds from the start.
LEMMA MatchInit == OrdersInit => MatchInv
<1> SUFFICES ASSUME OrdersInit
             PROVE  MatchInv
    OBVIOUS
<1> USE DEF OrdersInit
<1>1. job.rows = <<>>
    BY NothingHeld
<1>2. DOMAIN store = {} /\ nextLine \in Nat \ {0}
    OBVIOUS
<1>3. \A o \in Orders : orders[o] = NoOrder
    OBVIOUS
<1>4. RowMatches(NoOrder, store[NoOrder.remote]) /\ NoOrder.remote = 0
  <2>1. NoOrder.lines = <<>> /\ NoOrder.remote = 0 /\ NoOrder.fee = "none" /\ NoOrder.billed = FALSE
      BY DEF NoOrder
  <2>2. LinesOK(<<>>) /\ Ids(<<>>) = {} /\ Removed(<<>>) = {}
      BY DEF LinesOK, Ids, Removed
  <2> QED
      BY <2>1, <2>2 DEF RowMatches
<1>5. RowsMatch(orders, store, nextLine, edited)
    BY <1>2, <1>3, <1>4 DEF RowsMatch, ShopLines, Untouched
<1> QED
    BY <1>1, <1>5, MatchIdle DEF MatchInv

\* A row written by a user.
LEMMA MatchEdit ==
    ASSUME OrdersInv, MatchInv, UNCHANGED calm, NEW o \in Orders, NEW row, Edit(o, row),
           row.remote = orders[o].remote,
           (calm /\ ~Replaces) => RowMatches(row, store[row.remote])
    PROVE  MatchInv'
<1> SUFFICES ASSUME calm, ~Replaces
             PROVE  RowsMatch([q \in Orders |-> Held(q)], store, nextLine, edited)'
    BY DEF MatchInv
<1>1. /\ job = NoJob /\ job' = job /\ store' = store /\ nextLine' = nextLine
      /\ orders' = [orders EXCEPT ![o] = row] /\ edited' = edited \union {o}
    BY DEF Edit
<1>2. job.rows = <<>>
    BY <1>1, NothingHeld
<1>3. RowsMatch(orders, store, nextLine, edited)
    BY <1>2, MatchIdle DEF MatchInv
<1>4. \A q \in Orders : orders'[q] = IF q = o THEN row ELSE orders[q]
    BY <1>1 DEF OrdersInv
<1>5. PICK g, ed2 : g = orders' /\ ed2 = edited'
    OBVIOUS
<1>6. RowsMatch(g, store, nextLine, ed2)
  <2>1. edited \subseteq ed2 /\ o \in ed2 /\ StoreOK(store)
      BY <1>1, <1>5 DEF OrdersInv
  <2>2. \A q \in Orders : g[q] = IF q = o THEN row ELSE orders[q]
      BY <1>4, <1>5
  <2> QED
      BY <2>1, <2>2, <1>3, RowChanges
<1>7. DOMAIN job'.rows = {}
    BY <1>1, <1>2
<1>8. \A q \in Orders : [s \in Orders |-> Held(s)']  [q] = g[q]
    BY <1>5, <1>7 DEF Held
<1>9. PICK g2 : g2 = [s \in Orders |-> Held(s)']
    OBVIOUS
<1>10. RowsMatch(g2, store, nextLine, ed2)
    BY <1>6, <1>8, <1>9, SameRows
<1> QED
    BY <1>1, <1>5, <1>9, <1>10 DEF RowsMatch, Untouched

\* A row of a linked order whose lines change.
LEMMA LinesMatch ==
    ASSUME NEW s, NEW n, NEW row, OrderRow(row, n), RowMatches(row, s), row.status # "cancelled",
           NEW ls, LinesOK(ls),
           Ids(ls) \union Removed(ls) = Ids(row.lines) \union Removed(row.lines),
           NEW u, u = [row EXCEPT !.lines = ls], ~Replaces, MayBe(u)
    PROVE  RowMatches(u, s) /\ u.remote = row.remote
<1>1. u = [status |-> row.status, remote |-> row.remote, lines |-> ls,
           fee |-> row.fee, billed |-> row.billed]
    BY DEF OrderRow
<1>2. /\ u.status = row.status /\ u.remote = row.remote /\ u.lines = ls
      /\ u.fee = row.fee /\ u.billed = row.billed
    BY <1>1
<1>3. u.fee # "none" => Unlinked(ls, Len(ls)) = {} \/ Removed(ls) = {}
    BY <1>2 DEF MayBe
<1> QED
    BY <1>2, <1>3 DEF RowMatches

\* An order typed in has nothing in the shop.
LEMMA CreateOrderMatch ==
    ASSUME OrdersInv, MatchInv, UNCHANGED calm, NEW o \in Orders, NEW f, CreateOrder(o, f)
    PROVE  MatchInv'
<1> DEFINE new == <<[active |-> TRUE, id |-> 0]>>
<1>1. PICK row : /\ row = Draft(0, new, IF f THEN "new" ELSE "none")
                 /\ Edit(o, row) /\ orders[o].status = "none"
    BY DEF CreateOrder, Exists
<1>2. orders[o].remote = 0
    BY <1>1 DEF OrdersInv, SessionOK, OrderRow
<1>3. row.remote = 0 /\ row.lines = new /\ row.billed = FALSE /\ row.fee \in {"none", "new"}
    BY <1>1 DEF Draft
<1>4. LinesOK(new) /\ Ids(new) \union Removed(new) = {}
    BY DEF LinesOK, Ids, Removed
<1>5. RowMatches(row, store[row.remote])
    BY <1>3, <1>4 DEF RowMatches
<1> QED
    BY <1>1, <1>2, <1>3, <1>5, MatchEdit

\* A line more.
LEMMA AddLineMatch ==
    ASSUME OrdersInv, MatchInv, UNCHANGED calm, NEW o \in Orders, AddLine(o)
    PROVE  MatchInv'
<1> DEFINE new == [active |-> TRUE, id |-> 0]
<1>1. PICK ls : ls = orders[o].lines
    OBVIOUS
<1>2. PICK u : u = Append(ls, new)
    OBVIOUS
<1>3. PICK row : row = [orders[o] EXCEPT !.lines = u]
    OBVIOUS
<1>4. Edit(o, row) /\ orders[o].status = "draft" /\ MayBe(orders'[o])
    BY <1>1, <1>2, <1>3 DEF AddLine
<1>5. OrderRow(orders[o], Len(store)) /\ orders'[o] = row /\ row.remote = orders[o].remote
  <2>1. OrderRow(orders[o], Len(store)) /\ orders'[o] = row
      BY <1>4 DEF OrdersInv, SessionOK, Edit
  <2> QED
      BY <2>1, <1>3 DEF OrderRow
<1>6. ASSUME calm, ~Replaces
      PROVE  RowMatches(row, store[row.remote])
  <2>1. job.rows = <<>>
      BY <1>4, NothingHeld DEF Edit
  <2>2. RowMatches(orders[o], store[orders[o].remote])
      BY <2>1, <1>6, MatchIdle DEF MatchInv, RowsMatch
  <2>3. LinesOK(ls)
      BY <2>2, <1>1 DEF RowMatches
  <2>4. LinesOK(u) /\ Ids(u) \union Removed(u) = Ids(ls) \union Removed(ls)
    <3> DEFINE T == [active : BOOLEAN, id : Nat]
    <3>1. ls \in Seq(T) /\ new \in T /\ new.active = TRUE /\ new.id = 0
        BY <2>3 DEF LinesOK
    <3>2. Len(ls) \in Nat /\ DOMAIN ls = 1 .. Len(ls)
        BY <3>1, LinesAre
    <3> HIDE DEF T, new
    <3>3. /\ u \in Seq(T) /\ Len(u) = Len(ls) + 1
          /\ \A i \in 1 .. Len(ls) : u[i] = ls[i]
          /\ u[Len(ls) + 1] = new
        BY <3>1, <1>2, AppendProperties
    <3>4. DOMAIN u = 1 .. Len(ls) + 1
        BY <3>2, <3>3
    <3>5. \A i \in DOMAIN u : (i \in DOMAIN ls /\ u[i] = ls[i]) \/ (u[i].id = 0 /\ u[i].active)
      <4> TAKE i \in DOMAIN u
      <4>1. CASE i = Len(ls) + 1
          BY <4>1, <3>1, <3>3
      <4>2. CASE i # Len(ls) + 1
        <5>1. i \in 1 .. Len(ls)
            BY <4>2, <3>2, <3>4
        <5>2. i \in DOMAIN ls /\ u[i] = ls[i]
            BY <5>1, <3>2, <3>3
        <5> QED
            BY <5>2
      <4> QED
          BY <4>1, <4>2
    <3>6. \A i \in DOMAIN ls : i \in DOMAIN u /\ u[i] = ls[i]
        BY <3>2, <3>3, <3>4
    <3>7. LinesOK(u)
        BY <3>3, <3>5, <2>3 DEF LinesOK, T
    <3>8. Ids(u) = Ids(ls)
        BY <3>5, <3>6 DEF Ids
    <3>9. Removed(u) = Removed(ls)
        BY <3>5, <3>6 DEF Removed
    <3> QED
        BY <3>7, <3>8, <3>9
  <2>5. PICK old : old = orders[o]
      OBVIOUS
  <2> QED
      BY <2>2, <2>4, <2>5, <1>1, <1>3, <1>4, <1>5, <1>6, LinesMatch
<1> QED
    BY <1>4, <1>5, <1>6, MatchEdit

\* A line less.
LEMMA CancelLineMatch ==
    ASSUME OrdersInv, MatchInv, UNCHANGED calm, NEW o \in Orders,
           NEW i \in DOMAIN orders[o].lines, CancelLine(o, i)
    PROVE  MatchInv'
<1>1. PICK ls : ls = orders[o].lines
    OBVIOUS
<1>2. PICK u : u = [ls EXCEPT ![i].active = FALSE]
    OBVIOUS
<1>4. OrderRow(orders[o], Len(store))
    BY DEF OrdersInv, SessionOK
<1>3. PICK row : row = [orders[o] EXCEPT !.lines = u]
    OBVIOUS
<1>5. Edit(o, row) /\ orders[o].status = "draft" /\ MayBe(orders'[o])
  <2>1. [orders[o] EXCEPT !.lines[i].active = FALSE] = row
      BY <1>1, <1>2, <1>3
  <2> QED
      BY <2>1 DEF CancelLine
<1>6. orders'[o] = row /\ row.remote = orders[o].remote
  <2>1. orders'[o] = row
      BY <1>5 DEF OrdersInv, Edit
  <2> QED
      BY <2>1, <1>3, <1>4 DEF OrderRow
<1>7. ASSUME calm, ~Replaces
      PROVE  RowMatches(row, store[row.remote])
  <2>1. job.rows = <<>>
      BY <1>5, NothingHeld DEF Edit
  <2>2. RowMatches(orders[o], store[orders[o].remote])
      BY <2>1, <1>7, MatchIdle DEF MatchInv, RowsMatch
  <2>3. LinesOK(ls)
      BY <2>2, <1>1 DEF RowMatches
  <2>4. LinesOK(u) /\ Ids(u) \union Removed(u) = Ids(ls) \union Removed(ls)
    <3>1. ls \in Seq([active : BOOLEAN, id : Nat])
        BY <2>3 DEF LinesOK
    <3>2. \A k \in DOMAIN ls : /\ ls[k] \in [active : BOOLEAN, id : Nat]
                               /\ ls[k] = [active |-> ls[k].active, id |-> ls[k].id]
                               /\ ls[k].id \in Nat
        BY <3>1, LinesAre
    <3>3. u = [k \in DOMAIN ls |-> u[k]] /\ \A k \in DOMAIN ls \ {i} : u[k] = ls[k]
        BY <1>2
    <3>4. u[i] = [active |-> FALSE, id |-> ls[i].id]
      <4>1. u[i] = [ls[i] EXCEPT !.active = FALSE]
          BY <1>1, <1>2
      <4> QED
          BY <4>1, <3>2, <1>1
    <3>5. u[i] \in [active : BOOLEAN, id : Nat] /\ u[i].id = ls[i].id
      <4>1. PICK b \in BOOLEAN, l \in Nat : b = FALSE /\ l = ls[i].id
          BY <3>2, <1>1
      <4>2. PICK v : v = u[i]
          OBVIOUS
      <4>3. v = [active |-> b, id |-> l]
          BY <3>4, <4>1, <4>2
      <4>4. v \in [active : BOOLEAN, id : Nat] /\ v.id = l
          BY <4>3, LineType
      <4> QED
          BY <4>1, <4>2, <4>4
    <3>6. \A k \in DOMAIN ls : u[k] \in [active : BOOLEAN, id : Nat] /\ u[k].id = ls[k].id
        BY <3>2, <3>3, <3>5
    <3> QED
        BY <3>3, <3>6, <2>3, LinesKeep
  <2>5. PICK old : old = orders[o]
      OBVIOUS
  <2> QED
      BY <2>2, <2>4, <2>5, <1>1, <1>3, <1>4, <1>5, <1>6, <1>7, LinesMatch
<1> QED
    BY <1>5, <1>6, <1>7, MatchEdit

\* An invoice changes nothing of what a push sends.
LEMMA BillMatch ==
    ASSUME OrdersInv, MatchInv, UNCHANGED calm, NEW o \in Orders, Bill(o)
    PROVE  MatchInv'
<1>1. PICK old : old = orders[o]
    OBVIOUS
<1>2. PICK row : row = [old EXCEPT !.status = "billed", !.billed = TRUE]
    OBVIOUS
<1>3. Edit(o, row) /\ old.status = "draft"
    BY <1>1, <1>2 DEF Bill
<1>4. OrderRow(old, Len(store))
    BY <1>1 DEF OrdersInv, SessionOK
<1>5. row = [status |-> "billed", remote |-> old.remote, lines |-> old.lines,
             fee |-> old.fee, billed |-> TRUE]
    BY <1>2, <1>4 DEF OrderRow
<1>6. /\ row.status = "billed" /\ row.remote = old.remote /\ row.lines = old.lines
      /\ row.fee = old.fee /\ row.billed = TRUE
    BY <1>5
<1>7. ASSUME calm, ~Replaces
      PROVE  RowMatches(row, store[row.remote])
  <2>1. job.rows = <<>>
      BY <1>3, NothingHeld DEF Edit
  <2>2. RowMatches(old, store[old.remote])
      BY <2>1, <1>1, <1>7, MatchIdle DEF MatchInv, RowsMatch
  <2> QED
      BY <2>2, <1>3, <1>6 DEF RowMatches
<1> QED
    BY <1>1, <1>3, <1>6, <1>7, MatchEdit

\* A cancelled order keeps the identifiers of its lines, until a push.
LEMMA CancelledMatches ==
    ASSUME NEW s, NEW n, NEW old, OrderRow(old, n), RowMatches(old, s),
           NEW row, row = Cancelled(old)
    PROVE  RowMatches(row, s) /\ row.remote = old.remote
<1>1. PICK ls : ls = old.lines
    OBVIOUS
<1>2. PICK u : u = [i \in DOMAIN ls |-> [ls[i] EXCEPT !.active = old.billed /\ @]]
    OBVIOUS
<1>3. old = [status |-> old.status, remote |-> old.remote, lines |-> ls,
             fee |-> old.fee, billed |-> old.billed]
    BY <1>1 DEF OrderRow
<1>4. row = [old EXCEPT !.status = "cancelled", !.lines = u]
  <2>1. u = [i \in DOMAIN old.lines |-> [old.lines[i] EXCEPT !.active = old.billed /\ @]]
      BY <1>1, <1>2
  <2>2. row = [old EXCEPT !.status = "cancelled",
                 !.lines = [i \in DOMAIN old.lines |-> [old.lines[i] EXCEPT !.active = old.billed /\ @]]]
      BY Zenon DEF Cancelled
  <2> QED
      BY <2>1, <2>2, Zenon
<1>5. row = [status |-> "cancelled", remote |-> old.remote, lines |-> u,
             fee |-> old.fee, billed |-> old.billed]
    BY <1>3, <1>4
<1>6. /\ row.status = "cancelled" /\ row.remote = old.remote /\ row.lines = u
      /\ row.fee = old.fee /\ row.billed = old.billed
    BY <1>5
<1>7. LinesOK(ls) /\ old.billed \in BOOLEAN
    BY <1>1 DEF RowMatches
<1>8. /\ ls \in Seq([active : BOOLEAN, id : Nat])
      /\ Len(ls) \in Nat /\ DOMAIN ls = 1 .. Len(ls)
      /\ \A i \in DOMAIN ls : /\ ls[i] = [active |-> ls[i].active, id |-> ls[i].id]
                              /\ ls[i].active \in BOOLEAN /\ ls[i].id \in Nat
  <2>1. ls \in Seq([active : BOOLEAN, id : Nat])
      BY <1>7 DEF LinesOK
  <2> QED
      BY <2>1, LinesAre
<1>9. \A i \in DOMAIN ls : /\ u[i] \in [active : BOOLEAN, id : Nat]
                           /\ u[i].id = ls[i].id
                           /\ u[i].active <=> old.billed /\ ls[i].active
  <2> TAKE i \in DOMAIN ls
  <2>1. PICK b \in BOOLEAN : b = (old.billed /\ ls[i].active)
      OBVIOUS
  <2>2. PICK l \in Nat : l = ls[i].id
      BY <1>8
  <2>3. u[i] = [ls[i] EXCEPT !.active = b]
      BY <2>1, <1>2, Zenon
  <2>4. PICK v, w : v = u[i] /\ w = ls[i].active
      OBVIOUS
  <2>5. ls[i] = [active |-> w, id |-> l]
      BY <2>2, <2>4, <1>8
  <2>6. v = [active |-> b, id |-> l]
      BY <2>3, <2>4, <2>5
  <2>7. v \in [active : BOOLEAN, id : Nat] /\ v.active = b /\ v.id = l
      BY <2>6, LineType
  <2> QED
      BY <2>1, <2>2, <2>4, <2>7
<1>10. /\ LinesOK(u) /\ Ids(u) \union Removed(u) = Ids(ls) \union Removed(ls)
       /\ Len(u) = Len(ls)
  <2>1. u = [i \in DOMAIN ls |-> u[i]]
      BY <1>2
  <2>2. \A i \in DOMAIN ls : /\ u[i] \in [active : BOOLEAN, id : Nat]
                             /\ u[i].id = ls[i].id
      BY <1>9
  <2> QED
      BY <2>1, <2>2, <1>7, LinesKeep
<1>11. (row.remote # 0 /\ row.fee # "none") =>
         Unlinked(u, Len(u)) = {} \/ Removed(u) = {}
  <2> SUFFICES ASSUME old.remote # 0, old.fee # "none"
               PROVE  Unlinked(u, Len(u)) = {} \/ Removed(u) = {}
      BY <1>6
  <2>1. Unlinked(ls, Len(ls)) = {} \/ Removed(ls) = {}
      BY <1>1 DEF RowMatches
  <2>2. CASE old.billed
    <3>1. \A i \in DOMAIN ls : u[i].id = ls[i].id /\ (u[i].active <=> ls[i].active)
        BY <2>2, <1>9
    <3>2. DOMAIN u = DOMAIN ls
        BY <1>2
    <3>3. Unlinked(u, Len(u)) = Unlinked(ls, Len(ls))
        BY <3>1, <1>8, <1>10 DEF Unlinked
    <3>4. Removed(u) = Removed(ls)
        BY <3>1, <3>2 DEF Removed
    <3> QED
        BY <3>3, <3>4, <2>1
  <2>3. CASE ~old.billed
    <3>1. \A i \in 1 .. Len(u) : ~u[i].active
        BY <2>3, <1>8, <1>9, <1>10
    <3> QED
        BY <3>1 DEF Unlinked
  <2> QED
      BY <2>2, <2>3
<1> QED
    BY <1>1, <1>6, <1>7, <1>10, <1>11 DEF RowMatches

\* A cancelled order is edited.
LEMMA CancelOrderMatch ==
    ASSUME OrdersInv, MatchInv, UNCHANGED calm, NEW o \in Orders, CancelOrder(o)
    PROVE  MatchInv'
<1>1. PICK old, row : old = orders[o] /\ row = Cancelled(old)
    OBVIOUS
<1>2. Edit(o, row)
    BY <1>1 DEF CancelOrder
<1>3. OrderRow(old, Len(store))
    BY <1>1 DEF OrdersInv, SessionOK
<1>4. row.remote = old.remote
  <2>1. PICK ls : Cancelled(old) = [old EXCEPT !.status = "cancelled", !.lines = ls]
      BY DEF Cancelled
  <2> QED
      BY <2>1, <1>1, <1>3 DEF OrderRow
<1>5. ASSUME calm, ~Replaces
      PROVE  RowMatches(row, store[row.remote])
  <2>1. job.rows = <<>>
      BY <1>2, NothingHeld DEF Edit
  <2>2. RowMatches(old, store[old.remote])
      BY <2>1, <1>1, <1>5, MatchIdle DEF MatchInv, RowsMatch
  <2>3. RowMatches(row, store[old.remote])
      BY <2>2, <1>1, <1>3, CancelledMatches
  <2> QED
      BY <2>3, <1>4
<1> QED
    BY <1>1, <1>2, <1>4, <1>5, MatchEdit

(* What the customers do to it.                                            *)

\* The shop has more orders, or other ones, than those the rows know.
LEMMA ShopChanges ==
    ASSUME StoreOK(store), NEW h, NEW n \in Nat, NEW ed, RowsMatch(h, store, n, ed),
           \A o \in Orders : h[o].remote \in 0 .. Len(store),
           NEW st, ShopLines(st, n), DOMAIN store \subseteq DOMAIN st,
           \A r \in DOMAIN store : /\ st[r].lines = store[r].lines /\ st[r].fees = store[r].fees
                                   /\ st[r].shipping = store[r].shipping,
           \A r \in DOMAIN st \ DOMAIN store :
             st[r].fees = 0 /\ \E l \in Nat \ {0} : st[r].lines = {l}
    PROVE  RowsMatch(h, st, n, ed)
<1>1. DOMAIN store = 1 .. Len(store) /\ Len(store) \in Nat
    BY DEF StoreOK
<1>2. Untouched(h, st)
    BY DEF RowsMatch, Untouched
<1>3. ASSUME NEW o \in Orders
      PROVE  RowMatches(h[o], st[h[o].remote])
  <2>1. RowMatches(h[o], store[h[o].remote])
      BY DEF RowsMatch
  <2>2. CASE h[o].remote = 0
      BY <2>1, <2>2 DEF RowMatches
  <2>3. CASE h[o].remote # 0
    <3>1. PICK r \in DOMAIN store : r = h[o].remote
        BY <2>3, <1>1
    <3>2. PICK s, s2 : s = store[r] /\ s2 = st[r]
        OBVIOUS
    <3>3. s2.lines = s.lines /\ s2.fees = s.fees /\ s2.shipping = s.shipping
        BY <3>2
    <3> QED
        BY <3>1, <3>2, <3>3, <2>1 DEF RowMatches
  <2> QED
      BY <2>2, <2>3
<1> QED
    BY <1>2, <1>3 DEF RowsMatch

\* More identifiers are given.
LEMMA MoreLines ==
    ASSUME NEW st, NEW h, NEW n, NEW ed, RowsMatch(h, st, n, ed), NEW m \in Nat, n <= m
    PROVE  RowsMatch(h, st, m, ed)
<1>1. n \in Nat \ {0} /\ m \in Nat \ {0}
    BY DEF RowsMatch, ShopLines
<1>2. \A l \in 1 .. n - 1 : l \in 1 .. m - 1
    BY <1>1
<1>3. ShopLines(st, m)
    BY <1>1, <1>2 DEF RowsMatch, ShopLines
<1> QED
    BY <1>3 DEF RowsMatch

\* What a step has to show.
LEMMA MatchThen ==
    ASSUME UNCHANGED calm, NEW g, NEW st, NEW n, NEW ed,
           (calm /\ ~Replaces) => RowsMatch(g, st, n, ed),
           \A q \in Orders : Held(q)' = g[q],
           store' = st, nextLine' = n, edited' = ed
    PROVE  MatchInv'
<1> SUFFICES ASSUME calm, ~Replaces
             PROVE  RowsMatch([q \in Orders |-> Held(q)], store, nextLine, edited)'
    BY DEF MatchInv
<1>1. PICK g2 : g2 = [q \in Orders |-> Held(q)']
    OBVIOUS
<1>2. \A q \in Orders : g2[q] = g[q]
    BY <1>1
<1>3. RowsMatch(g2, st, n, ed)
    BY <1>2, SameRows
<1> QED
    BY <1>1, <1>3 DEF RowsMatch, Untouched

\* What holds before it.
LEMMA MatchHeld ==
    ASSUME OrdersInv, MatchInv, calm, ~Replaces
    PROVE  /\ RowsMatch([q \in Orders |-> Held(q)], store, nextLine, edited)
           /\ LinkedRows([q \in Orders |-> Held(q)], store)
           /\ \A q \in Orders : Held(q).remote \in 0 .. Len(store)
<1>1. PICK h : h = [q \in Orders |-> Held(q)]
    OBVIOUS
<1>2. \A q \in Orders : h[q] = Held(q)
    BY <1>1
<1>3. RowsMatch(h, store, nextLine, edited)
    BY <1>1 DEF MatchInv
<1>4. \A r \in DOMAIN store : store[r].via = "rest-api" => store[r].of \in Orders
    BY DEF OrdersInv, StoreOK, StoreRow
<1>5. LinkedRows(h, store)
    BY <1>2, <1>4 DEF OrdersInv, SessionOK, CopiesAreLinked, LinkedRows
<1>6. \A q \in Orders : Held(q).remote \in 0 .. Len(store)
    BY DEF OrdersInv, SessionOK, OrderRow
<1> QED
    BY <1>1, <1>3, <1>5, <1>6

\* A step that changes neither rows nor shop.
LEMMA MatchStays ==
    ASSUME OrdersInv, MatchInv, UNCHANGED <<calm, store, nextLine, edited>>,
           \A q \in Orders : Held(q)' = Held(q)
    PROVE  MatchInv'
<1>1. PICK h : h = [q \in Orders |-> Held(q)]
    OBVIOUS
<1>2. \A q \in Orders : Held(q)' = h[q]
    BY <1>1
<1>3. (calm /\ ~Replaces) => RowsMatch(h, store, nextLine, edited)
    BY <1>1 DEF MatchInv
<1> QED
    BY <1>2, <1>3, MatchThen

\* An order placed in the shop is as its customer left it.
LEMMA NewStoreOrderMatch ==
    ASSUME OrdersInv, MatchInv, UNCHANGED calm, NEW f \in Fees, NewStoreOrder(f)
    PROVE  MatchInv'
<1>1. PICK s : /\ s = [via |-> "store-api", status |-> "pending", lines |-> {nextLine},
                       shipping |-> f, fees |-> 0, of |-> Absent]
               /\ store' = Append(store, s)
    BY DEF NewStoreOrder
<1>2. /\ UNCHANGED <<orders, edited, job>> /\ nextLine' = nextLine + 1
      /\ StoreOK(store) /\ Len(store) \in Nat /\ DOMAIN store = 1 .. Len(store)
    BY DEF NewStoreOrder, OrdersInv, StoreOK
<1>3. PICK b \in BOOLEAN : b = f
    BY WooOrdersAssumption
<1>4. s.lines = {nextLine} /\ s.fees = 0 /\ s.shipping = b
    BY <1>1, <1>3
<1>5. PICK st : st = store'
    OBVIOUS
<1>6. /\ DOMAIN st = 1 .. Len(store) + 1
      /\ \A r \in 1 .. Len(store) : st[r] = store[r]
      /\ st[Len(store) + 1] = s
  <2> DEFINE S == Elems(store) \union {s}
  <2>1. store \in Seq(S) /\ s \in S
      BY <1>2 DEF StoreOK, Elems
  <2> HIDE DEF S
  <2>2. /\ st \in Seq(S) /\ Len(st) = Len(store) + 1
        /\ \A r \in 1 .. Len(store) : st[r] = store[r]
        /\ st[Len(store) + 1] = s
      BY <1>1, <1>5, <2>1, AppendProperties
  <2> QED
      BY <2>2
<1>7. \A q \in Orders : Held(q)' = Held(q)
    BY <1>2 DEF Held
<1>8. PICK h : h = [q \in Orders |-> Held(q)]
    OBVIOUS
<1>9. ASSUME calm, ~Replaces
      PROVE  RowsMatch(h, st, nextLine + 1, edited)
  <2>1. RowsMatch(h, store, nextLine, edited) /\ \A q \in Orders : h[q].remote \in 0 .. Len(store)
      BY <1>8, <1>9, MatchHeld
  <2>2. nextLine \in Nat \ {0}
      BY <2>1 DEF RowsMatch, ShopLines
  <2>3. nextLine + 1 \in Nat /\ nextLine <= nextLine + 1
      BY <2>2
  <2>4. RowsMatch(h, store, nextLine + 1, edited)
      BY <2>1, <2>3, MoreLines
  <2>5. ShopLines(st, nextLine + 1)
    <3>1. \A r \in 1 .. Len(store) :
            /\ st[r].lines \subseteq 1 .. (nextLine + 1) - 1
            /\ st[r].fees \in Nat /\ st[r].shipping \in BOOLEAN
        BY <2>4, <1>2, <1>6 DEF RowsMatch, ShopLines
    <3>2. LET x == st[Len(store) + 1] IN
          /\ x.lines \subseteq 1 .. (nextLine + 1) - 1
          /\ x.fees \in Nat /\ x.shipping \in BOOLEAN
        BY <2>2, <1>4, <1>6
    <3> QED
        BY <3>1, <3>2, <2>2, <1>2, <1>6 DEF ShopLines
  <2>6. \A r \in DOMAIN st \ DOMAIN store :
          st[r].fees = 0 /\ \E l \in Nat \ {0} : st[r].lines = {l}
    <3>1. \A r \in DOMAIN st \ DOMAIN store : r = Len(store) + 1
        BY <1>2, <1>6
    <3> QED
        BY <3>1, <2>2, <1>4, <1>6
  <2>7. DOMAIN store \subseteq DOMAIN st
      BY <1>2, <1>6
  <2>8. \A r \in DOMAIN store : /\ st[r].lines = store[r].lines /\ st[r].fees = store[r].fees
                                /\ st[r].shipping = store[r].shipping
      BY <1>2, <1>6
  <2>9. PICK m \in Nat : m = nextLine + 1
      BY <2>3
  <2>10. RowsMatch(h, st, m, edited)
      BY <2>1, <2>4, <2>5, <2>6, <2>7, <2>8, <2>9, <1>2, ShopChanges
  <2> QED
      BY <2>9, <2>10
<1>10. \A q \in Orders : Held(q)' = h[q]
    BY <1>7, <1>8
<1> QED
    BY <1>2, <1>5, <1>9, <1>10, MatchThen

\* A customer who cancels changes no line and no fee.
LEMMA CancelByCustomerMatch ==
    ASSUME OrdersInv, MatchInv, UNCHANGED calm, NEW q \in DOMAIN store, CancelByCustomer(q)
    PROVE  MatchInv'
<1>1. /\ UNCHANGED <<orders, edited, job, nextLine>>
      /\ StoreOK(store) /\ store' = [store EXCEPT ![q].status = "cancelled"]
    BY DEF CancelByCustomer, OrdersInv
<1>2. PICK st : st = store'
    OBVIOUS
<1>3. /\ DOMAIN st = DOMAIN store
      /\ \A r \in DOMAIN store : /\ st[r].lines = store[r].lines /\ st[r].fees = store[r].fees
                                 /\ st[r].shipping = store[r].shipping
  <2>1. store[q] = [via |-> store[q].via, status |-> store[q].status, lines |-> store[q].lines,
                    shipping |-> store[q].shipping, fees |-> store[q].fees, of |-> store[q].of]
      BY <1>1 DEF StoreOK, StoreRow
  <2>2. st[q] = [store[q] EXCEPT !.status = "cancelled"]
      BY <1>1, <1>2
  <2>3. /\ st[q].lines = store[q].lines /\ st[q].fees = store[q].fees
        /\ st[q].shipping = store[q].shipping
      BY <2>1, <2>2
  <2>4. DOMAIN st = DOMAIN store /\ \A r \in DOMAIN store \ {q} : st[r] = store[r]
      BY <1>1, <1>2
  <2> QED
      BY <2>3, <2>4
<1>4. PICK h : h = [o \in Orders |-> Held(o)]
    OBVIOUS
<1>5. \A o \in Orders : Held(o)' = h[o]
    BY <1>1, <1>4 DEF Held
<1>6. ASSUME calm, ~Replaces
      PROVE  RowsMatch(h, st, nextLine, edited)
  <2>1. RowsMatch(h, store, nextLine, edited) /\ \A o \in Orders : h[o].remote \in 0 .. Len(store)
      BY <1>4, <1>6, MatchHeld
  <2>2. nextLine \in Nat /\ ShopLines(store, nextLine)
      BY <2>1 DEF RowsMatch, ShopLines
  <2>3. ShopLines(st, nextLine)
      BY <2>2, <1>3 DEF ShopLines
  <2>4. DOMAIN store \subseteq DOMAIN st /\ DOMAIN st \ DOMAIN store = {}
      BY <1>3
  <2> QED
      BY <2>1, <2>2, <2>3, <2>4, <1>1, <1>3, ShopChanges
<1> QED
    BY <1>1, <1>2, <1>5, <1>6, MatchThen

(* What a push does to it.                                                 *)

\* The calls of a calm behaviour.
LEMMA CalmCalls ==
    ASSUME calm, NEW c \in Calls, NEW o, NEW row, NEW p, p = Push(o, row, c[1], c[2])
    PROVE  IsCalmPush(p, o, row)
<1>1. c = <<1, TRUE>>
    BY DEF Calls
<1>2. c[1] = 1 /\ c[2] = TRUE
    BY <1>1
<1> QED
    BY <1>2, Zenon DEF IsCalmPush

\* The push of the order o when the rows are h and the steps leaves the rows g.
LEMMA PushedMatch ==
    ASSUME StoreOK(store), UNCHANGED calm, NEW o \in Orders, NEW c \in Calls,
           NEW row, NEW p, p = Push(o, row, c[1], c[2]), Pushed(o, p),
           NEW h,
           (calm /\ ~Replaces) =>
             LinkedRows(h, store) /\ RowsMatch(h, store, nextLine, edited),
           h[o] = row, row.status # "none",
           \A q \in Orders : Held(q)' = IF q = o THEN p.row ELSE h[q]
    PROVE  MatchInv'
<1>1. store' = p.store /\ nextLine' = p.nextLine
      /\ edited' = IF p.success THEN edited \ {o} ELSE edited
    BY DEF Pushed
<1>2. PICK g : g = [q \in Orders |-> Held(q)']
    OBVIOUS
<1>3. \A q \in Orders : Held(q)' = g[q] /\ g[q] = IF q = o THEN p.row ELSE h[q]
    BY <1>2
<1>4. PICK ed : ed = edited'
    OBVIOUS
<1>5. ASSUME calm, ~Replaces
      PROVE  RowsMatch(g, p.store, p.nextLine, ed)
  <2>1. IsCalmPush(p, o, h[o]) /\ h[o].status # "none"
      BY <1>5, CalmCalls
  <2>2. \A q \in Orders : g[q] = IF q = o THEN p.row ELSE h[q]
      BY <1>3
  <2>3. LinkedRows(h, store) /\ RowsMatch(h, store, nextLine, edited)
      BY <1>5
  <2>4. p.success /\ RowsMatch(g, p.store, p.nextLine, edited \ {o})
      BY <2>1, <2>2, <2>3, <1>5, PushMatches
  <2>5. ed = edited \ {o}
      BY <2>4, <1>1, <1>4
  <2> QED
      BY <2>4, <2>5
<1> QED
    BY <1>1, <1>3, <1>4, <1>5, MatchThen

\* A push from a tab.
LEMMA PushFromTabMatch ==
    ASSUME OrdersInv, MatchInv, UNCHANGED calm, NEW o \in Orders, NEW c \in Calls,
           PushFromTab(o, c)
    PROVE  MatchInv'
<1>1. PICK row : row = orders[o]
    OBVIOUS
<1>2. PICK p : p = Push(o, row, c[1], c[2])
    OBVIOUS
<1>3. /\ Pushed(o, p) /\ orders' = [orders EXCEPT ![o] = p.row]
      /\ job = NoJob /\ row.status # "none" /\ UNCHANGED job
    BY <1>1, <1>2 DEF PushFromTab, Exists
<1>4. DOMAIN job.rows = {} /\ DOMAIN orders = Orders /\ StoreOK(store)
    BY <1>3, NothingHeld DEF OrdersInv
<1>5. PICK h : h = [q \in Orders |-> Held(q)]
    OBVIOUS
<1>6. \A q \in Orders : h[q] = orders[q] /\ Held(q)' = IF q = o THEN p.row ELSE h[q]
    BY <1>3, <1>4, <1>5 DEF Held
<1>7. (calm /\ ~Replaces) =>
        LinkedRows(h, store) /\ RowsMatch(h, store, nextLine, edited)
    BY <1>5, MatchHeld
<1>8. h[o] = row
    BY <1>1, <1>6
<1> QED
    BY <1>2, <1>3, <1>4, <1>6, <1>7, <1>8, PushedMatch

\* A push of the task.
LEMMA PushRecentMatch ==
    ASSUME OrdersInv, MatchInv, UNCHANGED calm, NEW o \in Orders, NEW c \in Calls,
           PushRecent(o, c)
    PROVE  MatchInv'
<1>1. PICK row : row = Held(o)
    OBVIOUS
<1>2. PICK p : p = Push(o, row, c[1], c[2])
    OBVIOUS
<1>3. /\ Pushed(o, p) /\ job' = [job EXCEPT !.todo = @ \ {o}, !.rows = Written(o, p.row)]
      /\ job.step = "push" /\ o \in job.todo /\ UNCHANGED orders
      /\ DOMAIN orders = Orders /\ StoreOK(store) /\ JobRow(job)
    BY <1>1, <1>2 DEF PushRecent, OrdersInv
<1>4. job = [step |-> job.step, todo |-> job.todo, rows |-> job.rows, alerts |-> job.alerts]
      /\ DOMAIN job.rows \subseteq Orders
    BY <1>3 DEF JobRow
<1>5. job'.rows = Written(o, p.row) /\ JobRow(job')
  <2>1. job' = [step |-> "push", todo |-> job.todo \ {o}, rows |-> Written(o, p.row),
                alerts |-> job.alerts]
      BY <1>3, <1>4
  <2> QED
      BY <2>1, <1>4 DEF JobRow, Written
<1>6. \A q \in Orders : Held(q)' = IF q = o THEN p.row ELSE Held(q)
    BY <1>3, <1>5, HeldAfter
<1>7. PICK h : h = [q \in Orders |-> Held(q)]
    OBVIOUS
<1>8. \A q \in Orders : h[q] = Held(q) /\ Held(q)' = IF q = o THEN p.row ELSE h[q]
    BY <1>6, <1>7
<1>9. row.status # "none"
  <2>1. orders[o].status # "none"
      BY <1>3 DEF OrdersInv, TodoOK, Exists
  <2> QED
      BY <2>1, <1>1 DEF OrdersInv, SessionOK, Held
<1>10. (calm /\ ~Replaces) =>
         LinkedRows(h, store) /\ RowsMatch(h, store, nextLine, edited)
    BY <1>7, MatchHeld
<1>11. h[o] = row
    BY <1>1, <1>8
<1> QED
    BY <1>2, <1>3, <1>8, <1>9, <1>10, <1>11, PushedMatch

\* An order of the shop that no row has, as a new row.
LEMMA ImportedMatches ==
    ASSUME NEW x, NEW l \in Nat \ {0}, NEW b \in BOOLEAN, store[x.id].lines = {l},
           store[x.id].shipping = b, store[x.id].fees = 0, x.id # 0
    PROVE  LET u == Imported(x) IN
           u.remote = x.id /\ RowMatches(u, store[x.id]) /\ Settled(u)
<1>1. PICK ids : ids = Ascending(store[x.id].lines)
    OBVIOUS
<1>2. PICK ls : ls = [i \in DOMAIN ids |-> [active |-> TRUE, id |-> ids[i]]]
    OBVIOUS
<1>3. PICK f : f = IF b THEN "shipping" ELSE "none"
    OBVIOUS
<1>4. PICK u : u = Imported(x)
    OBVIOUS
<1>5. u = [status |-> "draft", remote |-> x.id, lines |-> ls, fee |-> f, billed |-> FALSE]
    BY <1>1, <1>2, <1>3, <1>4 DEF Imported, Draft
<1>6. /\ u.status = "draft" /\ u.remote = x.id /\ u.lines = ls /\ u.fee = f
      /\ u.billed \in BOOLEAN
    BY <1>5
<1>7. ids = [i \in 1 .. 1 |-> l]
    BY <1>1, AscendingSingle
<1>8. PICK t \in BOOLEAN : t = TRUE
    OBVIOUS
<1>9. DOMAIN ls = 1 .. 1 /\ ls[1] = [active |-> t, id |-> l] /\ ls = [i \in 1 .. 1 |-> ls[i]]
    BY <1>2, <1>7, <1>8
<1>10. PICK v : v = ls[1]
    OBVIOUS
<1>11. v \in [active : BOOLEAN, id : Nat] /\ v.active = t /\ v.id = l
    BY <1>9, <1>10, LineType
<1>12. ls \in Seq([active : BOOLEAN, id : Nat]) /\ Len(ls) = 1
  <2> DEFINE T == [active : BOOLEAN, id : Nat]
  <2>1. \A i \in 1 .. 1 : ls[i] = v
      BY <1>10
  <2>2. v \in T
      BY <1>11
  <2> HIDE DEF T
  <2>3. ls \in [1 .. 1 -> T]
      BY <2>1, <2>2, <1>9
  <2>4. ls \in Seq(T) /\ Len(ls) = 1
      BY <2>3, SeqOf
  <2> QED
      BY <2>4 DEF T
<1>13. \A i \in DOMAIN ls : i = 1 /\ ls[i].active /\ ls[i].id = l
    BY <1>8, <1>9, <1>10, <1>11
<1>14. LinesOK(ls)
    BY <1>12, <1>13 DEF LinesOK
<1>15. 1 \in DOMAIN ls
    BY <1>9
<1>16. Ids(ls) = {l} /\ Removed(ls) = {}
    BY <1>13, <1>15 DEF Ids, Removed
<1>17. Unlinked(ls, Len(ls)) = {}
    BY <1>9, <1>12, <1>13 DEF Unlinked
<1>18. RowMatches(u, store[x.id])
    BY <1>3, <1>6, <1>14, <1>16, <1>17 DEF RowMatches
<1> QED
    BY <1>4, <1>6, <1>16, <1>17, <1>18 DEF Settled

(* What the task does to it.                                               *)

\* A new row for an order of the shop that no row has, and its push.
LEMMA CreateFromStoreMatch ==
    ASSUME OrdersInv, MatchInv, UNCHANGED calm, NEW c \in Calls, CreateFromStore(c)
    PROVE  MatchInv'
<1>1. /\ job.step = "store" /\ job.todo # {}
      /\ \A o \in Orders : Held(o).remote # Latest.id
      /\ StoreOK(store) /\ Len(store) \in Nat /\ DOMAIN store = 1 .. Len(store)
      /\ DOMAIN orders = Orders /\ JobRow(job)
  <2>1. job.step = "store" /\ job.todo # {} /\ \A o \in Orders : Held(o).remote # Latest.id
      BY Zenon DEF CreateFromStore
  <2>2. /\ StoreOK(store) /\ Len(store) \in Nat /\ DOMAIN store = 1 .. Len(store)
        /\ DOMAIN orders = Orders /\ JobRow(job)
      BY DEF OrdersInv, StoreOK
  <2> QED
      BY <2>1, <2>2
<1>2. PICK x \in job.todo : x = Latest
    BY <1>1, LatestIsOne DEF OrdersInv, TodoOK
<1>3. x.id \in 1 .. Len(store) /\ x.id # 0 /\ \A o \in Orders : Held(o).remote # x.id
    BY <1>1, <1>2 DEF OrdersInv, TodoOK
<1>4. CASE Readable(x)
  <2>1. PICK o \in Orders \ TypedIn :
          LET row == Imported(x)
              p == Push(o, row, c[1], c[2])
          IN /\ ~Exists(o)
             /\ orders' = [Committed EXCEPT ![o] = row]
             /\ alerts' = alerts \union job.alerts
             /\ Pushed(o, p)
             /\ job' = [job EXCEPT !.todo = @ \ {Latest}, !.alerts = {},
                                   !.rows = [q \in {o} |-> p.row]]
      BY <1>2, <1>4 DEF CreateFromStore
  <2>2. PICK row : row = Imported(x)
      OBVIOUS
  <2>3. PICK p : p = Push(o, row, c[1], c[2])
      OBVIOUS
  <2>4. /\ o \in Orders /\ orders[o].status = "none" /\ Pushed(o, p)
        /\ orders' = [Committed EXCEPT ![o] = row]
        /\ job' = [job EXCEPT !.todo = @ \ {x}, !.alerts = {}, !.rows = [q \in {o} |-> p.row]]
      BY <2>1, <2>2, <2>3, <1>2 DEF Exists
  <2>5. DOMAIN job'.rows = {o} /\ job'.rows[o] = p.row
    <3>1. PICK rows : rows = [q \in {o} |-> p.row]
        OBVIOUS
    <3>2. DOMAIN rows = {o} /\ rows[o] = p.row
        BY <3>1
    <3>3. job' = [step |-> job.step, todo |-> job.todo \ {x}, rows |-> rows, alerts |-> {}]
        BY <2>4, <3>1, <1>1 DEF JobRow
    <3> QED
        BY <3>2, <3>3
  <2>6. OrderRow(row, Len(store)) /\ row.remote = x.id /\ row.status = "draft"
      BY <2>2, <1>1, <1>3, ImportedRow
  <2>7. \A q \in Orders : orders'[q] = IF q = o THEN row ELSE Held(q)
    <3>1. Committed = [q \in Orders |-> Held(q)]
        BY DEF Committed
    <3> QED
        BY <2>4, <3>1
  <2>8. Held(o).remote = 0
    <3>1. o \notin DOMAIN job.rows
        BY <2>4 DEF OrdersInv, SessionOK
    <3> QED
        BY <2>4, <3>1 DEF OrdersInv, SessionOK, OrderRow, Held
  <2>9. PICK h : h = [q \in Orders |-> IF q = o THEN row ELSE Held(q)]
      OBVIOUS
  <2>10. /\ \A q \in Orders : h[q] = IF q = o THEN row ELSE Held(q)
         /\ \A q \in Orders : Held(q)' = IF q = o THEN p.row ELSE h[q]
      BY <2>5, <2>7, <2>9 DEF Held
  <2>11. h[o] = row
      BY <2>4, <2>10
  <2>12. ASSUME calm, ~Replaces
         PROVE  LinkedRows(h, store) /\ RowsMatch(h, store, nextLine, edited)
    <3>1. PICK old : old = [q \in Orders |-> Held(q)]
        OBVIOUS
    <3>2. \A q \in Orders : old[q] = Held(q)
        BY <3>1
    <3>3. RowsMatch(old, store, nextLine, edited) /\ LinkedRows(old, store)
        BY <2>12, <3>1, MatchHeld
    <3>4. \A q \in Orders : h[q] = IF q = o THEN row ELSE old[q]
        BY <2>10, <3>2
    <3>5. \A q \in Orders : old[q].remote # x.id
        BY <1>3, <3>2
    <3>6. old[o].remote = 0
        BY <2>8, <3>2
    <3>7. LinkedRows(h, store)
      <4>1. \A q \in Orders : OrderRow(h[q], Len(store))
          BY <2>6, <3>3, <3>4 DEF LinkedRows
      <4>2. \A q, s \in Orders : (h[q].remote # 0 /\ h[q].remote = h[s].remote) => q = s
          BY <2>6, <3>3, <3>4, <3>5 DEF LinkedRows
      <4>3. ASSUME NEW r \in DOMAIN store, store[r].via = "rest-api"
            PROVE  h[store[r].of].remote = r
        <5>1. store[r].of \in Orders /\ old[store[r].of].remote = r /\ r # 0
            BY <4>3, <1>1, <2>12, <3>3 DEF LinkedRows, StoreOK, StoreRow
        <5> QED
            BY <5>1, <3>4, <3>6
      <4> QED
          BY <4>1, <4>2, <4>3 DEF LinkedRows
    <3>8. PICK l \in Nat \ {0} : store[x.id].lines = {l} /\ store[x.id].fees = 0
        BY <1>1, <1>3, <3>3, <3>5 DEF RowsMatch, Untouched
    <3>9. PICK b \in BOOLEAN : store[x.id].shipping = b
        BY <1>1, <1>3, <3>3 DEF RowsMatch, ShopLines
    <3>10. RowMatches(row, store[row.remote]) /\ Settled(row)
        BY <2>2, <2>6, <3>8, <3>9, <1>3, ImportedMatches
    <3>11. RowsMatch(h, store, nextLine, edited)
        BY <1>1, <3>3, <3>4, <3>6, <3>10, RowChanges
    <3> QED
        BY <3>7, <3>11
  <2>13. row.status # "none"
      BY <2>6
  <2> QED
      BY <1>1, <2>3, <2>4, <2>10, <2>11, <2>12, <2>13, PushedMatch
<1>5. CASE ~Readable(x)
  <2>1. /\ UNCHANGED <<orders, store, nextLine, edited>>
        /\ job' = [job EXCEPT !.todo = @ \ {x}]
      BY <1>2, <1>5 DEF CreateFromStore
  <2>2. job'.rows = job.rows
      BY <2>1, <1>1, OneLess
  <2>3. \A q \in Orders : Held(q)' = Held(q)
      BY <2>1, <2>2 DEF Held
  <2> QED
      BY <2>1, <2>3, MatchStays
<1> QED
    BY <1>4, <1>5

\* A cancellation taken over from the shop is an edit.
LEMMA HandleStoreMatch ==
    ASSUME OrdersInv, MatchInv, UNCHANGED calm, HandleStore
    PROVE  MatchInv'
<1>1. /\ UNCHANGED <<orders, store, nextLine>> /\ StoreOK(store)
      /\ DOMAIN orders = Orders /\ JobRow(job)
    BY DEF HandleStore, OrdersInv
<1>2. PICK o \in Orders :
        /\ job' = [job EXCEPT
             !.todo = @ \ {Latest},
             !.rows = IF Latest.status = "cancelled" /\ Held(o).status = "draft"
                      THEN Written(o, Cancelled(Held(o))) ELSE @,
             !.alerts = IF Latest.status = "cancelled" /\ Held(o).status # "draft"
                        THEN @ \union {o} ELSE @]
        /\ edited' = IF job'.rows # job.rows THEN edited \union {o} ELSE edited
    BY DEF HandleStore
<1>3. job = [step |-> job.step, todo |-> job.todo, rows |-> job.rows, alerts |-> job.alerts]
      /\ DOMAIN job.rows \subseteq Orders /\ job.step \in {"idle", "direct", "store", "push"}
    BY <1>1 DEF JobRow
<1>4. PICK rows : rows = IF Latest.status = "cancelled" /\ Held(o).status = "draft"
                         THEN Written(o, Cancelled(Held(o))) ELSE job.rows
    OBVIOUS
<1>5. PICK al : al = IF Latest.status = "cancelled" /\ Held(o).status # "draft"
                     THEN job.alerts \union {o} ELSE job.alerts
    OBVIOUS
<1>6. job' = [job EXCEPT !.todo = @ \ {Latest}, !.rows = rows, !.alerts = al]
    BY <1>2, <1>4, <1>5
<1>7. job'.rows = rows /\ JobRow(job')
  <2>1. job' = [step |-> job.step, todo |-> job.todo \ {Latest}, rows |-> rows, alerts |-> al]
      BY <1>3, <1>6
  <2>2. DOMAIN rows \subseteq Orders
      BY <1>3, <1>4 DEF Written
  <2> QED
      BY <2>1, <2>2, <1>3 DEF JobRow
<1>8. CASE Latest.status = "cancelled" /\ Held(o).status = "draft"
  <2>1. PICK old : old = Held(o)
      OBVIOUS
  <2>2. PICK row : row = Cancelled(old)
      OBVIOUS
  <2>3. job'.rows = Written(o, row)
      BY <1>4, <1>7, <1>8, <2>1, <2>2
  <2>4. /\ DOMAIN job'.rows = DOMAIN job.rows \union {o}
        /\ \A q \in Orders : Held(q)' = IF q = o THEN row ELSE Held(q)
      BY <2>3, <1>1, <1>7, HeldAfter
  <2>5. OrderRow(old, Len(store)) /\ old.status = "draft" /\ Len(store) \in Nat
      BY <2>1, <1>8 DEF OrdersInv, SessionOK, StoreOK
  <2>6. row.status = "cancelled"
      BY <2>2, <2>5, EditRows
  <2>7. edited' = edited \union {o}
    <3>1. job'.rows[o] = row
        BY <2>3 DEF Written
    <3>2. o \in DOMAIN job.rows => job.rows[o] = old
        BY <2>1 DEF Held
    <3>3. o \in DOMAIN job'.rows
        BY <2>4
    <3>4. job'.rows # job.rows
        BY <3>1, <3>2, <3>3, <2>5, <2>6
    <3> QED
        BY <3>4, <1>2
  <2>8. PICK h, g, ed : /\ h = [q \in Orders |-> Held(q)] /\ g = [q \in Orders |-> Held(q)']
                        /\ ed = edited'
      OBVIOUS
  <2>9. /\ \A q \in Orders : h[q] = Held(q) /\ Held(q)' = g[q]
        /\ \A q \in Orders : g[q] = IF q = o THEN row ELSE h[q]
      BY <2>4, <2>8
  <2>10. ASSUME calm, ~Replaces
         PROVE  RowsMatch(g, store, nextLine, ed)
    <3>1. RowsMatch(h, store, nextLine, edited)
        BY <2>8, <2>10, MatchHeld
    <3>2. h[o] = old
        BY <2>1, <2>9
    <3>3. RowMatches(old, store[old.remote])
        BY <3>1, <3>2 DEF RowsMatch
    <3>4. PICK s : s = store[old.remote]
        OBVIOUS
    <3>5. RowMatches(row, s) /\ row.remote = old.remote
        BY <3>3, <3>4, <2>2, <2>5, CancelledMatches
    <3>6. RowMatches(row, store[row.remote])
        BY <3>4, <3>5
    <3>7. edited \subseteq ed /\ o \in ed
        BY <2>7, <2>8
    <3>8. h[o].remote # 0 => row.remote = h[o].remote
        BY <3>2, <3>5
    <3> QED
        BY <1>1, <2>9, <3>1, <3>6, <3>7, <3>8, RowChanges
  <2> QED
      BY <1>1, <2>8, <2>9, <2>10, MatchThen
<1>9. CASE ~ (Latest.status = "cancelled" /\ Held(o).status = "draft")
  <2>1. job'.rows = job.rows
      BY <1>4, <1>7, <1>9
  <2>2. edited' = edited /\ \A q \in Orders : Held(q)' = Held(q)
      BY <2>1, <1>1, <1>2 DEF Held
  <2> QED
      BY <2>2, <1>1, MatchStays
<1> QED
    BY <1>8, <1>9

\* The other steps of the task move no row, or cannot happen when it is calm.
LEMMA OthersMatch ==
    ASSUME OrdersInv, MatchInv, UNCHANGED calm,
           Start \/ ImportDirect \/ FetchStore \/ StartPush \/ FinishSync \/ Die
    PROVE  MatchInv'
<1>1. job = [step |-> job.step, todo |-> job.todo, rows |-> job.rows, alerts |-> job.alerts]
    BY DEF OrdersInv, JobRow
<1>2. CASE Start
  <2>1. PICK todo : job' = [NoJob EXCEPT !.step = "direct", !.todo = todo]
      BY <1>2 DEF Start
  <2>2. job = NoJob /\ UNCHANGED <<orders, store, nextLine, edited>>
      BY <1>2 DEF Start
  <2>3. job'.rows = job.rows
      BY <2>1, <2>2 DEF NoJob
  <2>4. \A q \in Orders : Held(q)' = Held(q)
      BY <2>2, <2>3 DEF Held
  <2> QED
      BY <2>2, <2>4, MatchStays
<1>3. CASE ImportDirect
  <2>1. ~calm
      BY <1>3 DEF ImportDirect, OrdersInv, DirectOK
  <2> QED
      BY <2>1 DEF MatchInv
<1>4. CASE FetchStore
  <2>1. PICK todo : job' = [job EXCEPT !.step = "store", !.todo = todo]
      BY <1>4 DEF FetchStore
  <2>2. UNCHANGED <<orders, store, nextLine, edited>>
      BY <1>4 DEF FetchStore
  <2>3. job'.rows = job.rows
      BY <2>1, <1>1
  <2>4. \A q \in Orders : Held(q)' = Held(q)
      BY <2>2, <2>3 DEF Held
  <2> QED
      BY <2>2, <2>4, MatchStays
<1>5. CASE StartPush
  <2>1. /\ UNCHANGED <<orders, store, nextLine, edited>>
        /\ job' = [job EXCEPT !.step = "push", !.todo = {o \in Orders : Exists(o)}]
      BY <1>5 DEF StartPush
  <2>2. job'.rows = job.rows
      BY <2>1, <1>1
  <2>3. \A q \in Orders : Held(q)' = Held(q)
      BY <2>1, <2>2 DEF Held
  <2> QED
      BY <2>1, <2>3, MatchStays
<1>6. CASE FinishSync
  <2>1. /\ UNCHANGED <<store, nextLine, edited>> /\ job' = NoJob
        /\ orders' = [o \in Orders |-> Held(o)]
      BY <1>6 DEF FinishSync, Committed
  <2>2. DOMAIN job'.rows = {}
      BY <2>1, NothingHeld
  <2>3. \A q \in Orders : Held(q)' = Held(q)
    <3>1. \A q \in Orders : Held(q)' = orders'[q]
        BY <2>2 DEF Held
    <3>2. \A q \in Orders : orders'[q] = Held(q)
        BY <2>1
    <3> QED
        BY <3>1, <3>2
  <2> QED
      BY <2>1, <2>3, MatchStays
<1>7. CASE Die
    BY <1>7 DEF Die, MatchInv
<1> QED
    BY <1>2, <1>3, <1>4, <1>5, <1>6, <1>7

\* Every step keeps the invariant of the pushes.
LEMMA MatchNext == OrdersInv /\ MatchInv /\ [OrdersNext]_orderVars => MatchInv'
<1> SUFFICES ASSUME OrdersInv, MatchInv, [OrdersNext]_orderVars
             PROVE  MatchInv'
    OBVIOUS
<1>1. ASSUME UNCHANGED calm, NEW f \in Fees, NewStoreOrder(f)
      PROVE  MatchInv'
    BY <1>1, NewStoreOrderMatch
<1>2. ASSUME UNCHANGED calm, NEW f \in Fees, NEW o \in TypedIn, CreateOrder(o, f)
      PROVE  MatchInv'
    BY <1>2, CreateOrderMatch, WooOrdersAssumption
<1>3. ASSUME UNCHANGED calm, NEW r \in DOMAIN store, CancelByCustomer(r)
      PROVE  MatchInv'
    BY <1>3, CancelByCustomerMatch
<1>4. ASSUME UNCHANGED calm, NEW o \in Orders, AddLine(o) \/ Bill(o) \/ CancelOrder(o)
      PROVE  MatchInv'
    BY <1>4, AddLineMatch, BillMatch, CancelOrderMatch
<1>5. ASSUME UNCHANGED calm, NEW o \in Orders, NEW i \in DOMAIN orders[o].lines, CancelLine(o, i)
      PROVE  MatchInv'
    BY <1>5, CancelLineMatch
<1>6. ASSUME UNCHANGED calm, NEW o \in Orders, NEW c \in Calls,
             PushFromTab(o, c) \/ PushRecent(o, c)
      PROVE  MatchInv'
    BY <1>6, PushFromTabMatch, PushRecentMatch
<1>7. ASSUME UNCHANGED calm, NEW c \in Calls, CreateFromStore(c)
      PROVE  MatchInv'
    BY <1>7, CreateFromStoreMatch
<1>8. ASSUME UNCHANGED calm, HandleStore
      PROVE  MatchInv'
    BY <1>8, HandleStoreMatch
<1>9. ASSUME UNCHANGED calm,
             Start \/ ImportDirect \/ FetchStore \/ StartPush \/ FinishSync \/ Die
      PROVE  MatchInv'
    BY <1>9, OthersMatch
<1>10. CASE UNCHANGED orderVars
  <2>1. UNCHANGED <<calm, store, nextLine, edited, orders, job>>
      BY <1>10 DEF orderVars
  <2>2. \A q \in Orders : Held(q)' = Held(q)
      BY <2>1 DEF Held
  <2> QED
      BY <2>1, <2>2, MatchStays
<1> QED
    BY <1>1, <1>2, <1>3, <1>4, <1>5, <1>6, <1>7, <1>8, <1>9, <1>10 DEF OrdersNext

\* In a calm behaviour in which no line of an order with a fee is replaced
\* between two pushes, the shop always has the lines that were pushed or are
\* still to be removed, and charges the shipping fee once, whatever was edited
\* since.
THEOREM MatchInductive == OrdersSpec => []MatchInv
BY OrdersInductive, MatchInit, MatchNext, PTL DEF OrdersSpec

\* In such a behaviour, after a successful push and until the next edit the
\* lines of the shop order are the active ones of the ERP, and the customer is
\* charged the shipping fee once (push_order, _post_push_sync).
THEOREM PushesMatch == OrdersSpec => []PushedMatches
<1>1. OrdersInv /\ MatchInv => PushedMatches
  <2> SUFFICES ASSUME OrdersInv, MatchInv, calm, ~Replaces, job = NoJob,
                      NEW o \in DOMAIN orders \ edited, orders[o].remote # 0
               PROVE  LET row == orders[o]
                          s == store[row.remote]
                      IN /\ s.lines = Ids(row.lines) /\ Unlinked(row.lines, Len(row.lines)) = {}
                         /\ row.status # "cancelled" =>
                              s.fees + (IF s.shipping THEN 1 ELSE 0)
                                = (IF row.fee = "none" THEN 0 ELSE 1)
      BY DEF PushedMatches
  <2>1. o \in Orders \ edited
      BY DEF OrdersInv
  <2>2. RowsMatch(orders, store, nextLine, edited)
      BY NothingHeld, MatchIdle DEF MatchInv
  <2>3. RowMatches(orders[o], store[orders[o].remote]) /\ Settled(orders[o])
      BY <2>1, <2>2 DEF RowsMatch
  <2> QED
      BY <2>3 DEF RowMatches, Settled
<1> QED
    BY <1>1, OrdersInductive, MatchInductive, PTL
=============================================================================
