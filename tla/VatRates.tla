------------------------------ MODULE VatRates ------------------------------
(* The rates of VAT and their copy in the shop (blueprints/admin/utils.py,   *)
(* db_models/services/vat.py, services/woo_commerce/products/vat.py): the    *)
(* administrator writes, replaces and closes rates, each time the rates in   *)
(* force are reconciled with the taxes of the shop, and once a night a cron  *)
(* reconciles them again.  A tax is found by its class, which is the label   *)
(* of the rate, or by the identifier kept on the row, which is unique.       *)
EXTENDS Naturals, Sequences, FiniteSets, TLC, Functions, FiniteSetsExt

CONSTANTS Codes, Amounts, Labels,
          Tasks,     \* requests that reconcile
          Night,     \* the task of the cron
          MaxTime,   \* bound: instants
          MaxRates,  \* bound: rows
          MaxEdits,  \* bound: requests of the administrator and failures of the shop
          Faults     \* the shop refuses, or its answer is lost

VARIABLES now, rates,
          taxes,     \* identifier -> tax of the shop
          classes,   \* classes of tax of the shop
          given,     \* identifiers given by the shop
          task, edits,
          sloppy     \* dates that reopen the past of a code, labels or amounts of
                     \* another code are typed
vars == <<now, rates, taxes, classes, given, task, edits, sloppy>>
remote == <<taxes, classes, given>>

None == 0
Forever == MaxTime + 1
All == "all"
NoSlug == ""
Empty == [x \in {} |-> None]
Idle == [at |-> "idle", value |-> Empty, slug |-> Empty, named |-> {}, link |-> Empty,
         create |-> {}, update |-> Empty, delete |-> {}, born |-> Empty]

Init ==
    /\ now = 1 /\ rates = <<>> /\ taxes = Empty /\ classes = {} /\ given = 0
    /\ task = [t \in Tasks |-> Idle] /\ edits = 0
    /\ sloppy \in BOOLEAN

InForce(r, d) == r.start <= d /\ d < r.end
Current(only) == {i \in DOMAIN rates : InForce(rates[i], now) /\ only \in {All, rates[i].label}}
-----------------------------------------------------------------------------
\* The screens of the rates.

\* The rates of the same code that a new start replaces end there.
MutClosed(rs, new) ==
    [i \in DOMAIN rs |->
        IF rs[i].code = rs[new].code /\ rs[new].start < rs[i].start
        THEN [rs[i] EXCEPT !.end = rs[new].start] ELSE rs[i]]
Closed(rs, new) ==
    [i \in DOMAIN rs |->
        IF /\ rs[i].code = rs[new].code /\ i # new
           /\ rs[i].start < rs[new].start /\ rs[new].start < rs[i].end
        THEN [rs[i] EXCEPT !.end = rs[new].start] ELSE rs[i]]

\* A code has one row per start: another one is refused by the database.
Unique(rs) == \A i, j \in DOMAIN rs : i # j => <<rs[i].code, rs[i].start>> # <<rs[j].code, rs[j].start>>
\* Dates typed in order, after every other row of the code; labels and amounts
\* that no other code has.
InOrder(rs, new) ==
    \A i \in DOMAIN rs \ {new} : rs[i].code = rs[new].code => rs[i].start < rs[new].start
OfItsCode(rs, new) ==
    \A i \in DOMAIN rs : rs[i].code # rs[new].code =>
        rs[i].label # rs[new].label /\ rs[i].value # rs[new].value

\* The request commits its rows, then asks for the reconciliation and waits.
Free(t) == task[t].at = "idle" /\ t # Night /\ edits < MaxEdits
Commit(t, rs) ==
    /\ edits' = edits + 1 /\ rates' = rs
    /\ task' = [task EXCEPT ![t].at = "asked"]
    /\ UNCHANGED <<now, remote>>

CreateRate(t) ==
    Free(t) /\ Len(rates) < MaxRates /\
    \E c \in Codes, v \in Amounts, l \in Labels, s \in 1 .. MaxTime, e \in 2 .. Forever :
        LET new == Len(rates) + 1
            row == [code |-> c, value |-> v, label |-> l, start |-> s, end |-> e,
                    link |-> None, slug |-> NoSlug]
            rs == Append(rates, row)
        IN  /\ sloppy \/ (s < e /\ InOrder(rs, new) /\ OfItsCode(rs, new))
            /\ Unique(rs)
            /\ Commit(t, Closed(rs, new))

UpdateRate(t, i) ==
    Free(t) /\ \E c \in Codes, v \in Amounts, l \in Labels, s \in 1 .. MaxTime, e \in 2 .. Forever :
        LET rs == [rates EXCEPT ![i].code = c, ![i].value = v, ![i].label = l,
                                ![i].start = s, ![i].end = e]
        IN  /\ \/ sloppy
               \/ <<c, s, e>> = <<rates[i].code, rates[i].start, rates[i].end>> /\ OfItsCode(rs, i)
            /\ Unique(rs)
            /\ Commit(t, Closed(rs, i))

CloseRate(t, i) ==
    /\ Free(t) /\ (sloppy \/ InForce(rates[i], now))
    /\ Commit(t, [rates EXCEPT ![i].end = now])
-----------------------------------------------------------------------------
\* The reconciliation.

Slug(i) == IF rates[i].slug = NoSlug THEN rates[i].label ELSE rates[i].slug
Ambiguous(S) == \E i, j \in S : i # j /\ Slug(i) = Slug(j)

\* The tax of row i, given the class it is to have: by class, else by identifier.
Match(i, slug) ==
    LET same == {id \in DOMAIN taxes : taxes[id].class = slug}
    IN  IF same # {} THEN {Min(same)} ELSE {rates[i].link} \cap DOMAIN taxes

\* What is to be sent: the rows without a tax, those whose tax differs, and the
\* taxes that belong to no row.
MutDiff(S, slug) ==
    LET found == [i \in {j \in S : Match(j, slug[j]) # {}} |-> Min(Match(i, slug[i]))]
        ids == Range(found)
        last(id) == Max({i \in DOMAIN found : found[i] = id})
    IN  [link |-> found, create |-> S \ DOMAIN found, delete |-> {},
         update |-> [id \in {x \in ids : \E i \in DOMAIN found : found[i] = x
                              /\ taxes[x] # [class |-> slug[i], value |-> rates[i].value]} |-> last(id)]]
Diff(S, slug) ==
    LET found == [i \in {j \in S : Match(j, slug[j]) # {}} |-> Min(Match(i, slug[i]))]
        ids == Range(found)
        last(id) == Max({i \in DOMAIN found : found[i] = id})
    IN  [link |-> found, create |-> S \ DOMAIN found, delete |-> DOMAIN taxes \ ids,
         update |-> [id \in {x \in ids : \E i \in DOMAIN found : found[i] = x
                              /\ taxes[x] # [class |-> slug[i], value |-> rates[i].value]} |-> last(id)]]

\* The classes are read and the missing ones created: a row is named after its
\* label when the class is there or the shop answers; else it keeps its slug.
Names(S) ==
    LET known == {i \in S : rates[i].label \in classes}
    IN  {[named |-> {}, made |-> {}]} \cup
        {n \in [named : SUBSET S, made : SUBSET {rates[i].label : i \in S \ known}] :
            /\ known \subseteq n.named
            /\ \A i \in n.named \ known : rates[i].label \in n.made}

\* Then the taxes are read, and what is to be sent is made of the rows as they
\* were loaded; what the session changes of them is kept until it commits.
Read(t, only, cost) ==
    LET S == Current(only)
    IN  IF Ambiguous(S)
        THEN /\ task' = [task EXCEPT ![t] = Idle]
             /\ edits' = edits + cost /\ UNCHANGED classes
        ELSE \E n \in Names(S), read \in BOOLEAN :
               LET named == n.named
                   slug == [i \in S |-> IF i \in named THEN rates[i].label ELSE Slug(i)]
                   d == Diff(S, slug)
                   fails == named # S \/ ~read
               IN  /\ fails => Faults /\ edits + cost < MaxEdits
                   /\ edits' = edits + cost + IF fails THEN 1 ELSE 0
                   /\ classes' = classes \cup n.made
                   /\ task' = [task EXCEPT ![t] =
                        IF ~read THEN Idle ELSE
                        [at |-> IF d.create = {} /\ d.update = Empty /\ d.delete = {}
                                THEN "same" ELSE "post",
                         value |-> [i \in S |-> rates[i].value], slug |-> slug, named |-> named,
                         link |-> Restrict(d.link, {i \in DOMAIN d.link : d.link[i] # rates[i].link}),
                         create |-> d.create, update |-> d.update, delete |-> d.delete,
                         born |-> Empty]]

\* The reconciliation asked by the administrator.
Reconcile(t) ==
    /\ task[t].at = "asked" /\ Read(t, All, 0)
    /\ UNCHANGED <<now, rates, taxes, given>>

\* The reconciliation of the night.
Nightly ==
    /\ task[Night].at = "idle" /\ Read(Night, All, 0)
    /\ UNCHANGED <<now, rates, taxes, given>>

\* The route that exports one label alone.
ExportOne(t) ==
    /\ Free(t) /\ \E l \in Labels : Read(t, l, 1)
    /\ UNCHANGED <<now, rates, taxes, given>>

Fails == Faults /\ edits < MaxEdits /\ edits' = edits + 1
Rank(i, S) == Cardinality({j \in S : j <= i})

\* The shop creates, changes and deletes; its answer comes or is lost.
Post(t) ==
    LET x == task[t]
        copy(i) == [class |-> x.slug[i], value |-> x.value[i]]
        born == [i \in x.create |-> given + Rank(i, x.create)]
        fresh == [id \in Range(born) |-> copy(CHOOSE i \in x.create : born[i] = id)]
        newer == [id \in DOMAIN x.update \cap DOMAIN taxes |-> copy(x.update[id])]
        all == fresh @@ newer @@ taxes
    IN  /\ x.at = "post"
        /\ taxes' = Restrict(all, DOMAIN all \ x.delete)
        /\ given' = given + Cardinality(x.create)
        /\ \/ UNCHANGED edits /\ task' = [task EXCEPT ![t].at = "apply", ![t].born = born]
           \/ Fails /\ task' = [task EXCEPT ![t].at = "same"]
        /\ UNCHANGED <<now, rates, classes>>

\* The shop refuses the batch: nothing is read in its answer.
PostRefused(t) ==
    /\ task[t].at = "post" /\ Fails
    /\ task' = [task EXCEPT ![t].at = "same"]
    /\ UNCHANGED <<now, rates, remote>>

\* The rows with what the session has set.
Set(links, slugs) ==
    LET l == links @@ [i \in DOMAIN rates |-> rates[i].link]
        c == slugs @@ [i \in DOMAIN rates |-> rates[i].slug]
    IN  [i \in DOMAIN rates |-> [rates[i] EXCEPT !.link = l[i], !.slug = c[i]]]

\* Each created tax, with its class, goes to the first row of its amount; each
\* deleted one is taken from the row that kept it.
Owner(t, i) == Min({j \in DOMAIN task[t].value : task[t].value[j] = task[t].value[i]})
Given(t, j) == {i \in task[t].create : Owner(t, i) = j}
Owners(t) == {Owner(t, i) : i \in task[t].create}
Received(t) ==
    LET x == task[t]
        linked == [j \in Owners(t) |-> x.born[Max(Given(t, j))]]
        freed == [j \in {k \in DOMAIN rates : rates[k].link \in x.delete} |-> None]
    IN  freed @@ linked @@ x.link
\* A changed tax gives its class to its row.
Classed(t) ==
    LET x == task[t]
        sent == {j \in Range(x.update) : j \in DOMAIN x.slug}
    IN  [j \in Owners(t) |-> x.slug[Max(Given(t, j))]] @@ Restrict(x.slug, x.named \cup sent)

\* The identifier of the shop is unique among the rows, which are written one
\* after another: else the commit fails, everything is rolled back and the
\* request is told an error.
Distinct(rs) == \A i, j \in DOMAIN rs : i # j /\ rs[i].link # None => rs[i].link # rs[j].link
Accepted(rs) ==
    \A k \in DOMAIN rs : Distinct([i \in DOMAIN rs |-> IF i <= k THEN rs[i] ELSE rates[i]])
Ends(t, rs) ==
    IF Accepted(rs) THEN rates' = rs /\ task' = [task EXCEPT ![t] = Idle]
    ELSE UNCHANGED rates /\ task' = [task EXCEPT ![t] = [Idle EXCEPT !.at = "clash"]]

Apply(t) ==
    /\ task[t].at = "apply" /\ Ends(t, Set(Received(t), Classed(t)))
    /\ UNCHANGED <<now, remote, edits>>

\* Nothing to send, or an error caught: what was matched is committed.
Keep(t) ==
    /\ task[t].at = "same"
    /\ Ends(t, Set(task[t].link, Restrict(task[t].slug, task[t].named)))
    /\ UNCHANGED <<now, remote, edits>>

\* The error is shown, or written in the log of the cron.
Leave(t) ==
    /\ task[t].at = "clash"
    /\ task' = [task EXCEPT ![t] = Idle]
    /\ UNCHANGED <<now, rates, remote, edits>>

\* The identifiers and classes of the shop are read back, by amount, else by
\* identifier.
Mine(id) ==
    LET same == {i \in DOMAIN rates : rates[i].value = taxes[id].value}
    IN  IF same # {} THEN {Min(same)} ELSE {i \in DOMAIN rates : rates[i].link = id}
ImportSlugs(t) ==
    /\ Free(t) /\ edits' = edits + 1
    /\ LET ids(i) == {id \in DOMAIN taxes : i \in Mine(id)}
           links == [i \in {j \in DOMAIN rates : ids(j) # {}} |-> Max(ids(i))]
           rs == Set(links, [i \in DOMAIN links |-> taxes[links[i]].class])
       IN  rates' = IF Accepted(rs) THEN rs ELSE rates
    /\ UNCHANGED <<now, remote, task>>

Tick == now < MaxTime /\ now' = now + 1 /\ UNCHANGED <<rates, remote, task, edits>>

Step(t) == Reconcile(t) \/ Post(t) \/ PostRefused(t) \/ Apply(t) \/ Keep(t) \/ Leave(t)

Next ==
    /\ UNCHANGED sloppy
    /\ \/ \E t \in Tasks :
            \/ CreateRate(t) \/ \E i \in DOMAIN rates : UpdateRate(t, i) \/ CloseRate(t, i)
            \/ ExportOne(t) \/ ImportSlugs(t) \/ Step(t)
       \/ Nightly \/ Tick

Spec == Init /\ [][Next]_vars

\* The cron runs every night and its request ends; nothing is asked of the others.
Fairness == WF_vars((Nightly \/ Step(Night)) /\ UNCHANGED sloppy)
FairSpec == Spec /\ Fairness
-----------------------------------------------------------------------------
\* As long as the dates of a code are typed in order, no instant, past, present
\* or future, has two rates of the same code (close_superseded_vat_rates).
OneRateInForce ==
    ~sloppy => \A d \in 1 .. MaxTime : \A i, j \in DOMAIN rates :
        InForce(rates[i], d) /\ InForce(rates[j], d) /\ rates[i].code = rates[j].code => i = j

Here == {[class |-> rates[i].label, value |-> rates[i].value] : i \in Current(All)}
Mirror ==
    /\ Range(taxes) = Here
    /\ Cardinality(DOMAIN taxes) = Cardinality(Current(All))

\* Once nothing changes any more, the nights bring the taxes of the shop to the
\* rates in force, whatever was refused, lost or done twice before, provided
\* no two rates in force have the same slug (reconcile_vat_rates).
NightsReconcile == <>[](Ambiguous(Current(All)) \/ Mirror)

\* A reconciliation is refused only when two rates in force have the same slug
\* (reconcile_vat_rates "Verifie les slugs actifs et synchronise WooCommerce
\* lorsqu'un ecart existe").
OnlySlugsClash == ~sloppy => \A t \in DOMAIN task : task[t].at # "clash"
=============================================================================
