----------------------------- MODULE Catalogue -----------------------------
(***************************************************************************)
(* Products with the history of their prices, the rates of VAT and the     *)
(* suppliers: what the screens of app_front type, and what the service of  *)
(* app_back imports from the files Dilicom returns.                        *)
(*                                                                         *)
(* An import reads the distributors, record after record of lines, each    *)
(* committed with those before it, then the ONIX notices, whose products   *)
(* it merges one by one in its session and commits together; then it marks *)
(* the references of the referential, one commit each. A price is a row:   *)
(* one rate, a first day and a last day or none. Screens show the rows,    *)
(* and saving a screen replaces them all.                                  *)
(*                                                                         *)
(* The text of a product is abstracted to who wrote it: a screen (0) or    *)
(* the number of an import. What a file holds is chosen line by line, as   *)
(* the service reads it.                                                   *)
(***************************************************************************)
EXTENDS Naturals, FiniteSets, Folds, SequencesExt

CONSTANTS
    Products,     \* EAN13 of the products
    Glns,         \* GLN13 of the suppliers
    Rates,        \* the rows of vat_rates
    Clerks,       \* browser tabs of the staff
    Prices,       \* prices without tax, above zero
    MaxDay,       \* bound: the last day
    MaxRows,      \* bound: the rows of prices ever inserted
    MaxImports,   \* bound: the imports
    MaxLines,     \* bound: the lines, and the notices, of one file
    MaxSaves      \* bound: the screens a tab saves

ASSUME CatalogueAssumption ==
    /\ {MaxDay, MaxRows, MaxImports, MaxLines, MaxSaves} \subseteq Nat
    /\ Prices \subseteq Nat \ {0}
    /\ IsFiniteSet(Prices) /\ IsFiniteSet(Rates)

NoRate == "none"
NoProduct == [text |-> 0, active |-> FALSE, prices |-> {}]
NoSupplier == [known |-> FALSE, active |-> FALSE, terms |-> 0]
NoImport == [at |-> "idle", lines |-> << >>, record |-> {}, added |-> {}, want |-> << >>,
             read |-> 0, work |-> << >>, told |-> {}, marks |-> << >>, unknown |-> {}]
NoScreen == [at |-> "closed", ean |-> "", shown |-> NoProduct, loaded |-> NoProduct]

Days == 0 .. MaxDay
\* A period without a last day, and the day before the first.
Open == MaxDay + 1

VARIABLES
    today,        \* date.today()
    rates,        \* the rates without date_end
    catalogue,    \* general_objects with their object_prices
    suppliers,    \* suppliers; terms: the import that wrote the terms, 0 for a screen
    asked,        \* the last row of dilicom_referencial: "no", "asked" or "done"
    import,       \* the request or the task that imports, and its session
    imports,      \* how many have begun
    screens,      \* per tab, the form of a product
    saves,        \* how many forms have been saved
    nextId,       \* the sequence of object_prices
    calm          \* for good: imports and requests take turns, no screen is saved with
                  \* overlapping periods, a record has one line of a GLN, a notice has a price

catalogueVars ==
    <<today, rates, catalogue, suppliers, asked, import, imports, screens, saves, nextId, calm>>

CatalogueInit ==
    /\ today = 0
    /\ rates = Rates
    /\ catalogue = [e \in Products |-> NoProduct]
    /\ suppliers = [g \in Glns |-> NoSupplier]
    /\ asked = [e \in Products |-> "no"]
    /\ import = NoImport
    /\ imports = 0
    /\ screens = [t \in Clerks |-> NoScreen]
    /\ saves = 0
    /\ nextId = 1
    /\ calm \in BOOLEAN

InCatalogue(e) == catalogue[e] # NoProduct
-----------------------------------------------------------------------------
(* Prices *)

PriceRow(id, vat, from, to, price) ==
    [id |-> id, vat |-> vat, from |-> from, to |-> to, price |-> price]

\* The first, the last of some rows by the day they begin, then by id.
Later(p, q) == p.from > q.from \/ (p.from = q.from /\ p.id > q.id)
Latest(rows) == CHOOSE p \in rows : \A q \in rows \ {p} : Later(p, q)
Earliest(rows) == CHOOSE p \in rows : \A q \in rows \ {p} : Later(q, p)

ValidOn(rows, day) == {p \in rows : p.from <= day /\ day <= p.to}

\* The price the application shows: valid today, else the last past one, else the next one.
CurrentPrice(rows) ==
    LET past == {p \in rows : p.from <= today}
    IN  IF ValidOn(rows, today) # {} THEN Latest(ValidOn(rows, today)).price
        ELSE IF past # {} THEN Latest(past).price
        ELSE IF rows # {} THEN Earliest(rows).price
        ELSE 0

\* The price the searches filter and sort by, an expression of the database.
SqlPrice(rows) ==
    LET past == {p \in rows : p.from <= today}
    IN  IF {p \in past : p.to >= today} # {} THEN Latest({p \in past : p.to >= today}).price
        ELSE IF past # {} THEN Latest(past).price
        ELSE 0

\* The bugs a history could have: the previous period stays open; the next
\* prices are written over.
MutApplyRow(rows, new) == {p \in rows : p.vat # new.vat \/ p.from # new.from} \cup {new}
MutFuture(rows, new) ==
    {new} \cup {[p EXCEPT !.price = IF p.vat = new.vat /\ p.from > new.from THEN new.price ELSE @] :
                  p \in rows}

\* One row of a notice goes into a history: the period it starts in is closed the
\* day before, and its own ends before the next one of the same rate.
ApplyRow(rows, new) ==
    LET Same == {p \in rows : p.vat = new.vat}
        exact == {p \in Same : p.from = new.from}
        before == {p \in Same : p.from < new.from /\ p.to >= new.from}
        after == {p \in Same : p.from > new.from}
        row == IF exact = {} THEN new ELSE [Earliest(exact) EXCEPT !.price = new.price]
        kept == IF after = {} THEN row ELSE [row EXCEPT !.to = Earliest(after).from - 1]
        closed == {[p EXCEPT !.to = new.from - 1] : p \in {q \in before : q = Latest(before)}}
    IN  (rows \ ({p \in exact : p = Earliest(exact)} \cup {p \in before : p = Latest(before)}))
            \cup closed \cup {kept}

\* The rows of a notice, by the day they begin.
ApplyRows(rows, news) ==
    MapThenFoldSet(LAMBDA new, done : ApplyRow(done, new), rows, LAMBDA p : p, Latest, news)
-----------------------------------------------------------------------------
(* The rates of VAT, on the administration's screen *)

CloseRate(r) ==
    /\ r \in rates
    /\ rates' = rates \ {r}
    /\ UNCHANGED <<today, catalogue, suppliers, asked, import, imports, screens, saves, nextId>>

\* Dilicom names a rate by its value: the row is the one in force, or none.
RateOf(r) == IF r \in rates THEN r ELSE NoRate

NextDay ==
    /\ today < MaxDay
    /\ today' = today + 1
    /\ UNCHANGED <<rates, catalogue, suppliers, asked, import, imports, screens, saves, nextId>>
-----------------------------------------------------------------------------
(* The screens of app_front *)

MayAct == calm => import.at = "idle"

Overlap(p, q) == p.from <= q.to /\ q.from <= p.to
Disjoint(rows) == \A p, q \in rows : p.vat = q.vat /\ p # q => ~Overlap(p, q)

\* What the form refuses: no row, a last day before the first, a price of zero, no rate in force.
Accepted(rows) ==
    /\ rows # {}
    /\ \A p \in rows : p.to >= p.from /\ p.price > 0 /\ p.vat \in rates
    /\ calm => Disjoint(rows)

\* What the staff may type in the table of prices: as shown, one price, one row more or less.
Typed(rows) ==
    {rows} \cup {rows \ {p} : p \in rows}
        \cup {(rows \ {p}) \cup {[p EXCEPT !.price = v]} : p \in rows, v \in Prices}
        \cup {rows \cup {PriceRow(0, r, d, to, v)} :
                r \in rates, d \in Days, to \in Days \cup {Open}, v \in Prices}

\* The form shows the rows by the day they begin, a row that is typed in comes last.
Above(q, p) == q.id # 0 /\ (p.id = 0 \/ Later(p, q))

\* The rows of the form have no id: each becomes a new row, from top to bottom.
Inserted(rows) ==
    {[p EXCEPT !.id = nextId + Cardinality({q \in rows : Above(q, p)})] : p \in rows}

CreateProduct(e) ==
    /\ MayAct /\ ~InCatalogue(e) /\ nextId <= MaxRows /\ saves < MaxSaves
    /\ \E rows \in Typed({}) :
         /\ Accepted(rows)
         /\ catalogue' = [catalogue EXCEPT ![e] =
                [text |-> 0, active |-> TRUE, prices |-> Inserted(rows)]]
    /\ nextId' = nextId + 1
    /\ saves' = saves + 1
    /\ UNCHANGED <<today, rates, suppliers, asked, import, imports, screens>>

OpenScreen(t, e) ==
    /\ MayAct /\ screens[t].at = "closed" /\ InCatalogue(e) /\ saves < MaxSaves
    /\ screens' = [screens EXCEPT ![t] =
            [NoScreen EXCEPT !.at = "open", !.ean = e, !.shown = catalogue[e]]]
    /\ UNCHANGED <<today, rates, catalogue, suppliers, asked, import, imports, saves, nextId>>

\* The request that saves loads the product, ...
LoadProduct(t) ==
    /\ MayAct /\ screens[t].at = "open"
    /\ calm => \A u \in Clerks : screens[u].at # "loaded"
    /\ \E rows \in Typed(screens[t].shown.prices) :
         /\ Accepted(rows)
         /\ screens' = [screens EXCEPT ![t] =
                [@ EXCEPT !.at = "loaded", !.shown.prices = rows,
                          !.loaded = catalogue[screens[t].ean]]]
    /\ UNCHANGED <<today, rates, catalogue, suppliers, asked, import, imports, saves, nextId>>

\* ... deletes the rows it loaded, inserts those of the form and writes the text if it differs.
\* It waits for the rows the import has written and not committed.
SaveProduct(t) ==
    LET s == screens[t]
        e == s.ean
        written == IF e \in DOMAIN import.work THEN import.work[e].new.prices ELSE catalogue[e].prices
        gone == {p.id : p \in s.loaded.prices}
    IN  /\ MayAct /\ s.at = "loaded" /\ nextId + Cardinality(s.shown.prices) - 1 <= MaxRows
        /\ \A p \in catalogue[e].prices : p.id \in gone => p \in written
        /\ e \in DOMAIN import.work => s.shown.text = s.loaded.text
        /\ catalogue' = [catalogue EXCEPT
                ![e].text = IF s.shown.text = s.loaded.text THEN @ ELSE s.shown.text,
                ![e].prices = {p \in @ : p.id \notin gone} \cup Inserted(s.shown.prices)]
        /\ nextId' = nextId + Cardinality(s.shown.prices)
        /\ screens' = [screens EXCEPT ![t] = NoScreen]
        /\ saves' = saves + 1
        /\ UNCHANGED <<today, rates, suppliers, asked, import, imports>>

ToggleProduct(e) ==
    /\ MayAct /\ InCatalogue(e) /\ saves < MaxSaves /\ e \notin DOMAIN import.work
    /\ catalogue' = [catalogue EXCEPT ![e].active = ~@]
    /\ saves' = saves + 1
    /\ UNCHANGED <<today, rates, suppliers, asked, import, imports, screens, nextId>>

AddToDilicom(e) ==
    /\ MayAct /\ InCatalogue(e) /\ asked[e] = "no"
    /\ asked' = [asked EXCEPT ![e] = "asked"]
    /\ UNCHANGED <<today, rates, catalogue, suppliers, import, imports, screens, saves, nextId>>

CreateSupplier(g) ==
    /\ MayAct /\ ~suppliers[g].known
    /\ \E a \in BOOLEAN : suppliers' = [suppliers EXCEPT ![g] = [NoSupplier EXCEPT !.known = TRUE, !.active = a]]
    /\ UNCHANGED <<today, rates, catalogue, asked, import, imports, screens, saves, nextId>>

\* The form writes all it shows, save the activity.
EditSupplier(g) ==
    /\ MayAct /\ suppliers[g].known /\ saves < MaxSaves
    /\ suppliers' = [suppliers EXCEPT ![g].terms = 0]
    /\ saves' = saves + 1
    /\ UNCHANGED <<today, rates, catalogue, asked, import, imports, screens, nextId>>

ToggleSupplier(g) ==
    /\ MayAct /\ suppliers[g].known /\ saves < MaxSaves
    /\ suppliers' = [suppliers EXCEPT ![g].active = ~@]
    /\ saves' = saves + 1
    /\ UNCHANGED <<today, rates, catalogue, asked, import, imports, screens, nextId>>
-----------------------------------------------------------------------------
(* An import of the files Dilicom returns *)

\* fetch-returns downloads the files, process-file reads one that is there.
BeginImport ==
    /\ import.at = "idle" /\ imports < MaxImports
    /\ calm => \A t \in Clerks : screens[t].at # "loaded"
    /\ import' = [NoImport EXCEPT !.at = "distributors", !.want = suppliers]
    /\ imports' = imports + 1
    /\ UNCHANGED <<today, rates, catalogue, suppliers, asked, screens, saves, nextId>>

Movements == {"full", "handed", "closed", "terms", "deleted"}
\* Does the movement tell the name, whether the supplier is active, the terms of its orders?
Names(mvt) == mvt \in {"full", "handed", "closed"}
Tells(mvt) == mvt # "terms"
Opens(mvt) == mvt \in {"full", "handed"}
Arranges(mvt) == mvt \in {"full", "terms"}

\* History: what a line read in this import asks of its supplier.
Asked(supplier, mvt) ==
    [supplier EXCEPT !.active = IF Tells(mvt) THEN Opens(mvt) ELSE supplier.active,
                     !.terms = IF Arranges(mvt) THEN imports ELSE supplier.terms]

\* A line goes into the dictionary of its GLN, in place of an earlier one. History:
\* import.want is what the lines read so far, one after another, ask of each supplier.
ReadLine(g, mvt) ==
    /\ import.at = "distributors" /\ import.read < MaxLines
    /\ calm => g \notin import.record
    /\ import' = [import EXCEPT
            !.lines = [h \in DOMAIN @ \cup {g} |-> IF h = g THEN mvt ELSE @[h]],
            !.record = @ \cup {g}, !.added = @ \ {g}, !.read = @ + 1,
            !.want = [import.want EXCEPT ![g] = Asked(import.want[g], mvt)]]
    /\ UNCHANGED <<today, rates, catalogue, suppliers, asked, imports, screens, saves, nextId>>

\* The bug a merge could have: all the columns are written.
MutMerged(supplier, mvt) ==
    [known |-> TRUE, active |-> Opens(mvt), terms |-> IF Arranges(mvt) THEN imports ELSE 0]

\* What a line leaves of its supplier: merging sets only what the line tells.
Merged(supplier, mvt) ==
    [known |-> TRUE,
     active |-> IF Tells(mvt) THEN Opens(mvt) ELSE supplier.known => supplier.active,
     terms |-> IF Arranges(mvt) THEN imports ELSE supplier.terms]

\* At the end of a record the whole dictionary is merged and committed; the row a line
\* has added is not merged again. A new supplier needs a name: without it the record is
\* rolled back and the import stops.
SyncDistributors ==
    LET lines == import.lines
        new == {g \in DOMAIN lines : ~suppliers[g].known}
    IN  /\ import.at = "distributors"
        /\ IF \E g \in new : ~Names(lines[g])
           THEN import' = NoImport /\ UNCHANGED suppliers
           ELSE /\ suppliers' = [g \in Glns |->
                        IF g \in DOMAIN lines \ import.added THEN Merged(suppliers[g], lines[g])
                        ELSE suppliers[g]]
                /\ import' = [import EXCEPT !.record = {}, !.added = @ \cup new]
        /\ UNCHANGED <<today, rates, catalogue, asked, imports, screens, saves, nextId>>

\* After the last record.
EndDistributors ==
    /\ import.at = "distributors" /\ import.record = {}
    /\ import' = [NoImport EXCEPT !.at = "services"]
    /\ UNCHANGED <<today, rates, catalogue, suppliers, asked, imports, screens, saves, nextId>>

\* The services of a file are not implemented: fetch-returns stops, process-file goes on.
UpdateServices ==
    /\ import.at = "services"
    /\ \E services, fetch \in BOOLEAN :
         import' = IF services /\ fetch THEN NoImport ELSE [import EXCEPT !.at = "books"]
    /\ UNCHANGED <<today, rates, catalogue, suppliers, asked, imports, screens, saves, nextId>>

\* The rows of prices of a notice: one per rate and day, or one of zero today.
Announced == [vat : Rates, from : Days, price : Prices]
Notices ==
    {told \in SUBSET Announced : \A p, q \in told : p # q => p.vat # q.vat \/ p.from # q.from}
NoticeRows(told) ==
    LET sorted == SetToSeq(IF told = {} THEN {[vat |-> NoRate, from |-> today, price |-> 0]} ELSE told)
    IN  {PriceRow(nextId + i - 1, RateOf(sorted[i].vat), sorted[i].from, Open, sorted[i].price) :
            i \in DOMAIN sorted}

\* The text of a notice, its metadata and its book, is abstracted to the import.
NoticeText == imports

\* The session after the notice of a product: its text and its prices are merged and
\* flushed, and the product will be marked.
After(i, e, rows) ==
    LET mine == IF e \in DOMAIN i.work THEN i.work[e] ELSE [old |-> catalogue[e], new |-> catalogue[e]]
        new == [mine.new EXCEPT !.text = NoticeText, !.prices = ApplyRows(mine.new.prices, rows)]
    IN  [i EXCEPT !.work = [x \in DOMAIN @ \cup {e} |->
                                IF x = e THEN [mine EXCEPT !.new = new] ELSE @[x]],
                  !.told = @ \cup {[ean |-> e, vat |-> p.vat, from |-> p.from] : p \in rows},
                  !.marks = Append(@, e)]

\* A notice is read, with a price in a calm behaviour, and merged.
Merge(i, e) ==
    \E told \in Notices :
        LET rows == NoticeRows(told)
        IN  /\ calm => told # {}
            /\ nextId + Cardinality(rows) - 1 <= MaxRows
            /\ import' = After(i, e, rows)
            /\ nextId' = nextId + Cardinality(rows)

MergeNotice(e) ==
    /\ import.at = "books" /\ InCatalogue(e) /\ import.read < MaxLines
    /\ Merge([import EXCEPT !.read = @ + 1], e)
    /\ UNCHANGED <<today, rates, catalogue, suppliers, asked, imports, screens, saves>>

\* A notice of an unknown product is added without a supplier: the database refuses ...
MissNotice(e) ==
    /\ import.at = "books" /\ ~InCatalogue(e) /\ import.read < MaxLines
    /\ import' = [import EXCEPT !.at = "refused", !.read = @ + 1, !.unknown = {e}]
    /\ UNCHANGED <<today, rates, catalogue, suppliers, asked, imports, screens, saves, nextId>>

\* ... and all the notices merged so far are rolled back: the import stops, unless
\* another request has created the product since.
RolledBack == [import EXCEPT !.at = "books", !.told = {}, !.unknown = {}, !.work = << >>]

\* The bug a recovery could have: the notice is passed over and the import goes on.
MutRecover ==
    /\ import.at = "refused"
    /\ import' = RolledBack
    /\ UNCHANGED <<today, rates, catalogue, suppliers, asked, imports, screens, saves, nextId>>

Recover ==
    LET e == CHOOSE x \in import.unknown : TRUE
    IN  /\ import.at = "refused"
        /\ IF InCatalogue(e) THEN Merge(RolledBack, e) ELSE import' = NoImport /\ UNCHANGED nextId
        /\ UNCHANGED <<today, rates, catalogue, suppliers, asked, imports, screens, saves>>

\* The rows the session changed replace those of the database, the others stay.
Written(e) ==
    LET w == import.work[e]
        changed == {p.id : p \in w.new.prices \ w.old.prices}
    IN  [catalogue[e] EXCEPT !.text = w.new.text,
            !.prices = {p \in @ : p.id \notin changed} \cup (w.new.prices \ w.old.prices)]

CommitBooks ==
    /\ import.at = "books"
    /\ catalogue' = [e \in Products |-> IF e \in DOMAIN import.work THEN Written(e) ELSE catalogue[e]]
    /\ import' = [import EXCEPT !.at = "marking", !.work = << >>, !.told = {}]
    /\ UNCHANGED <<today, rates, suppliers, asked, imports, screens, saves, nextId>>

\* A reference waiting in the referential is created; one that is not there stops the import.
MarkImported ==
    LET e == Head(import.marks)
    IN  /\ import.at = "marking" /\ import.marks # << >>
        /\ asked' = IF asked[e] = "asked" THEN [asked EXCEPT ![e] = "done"] ELSE asked
        /\ import' = IF asked[e] = "no" THEN NoImport ELSE [import EXCEPT !.marks = Tail(@)]
        /\ UNCHANGED <<today, rates, catalogue, suppliers, imports, screens, saves, nextId>>

EndImport ==
    /\ import.at = "marking" /\ import.marks = << >>
    /\ import' = NoImport
    /\ UNCHANGED <<today, rates, catalogue, suppliers, asked, imports, screens, saves, nextId>>

\* The process dies: what was not committed is lost.
Stop ==
    /\ import.at # "idle"
    /\ import' = NoImport
    /\ UNCHANGED <<today, rates, catalogue, suppliers, asked, imports, screens, saves, nextId>>
-----------------------------------------------------------------------------
CatalogueStep ==
    \/ NextDay
    \/ \E r \in Rates : CloseRate(r)
    \/ \E e \in Products : CreateProduct(e) \/ ToggleProduct(e) \/ AddToDilicom(e)
    \/ \E t \in Clerks, e \in Products : OpenScreen(t, e)
    \/ \E t \in Clerks : LoadProduct(t) \/ SaveProduct(t)
    \/ \E g \in Glns : CreateSupplier(g) \/ EditSupplier(g) \/ ToggleSupplier(g)
    \/ BeginImport
    \/ \E g \in Glns, mvt \in Movements : ReadLine(g, mvt)
    \/ SyncDistributors \/ EndDistributors \/ UpdateServices
    \/ \E e \in Products : MergeNotice(e) \/ MissNotice(e)
    \/ Recover \/ CommitBooks \/ MarkImported \/ EndImport \/ Stop

CatalogueNext == UNCHANGED calm /\ CatalogueStep

CatalogueSpec == CatalogueInit /\ [][CatalogueNext]_catalogueVars
-----------------------------------------------------------------------------
(* Properties *)

\* The periods of one rate never overlap: a day has at most one price per rate,
\* whatever is imported, typed and imported again (_apply_price_rows).
PeriodsDisjoint == \A e \in DOMAIN catalogue : Disjoint(catalogue[e].prices)

\* In a calm behaviour the marks of an import are for what it committed: its rollback leaves nothing half
\* imported that the referential would call created (_flush_instance, _update_synced).
BatchIsWhole ==
    calm /\ import.at = "marking" => \A e \in ToSet(import.marks) : catalogue[e].text = imports

\* The price shown and the price of the searches are the same as soon as a price has
\* begun (get_price, _general_object_price_expression).
PricesAgree ==
    \A e \in DOMAIN catalogue :
        (\E p \in catalogue[e].prices : p.from <= today) =>
            SqlPrice(catalogue[e].prices) = CurrentPrice(catalogue[e].prices)

\* The two computations of the price agree; and in a calm behaviour imports and
\* screens leave at most one price per rate on any day.
PricesAreSound == PricesAgree /\ (calm => PeriodsDisjoint)

\* An import changes no future price it does not announce ("sans modifier les tarifs
\* futurs connus").
FuturePricesKept ==
    [][import.at = "books" /\ import'.at = "marking" =>
        \A e \in DOMAIN catalogue : \A p \in catalogue[e].prices :
            p.from > today /\ [ean |-> e, vat |-> p.vat, from |-> p.from] \notin import.told =>
                \E q \in catalogue'[e].prices :
                    q.id = p.id /\ q.from = p.from /\ q.price = p.price]_catalogueVars

\* In a calm behaviour the suppliers are, after each record, as all the lines read so far
\* ask one after another: what a line does not tell, its activity or its terms, stays as an
\* earlier line, or record, or import, or screen has set it (_update_distributors).
SuppliersFollowTheirLines ==
    calm /\ import.at = "distributors" /\ import.record = {} =>
        \A g \in DOMAIN suppliers :
            suppliers[g].active = import.want[g].active /\ suppliers[g].terms = import.want[g].terms
=============================================================================
