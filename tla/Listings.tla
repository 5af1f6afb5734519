------------------------------- MODULE Listings -------------------------------
(***************************************************************************)
(* The five listings with cursor pages (list_stock_movements,              *)
(* list_stock_transfers, list_sales, list_products, list_warehouses) beside *)
(* the transactions that insert rows and the updates of the catalog.  A    *)
(* page is two or more statements of a READ COMMITTED transaction, so each *)
(* sees what has been committed by then.                                   *)
(***************************************************************************)
EXTENDS ListingTypes

CONSTANTS
  Fact,      \* what the columns of each row say that never changes
  Edited,    \* the products and warehouses that are updated meanwhile
  Scripts,   \* the walks, the rows that are there, and those that are inserted later
  Horizon    \* the last instant of a behaviour; bounds the clock

Tables == {"products", "warehouses", "movements", "transfers", "sales"}
Ask == [list : Tables, newest : BOOLEAN, product : Rows, warehouse : Rows,
        inactive : BOOLEAN, search : BOOLEAN, limit : Nat \ {0},
        start : Rows \cup {NoRow}]

\* The histories are newest first, the catalogs oldest first.
Catalogs == {"products", "warehouses"}

ASSUME ListingAssumption ==
  /\ Fact \in [Rows -> [table : Tables, product : Rows, warehouses : SUBSET Rows,
                        coded : BOOLEAN]]
  /\ Edited \subseteq {r \in Rows : Fact[r].table \in Catalogs}
  /\ Horizon \in Nat
  /\ \A s \in Scripts :
       /\ s.ask \in [Walkers -> Ask]
       /\ \A w \in Walkers : s.ask[w].newest <=> s.ask[w].list \notin Catalogs
       /\ s.there \subseteq Rows /\ s.planned \subseteq Rows \ s.there
       /\ \A w \in Walkers : s.ask[w].start \notin s.planned

VARIABLES
  clock,
  state,    \* of each row: none, planned, open in a transaction, committed
  stamp,    \* created_at: now(), the time at which the inserting transaction began
  active,   \* whether each product and warehouse is active
  named,    \* whether the name of each product and warehouse matches a search
  ask,      \* the parameters of each walk
  pc,       \* the next statement of the call that gets the next page
  bound,    \* the position that the cursor lookup of the call has read
  shown, last, outcome, steady   \* as in Walks

tables == <<state, stamp, active, named>>
walks == <<pc, bound, shown, last, outcome>>
vars == <<clock, tables, ask, walks, steady>>

-------------------------------------------------------------------------------
(* What the statements select *)

InContext(k, r) == Fact[r].product = k.product /\ k.warehouse \in Fact[r].warehouses

\* The WHERE of a catalog: active unless inactive ones are wanted; the SKU or code,
\* or the name, matches the search.
Found(k, r) ==
  /\ k.inactive \/ active[r]
  /\ k.search => Fact[r].coded \/ named[r]

Selected(w) ==
  LET k == ask[w] IN
  {r \in Rows : /\ state[r] = "committed"
                /\ Fact[r].table = k.list
                /\ k.list \in {"movements", "transfers"} => InContext(k, r)
                /\ k.list \in Catalogs => Found(k, r)}

Before(k, a, b) == Earlier(k.newest, stamp[a], a, stamp[b], b)

\* The keyset condition on what the cursor lookup has read.
\* Mutant: the row of the cursor once more.
FromCursorOn(w, r) ==
  LET b == bound[w] IN
  b.id = NoRow \/ b.id = r \/ Earlier(ask[w].newest, b.stamp, b.id, stamp[r], r)
Beyond(w, r) ==
  LET b == bound[w] IN b.id = NoRow \/ Earlier(ask[w].newest, b.stamp, b.id, stamp[r], r)

NoBound == [stamp |-> 0, id |-> NoRow]

-------------------------------------------------------------------------------
(* The statements of a call *)

\* The first statement of the call that asks for the page after row c.
FirstStatement(k, c) ==
  CASE k.list \in {"movements", "transfers"} -> "product"
    [] k.list \notin {"movements", "transfers"} /\ c = NoRow -> "page"
    [] OTHER -> "cursor"

End(w, o) ==
  /\ outcome' = [outcome EXCEPT ![w] = o]
  /\ pc' = [pc EXCEPT ![w] = "over"]
  /\ UNCHANGED <<bound, shown, last>>

Goto(w, next) ==
  /\ pc' = [pc EXCEPT ![w] = next]
  /\ UNCHANGED <<bound, shown, last, outcome>>

Exists(r, table) == state[r] = "committed" /\ Fact[r].table = table

\* _require_inventory_context, a select for the product and one for the warehouse.
RequireInventoryContext(w) ==
  LET k == ask[w] IN
  \/ /\ pc[w] = "product"
     /\ IF Exists(k.product, "products") THEN Goto(w, "warehouse") ELSE End(w, "not_found")
  \/ /\ pc[w] = "warehouse"
     /\ IF Exists(k.warehouse, "warehouses")
        THEN Goto(w, IF last[w] = NoRow THEN "page" ELSE "cursor")
        ELSE End(w, "not_found")

\* The lookup of the cursor, under the filters of the listing.
ReadCursor(w) ==
  /\ pc[w] = "cursor"
  /\ \/ /\ last[w] \notin Selected(w)
        /\ End(w, "refused")
     \/ /\ last[w] \in Selected(w)
        /\ bound' = [bound EXCEPT ![w] = [stamp |-> stamp[last[w]], id |-> last[w]]]
        /\ pc' = [pc EXCEPT ![w] = "page"]
        /\ UNCHANGED <<shown, last, outcome>>

\* SELECT ... LIMIT limit + 1: the row too many says whether there is another page.
\* The last row of the page is the cursor of the call that the client makes next.
\* Mutant: the cursor is the row too many.
RowTooMany(k, page, rest) ==
  {r \in rest \ page : \A a \in rest \ (page \cup {r}) : Before(k, r, a)}
NextCursor(k, page, rest) ==
  {r \in page : \A a \in page \ {r} : Before(k, a, r)}

ReadPage(w) ==
  LET k == ask[w]
      rest == {r \in Selected(w) : Beyond(w, r)}
  IN  /\ pc[w] = "page"
      /\ \E page \in SUBSET rest :
           /\ \A a \in page, b \in rest \ page : Before(k, a, b)
           /\ shown' = [shown EXCEPT ![w] = @ \cup page]
           /\ \/ /\ page = rest
                 /\ Cardinality(page) <= k.limit
                 /\ outcome' = [outcome EXCEPT ![w] = "complete"]
                 /\ pc' = [pc EXCEPT ![w] = "over"]
                 /\ UNCHANGED <<bound, last>>
              \/ /\ page # rest
                 /\ Cardinality(page) = k.limit
                 /\ \E r \in NextCursor(k, page, rest) :
                      /\ last' = [last EXCEPT ![w] = r]
                      /\ pc' = [pc EXCEPT ![w] = FirstStatement(k, r)]
                 /\ bound' = [bound EXCEPT ![w] = NoBound]
                 /\ UNCHANGED outcome

\* The five handlers.
ListStockMovements(w) ==
  /\ ask[w].list = "movements"
  /\ RequireInventoryContext(w) \/ ReadCursor(w) \/ ReadPage(w)
ListStockTransfers(w) ==
  /\ ask[w].list = "transfers"
  /\ RequireInventoryContext(w) \/ ReadCursor(w) \/ ReadPage(w)
ListSales(w)      == ask[w].list = "sales" /\ (ReadCursor(w) \/ ReadPage(w))
ListProducts(w)   == ask[w].list = "products" /\ (ReadCursor(w) \/ ReadPage(w))
ListWarehouses(w) == ask[w].list = "warehouses" /\ (ReadCursor(w) \/ ReadPage(w))

Call(w) ==
  \/ ListStockMovements(w) \/ ListStockTransfers(w) \/ ListSales(w)
  \/ ListProducts(w) \/ ListWarehouses(w)

-------------------------------------------------------------------------------
(* The transactions that change the tables *)

\* A transaction begins that will insert row r; now() is fixed by that.
Begin(r) ==
  /\ state[r] = "planned"
  /\ state' = [state EXCEPT ![r] = "open"]
  /\ stamp' = [stamp EXCEPT ![r] = clock]
  /\ UNCHANGED <<active, named>>

\* The rows that the foreign keys of row r name: an entry of a history has its product
\* and its warehouses, a product or a warehouse has none.
References(r) ==
  IF Fact[r].table \in Catalogs THEN {} ELSE {Fact[r].product} \cup Fact[r].warehouses

\* It commits, maybe long after.  One that fails is one that never does.
Commit(r) ==
  /\ state[r] = "open"
  /\ \A e \in References(r) : state[e] = "committed"
  /\ state' = [state EXCEPT ![r] = "committed"]
  /\ UNCHANGED <<stamp, active, named>>

\* update_product, update_warehouse: the name and the active flag change, created_at,
\* SKU and code do not.
Edit(r) ==
  /\ state[r] = "committed"
  /\ \E a, n \in BOOLEAN :
       active' = [active EXCEPT ![r] = a] /\ named' = [named EXCEPT ![r] = n]
  /\ UNCHANGED <<state, stamp>>

TablesChange ==
  \/ /\ clock < Horizon
     /\ clock' = clock + 1
     /\ UNCHANGED tables
  \/ /\ \/ \E r \in Rows : Begin(r) \/ Commit(r)
        \/ \E r \in Edited : Edit(r)
     /\ UNCHANGED clock

-------------------------------------------------------------------------------
Init ==
  /\ clock = 0
  /\ \E s \in Scripts :
       /\ ask = s.ask
       /\ state = [r \in Rows |-> CASE r \in s.there   -> "committed"
                                    [] r \in s.planned -> "planned"
                                    [] OTHER           -> "none"]
  /\ stamp = [r \in Rows |-> 0]
  /\ active = [r \in Rows |-> TRUE]
  /\ named = [r \in Rows |-> TRUE]
  /\ last = [w \in Walkers |-> ask[w].start]
  /\ pc = [w \in Walkers |-> FirstStatement(ask[w], ask[w].start)]
  /\ bound = [w \in Walkers |-> NoBound]
  /\ shown = [w \in Walkers |-> {}]
  /\ outcome = [w \in Walkers |-> "walking"]
  /\ steady = [w \in Walkers |-> Selected(w)]

\* For the property only: what has been selected since the first page.
Watch ==
  steady' = [w \in Walkers |->
    IF shown[w] # {} \/ outcome[w] # "walking" THEN steady[w] \cap Selected(w)'
                                               ELSE Selected(w)']

Change == TablesChange /\ UNCHANGED <<ask, walks>> /\ Watch
Statement(w) == Call(w) /\ UNCHANGED <<clock, tables, ask>> /\ Watch

Next == Change \/ \E w \in Walkers : Statement(w)

Spec == Init /\ [][Next]_vars

-------------------------------------------------------------------------------
(* Properties *)

\* A page is put together from a lookup of the cursor and a select some time later;
\* still it is the next page of Walks at one instant.
Walk == INSTANCE WalksProofs WITH listed <- [w \in Walkers |-> Selected(w)]
ImplementsWalk == Walk!Spec

\* What Walks promises.
NothingMissed == Walk!NothingMissed
===============================================================================
