---------------------------- MODULE ListingsProofs ----------------------------
(* Listings implements Walks, for any number of walks, rows and transactions. *)
EXTENDS Listings, TLAPS

Histories == {"movements", "transfers"}
RowStates == {"none", "planned", "open", "committed"}
CallSteps == {"product", "warehouse", "cursor", "page", "over"}

TypeOK ==
  /\ clock \in Nat
  /\ state \in [Rows -> RowStates]
  /\ stamp \in [Rows -> Nat]
  /\ active \in [Rows -> BOOLEAN]
  /\ named \in [Rows -> BOOLEAN]
  /\ ask \in [Walkers -> Ask]
  /\ pc \in [Walkers -> CallSteps]
  /\ bound \in [Walkers -> [stamp : Nat, id : Rows \cup {NoRow}]]
  /\ shown \in [Walkers -> SUBSET Rows]
  /\ last \in [Walkers -> Rows \cup {NoRow}]
  /\ outcome \in [Walkers -> {"walking", "complete", "refused", "not_found"}]

\* Products and warehouses are not deleted: those that a walk has found are there.
ContextFound(w) ==
  ask[w].list \in Histories =>
    /\ pc[w] \in {"warehouse", "cursor", "page"} \/ shown[w] # {}
       => Exists(ask[w].product, "products")
    /\ pc[w] \in {"cursor", "page"} \/ shown[w] # {}
       => Exists(ask[w].warehouse, "warehouses")

\* Rows that a walk has seen have their place for good, so the position that a lookup has
\* read is still that of the cursor when the page is selected.
WalkInv(w) ==
  /\ pc[w] = "over" <=> outcome[w] # "walking"
  /\ pc[w] = "page" =>
       bound[w].id = last[w] /\ (last[w] # NoRow => bound[w].stamp = stamp[last[w]])
  /\ pc[w] \in {"product", "warehouse", "cursor"} => bound[w] = NoBound
  /\ pc[w] = "cursor" => last[w] # NoRow
  /\ pc[w] \in {"product", "warehouse"} => ask[w].list \in Histories
  /\ \A r \in shown[w] : state[r] = "committed"
  /\ \A r \in {last[w], ask[w].start} : r # NoRow => state[r] # "planned"
  /\ ContextFound(w)

IInv == TypeOK /\ \A w \in Walkers : WalkInv(w)

LEMMA FirstStatementType ==
  ASSUME NEW k \in Ask, NEW c
  PROVE  /\ FirstStatement(k, c) \in {"product", "cursor", "page"}
         /\ FirstStatement(k, c) = "product" => k.list \in Histories
         /\ FirstStatement(k, c) = "page" => c = NoRow
         /\ FirstStatement(k, c) = "cursor" => c # NoRow /\ k.list \notin Histories
         /\ k.list \in Histories => FirstStatement(k, c) = "product"
  BY DEF FirstStatement, Histories

LEMMA InitInv == Init => IInv
  <1> SUFFICES ASSUME Init
               PROVE  IInv
    OBVIOUS
  <1>1. PICK s \in Scripts :
          /\ ask = s.ask
          /\ state = [r \in Rows |-> CASE r \in s.there   -> "committed"
                                       [] r \in s.planned -> "planned"
                                       [] OTHER           -> "none"]
    BY DEF Init
  <1>2. ask \in [Walkers -> Ask] /\ \A w \in Walkers : ask[w].start \notin s.planned
    BY <1>1, ListingAssumption
  <1>3. \A w \in Walkers : ask[w].start \in Rows \cup {NoRow}
    BY <1>2 DEF Ask
  <1>4. TypeOK
    <2>1. \A w \in Walkers : pc[w] \in CallSteps
      BY <1>2, FirstStatementType DEF Init, CallSteps
    <2>2. pc \in [Walkers -> CallSteps]
      BY <2>1 DEF Init
    <2>3. last \in [Walkers -> Rows \cup {NoRow}]
      BY <1>3 DEF Init
    <2>4. state \in [Rows -> RowStates]
      BY <1>1 DEF RowStates
    <2> QED
      BY <1>2, <2>2, <2>3, <2>4 DEF Init, TypeOK, NoBound
  <1>5. ASSUME NEW w \in Walkers
        PROVE  WalkInv(w)
    <2>1. /\ last[w] = ask[w].start /\ pc[w] = FirstStatement(ask[w], last[w])
          /\ bound[w] = NoBound /\ shown[w] = {} /\ outcome[w] = "walking"
      BY DEF Init
    <2>2. ask[w].start # NoRow => state[ask[w].start] # "planned"
      BY <1>1, <1>2, <1>3
    <2>3. /\ pc[w] \in {"product", "cursor", "page"}
          /\ pc[w] = "product" => ask[w].list \in Histories
          /\ pc[w] = "page" => last[w] = NoRow
          /\ pc[w] = "cursor" => last[w] # NoRow
          /\ ask[w].list \in Histories => pc[w] = "product"
      BY <1>2, <2>1, FirstStatementType
    <2> QED
      BY <2>1, <2>2, <2>3 DEF WalkInv, ContextFound, NoBound
  <1> QED
    BY <1>4, <1>5 DEF IInv

-------------------------------------------------------------------------------
(* The transactions that change the tables *)

\* No row that was ever committed, or was never planned, changes its place.
LEMMA PlacesStay ==
  ASSUME TypeOK, TablesChange
  PROVE  /\ clock' \in Nat
         /\ state' \in [Rows -> RowStates] /\ stamp' \in [Rows -> Nat]
         /\ active' \in [Rows -> BOOLEAN] /\ named' \in [Rows -> BOOLEAN]
         /\ \A r \in Rows : state[r] # "planned" => stamp'[r] = stamp[r] /\ state'[r] # "planned"
         /\ \A r \in Rows : state[r] = "committed" => state'[r] = "committed"
  <1>1. CASE clock' = clock + 1 /\ UNCHANGED tables
    BY <1>1 DEF TypeOK, tables
  <1>2. CASE UNCHANGED clock /\ \E r \in Rows : Begin(r)
    BY <1>2 DEF TypeOK, Begin, RowStates
  <1>3. CASE UNCHANGED clock /\ \E r \in Rows : Commit(r)
    BY <1>3 DEF TypeOK, Commit, RowStates
  <1>4. CASE UNCHANGED clock /\ \E r \in Edited : Edit(r)
    BY <1>4 DEF TypeOK, Edit
  <1> QED
    BY <1>1, <1>2, <1>3, <1>4 DEF TablesChange

LEMMA ChangeInv == IInv /\ Change => IInv'
  <1> SUFFICES ASSUME IInv, Change
               PROVE  IInv'
    OBVIOUS
  <1>1. TypeOK /\ TablesChange /\ UNCHANGED <<ask, pc, bound, shown, last, outcome>>
    BY DEF IInv, Change, walks
  <1>2. TypeOK'
    BY <1>1, PlacesStay DEF TypeOK
  <1>3. ASSUME NEW w \in Walkers
        PROVE  WalkInv(w)'
    <2>1. WalkInv(w)
      BY DEF IInv
    <2>2. /\ last[w] \in Rows \cup {NoRow} /\ ask[w].start \in Rows \cup {NoRow}
          /\ shown[w] \subseteq Rows /\ ask[w].product \in Rows /\ ask[w].warehouse \in Rows
      BY <1>1 DEF TypeOK, Ask
    <2>3. /\ last[w] # NoRow => stamp'[last[w]] = stamp[last[w]] /\ state'[last[w]] # "planned"
          /\ ask[w].start # NoRow => state'[ask[w].start] # "planned"
          /\ \A r \in shown[w] : state'[r] = "committed"
      BY <1>1, <2>1, <2>2, PlacesStay DEF WalkInv
    <2>4. /\ Exists(ask[w].product, "products") => Exists(ask[w].product, "products")'
          /\ Exists(ask[w].warehouse, "warehouses") => Exists(ask[w].warehouse, "warehouses")'
      BY <1>1, <2>2, PlacesStay DEF Exists
    <2>5. ContextFound(w)'
      BY <1>1, <2>1, <2>4 DEF WalkInv, ContextFound
    <2> QED
      BY <1>1, <2>1, <2>2, <2>3, <2>5 DEF WalkInv
  <1> QED
    BY <1>2, <1>3 DEF IInv

-------------------------------------------------------------------------------
(* The statements of a call *)

\* What a statement of walk w leaves alone.
Quiet(w) ==
  /\ UNCHANGED <<clock, tables, ask>>
  /\ \A u \in Walkers \ {w} :
       /\ pc'[u] = pc[u] /\ bound'[u] = bound[u] /\ shown'[u] = shown[u]
       /\ last'[u] = last[u] /\ outcome'[u] = outcome[u]

LEMMA OthersInv ==
  ASSUME IInv, NEW w \in Walkers, Quiet(w), NEW u \in Walkers \ {w}
  PROVE  WalkInv(u)'
  BY DEF IInv, Quiet, WalkInv, ContextFound, Exists, tables

\* The four ways in which a statement ends.
StatementEffect(w) ==
  \/ \E next \in {"warehouse", "cursor", "page"} :
       /\ ask[w].list \in Histories
       /\ next = "warehouse" => pc[w] = "product" /\ Exists(ask[w].product, "products")
       /\ next # "warehouse" => /\ pc[w] = "warehouse" /\ Exists(ask[w].warehouse, "warehouses")
                                /\ next = "page" <=> last[w] = NoRow
       /\ Goto(w, next)
  \/ /\ pc[w] \in {"product", "warehouse"} /\ shown[w] = {}
     /\ End(w, "not_found")
  \/ ReadCursor(w)
  \/ ReadPage(w)

LEMMA StatementCases ==
  ASSUME IInv, NEW w \in Walkers, Statement(w)
  PROVE  StatementEffect(w) /\ UNCHANGED <<clock, tables, ask>> /\ Watch
  <1>1. WalkInv(w) /\ UNCHANGED <<clock, tables, ask>> /\ Watch /\ Call(w)
    BY DEF IInv, Statement
  <1>2. CASE RequireInventoryContext(w)
    <2>1. pc[w] \in {"product", "warehouse"} /\ ask[w].list \in Histories
      BY <1>1, <1>2 DEF RequireInventoryContext, WalkInv
    <2>2. CASE pc[w] = "product" /\ Exists(ask[w].product, "products")
      <3>1. Goto(w, "warehouse")
        BY <1>2, <2>2 DEF RequireInventoryContext
      <3>2. StatementEffect(w)
        BY <2>1, <2>2, <3>1 DEF StatementEffect
      <3> QED
        BY <1>1, <3>2
    <2>3. CASE pc[w] = "product" /\ ~Exists(ask[w].product, "products")
      <3>1. End(w, "not_found")
        BY <1>2, <2>3 DEF RequireInventoryContext
      <3>2. shown[w] = {}
        BY <1>1, <2>1, <2>3 DEF WalkInv, ContextFound
      <3> QED
        BY <1>1, <2>3, <3>1, <3>2 DEF StatementEffect
    <2>4. CASE pc[w] = "warehouse" /\ Exists(ask[w].warehouse, "warehouses")
      <3>1. Goto(w, IF last[w] = NoRow THEN "page" ELSE "cursor")
        BY <1>2, <2>4 DEF RequireInventoryContext
      <3>2. StatementEffect(w)
        BY <2>1, <2>4, <3>1 DEF StatementEffect
      <3> QED
        BY <1>1, <3>2
    <2>5. CASE pc[w] = "warehouse" /\ ~Exists(ask[w].warehouse, "warehouses")
      <3>1. End(w, "not_found")
        BY <1>2, <2>5 DEF RequireInventoryContext
      <3>2. shown[w] = {}
        BY <1>1, <2>1, <2>5 DEF WalkInv, ContextFound
      <3> QED
        BY <1>1, <2>5, <3>1, <3>2 DEF StatementEffect
    <2> QED
      BY <1>1, <2>1, <2>2, <2>3, <2>4, <2>5
  <1>3. CASE ReadCursor(w) \/ ReadPage(w)
    BY <1>1, <1>3 DEF StatementEffect
  <1> QED
    BY <1>1, <1>2, <1>3
    DEF Call, ListStockMovements, ListStockTransfers, ListSales, ListProducts, ListWarehouses

LEMMA StatementIsQuiet ==
  ASSUME IInv, NEW w \in Walkers, Statement(w)
  PROVE  Quiet(w)
  <1>1. StatementEffect(w) /\ UNCHANGED <<clock, tables, ask>> /\ TypeOK
    BY StatementCases DEF IInv
  <1>2. CASE (\E n : Goto(w, n)) \/ End(w, "not_found")
    BY <1>1, <1>2 DEF Goto, End, Quiet, TypeOK
  <1>3. CASE ReadCursor(w)
    BY <1>1, <1>3 DEF ReadCursor, End, Quiet, TypeOK
  <1>4. CASE ReadPage(w)
    BY <1>1, <1>4 DEF ReadPage, Quiet, TypeOK
  <1> QED
    BY <1>1, <1>2, <1>3, <1>4 DEF StatementEffect
LEMMA SelectedCommitted ==
  ASSUME NEW w \in Walkers
  PROVE  Selected(w) \subseteq {r \in Rows : state[r] = "committed"}
  BY DEF Selected

LEMMA GotoInv ==
  ASSUME IInv, NEW w \in Walkers, NEW next \in {"warehouse", "cursor", "page"}, Goto(w, next),
         UNCHANGED <<clock, tables, ask>>, ask[w].list \in Histories,
         next = "warehouse" => pc[w] = "product" /\ Exists(ask[w].product, "products"),
         next # "warehouse" => /\ pc[w] = "warehouse" /\ Exists(ask[w].warehouse, "warehouses")
                               /\ next = "page" <=> last[w] = NoRow
  PROVE  TypeOK' /\ WalkInv(w)'
  <1>1. TypeOK /\ WalkInv(w)
    BY DEF IInv
  <1>2. TypeOK' /\ pc'[w] = next
    BY <1>1 DEF TypeOK, Goto, tables, CallSteps
  <1>3. ContextFound(w)'
    BY <1>1, <1>2 DEF WalkInv, ContextFound, Exists, Goto, tables
  <1> QED
    BY <1>1, <1>2, <1>3 DEF WalkInv, Goto, tables, NoBound

LEMMA EndInv ==
  ASSUME IInv, NEW w \in Walkers, NEW o \in {"not_found", "refused"}, End(w, o),
         UNCHANGED <<clock, tables, ask>>
  PROVE  TypeOK' /\ WalkInv(w)'
  <1>1. TypeOK /\ WalkInv(w)
    BY DEF IInv
  <1>2. TypeOK' /\ pc'[w] = "over" /\ outcome'[w] = o
    BY <1>1 DEF TypeOK, End, tables, CallSteps
  <1>3. ContextFound(w)'
    BY <1>1, <1>2 DEF WalkInv, ContextFound, Exists, End, tables
  <1> QED
    BY <1>1, <1>2, <1>3 DEF WalkInv, End, tables

LEMMA ReadCursorInv ==
  ASSUME IInv, NEW w \in Walkers, ReadCursor(w), UNCHANGED <<clock, tables, ask>>
  PROVE  TypeOK' /\ WalkInv(w)'
  <1>1. CASE End(w, "refused")
    BY <1>1, EndInv
  <1>2. CASE /\ last[w] \in Selected(w)
             /\ bound' = [bound EXCEPT ![w] = [stamp |-> stamp[last[w]], id |-> last[w]]]
             /\ pc' = [pc EXCEPT ![w] = "page"]
             /\ UNCHANGED <<shown, last, outcome>>
    <2>1. TypeOK /\ WalkInv(w) /\ pc[w] = "cursor"
      BY DEF IInv, ReadCursor
    <2>2. last[w] \in Rows
      BY <1>2, SelectedCommitted
    <2>3. TypeOK' /\ pc'[w] = "page" /\ bound'[w] = [stamp |-> stamp[last[w]], id |-> last[w]]
      BY <1>2, <2>1, <2>2 DEF TypeOK, tables, CallSteps
    <2>4. ContextFound(w)'
      BY <1>2, <2>1, <2>3 DEF WalkInv, ContextFound, Exists, tables
    <2> QED
      BY <1>2, <2>1, <2>3, <2>4 DEF WalkInv, tables
  <1> QED
    BY <1>1, <1>2 DEF ReadCursor

LEMMA ReadPageInv ==
  ASSUME IInv, NEW w \in Walkers, ReadPage(w), UNCHANGED <<clock, tables, ask>>
  PROVE  TypeOK' /\ WalkInv(w)'
  <1> DEFINE rest == {r \in Selected(w) : Beyond(w, r)}
  <1>0. TypeOK /\ WalkInv(w) /\ pc[w] = "page" /\ outcome[w] = "walking"
    BY DEF IInv, WalkInv, ReadPage
  <1>1. PICK page \in SUBSET rest :
          /\ shown' = [shown EXCEPT ![w] = @ \cup page]
          /\ \/ /\ outcome' = [outcome EXCEPT ![w] = "complete"]
                /\ pc' = [pc EXCEPT ![w] = "over"]
                /\ UNCHANGED <<bound, last>>
             \/ /\ \E r \in NextCursor(ask[w], page, rest) :
                     /\ last' = [last EXCEPT ![w] = r]
                     /\ pc' = [pc EXCEPT ![w] = FirstStatement(ask[w], r)]
                /\ bound' = [bound EXCEPT ![w] = NoBound]
                /\ UNCHANGED outcome
    BY DEF ReadPage
  <1>2. page \subseteq Rows /\ \A r \in page : state[r] = "committed"
    BY SelectedCommitted
  <1>3. /\ shown' \in [Walkers -> SUBSET Rows] /\ shown'[w] = shown[w] \cup page
        /\ \A r \in shown'[w] : state[r] = "committed"
    BY <1>0, <1>1, <1>2 DEF TypeOK, WalkInv
  <1>4. ask[w].list \in Histories =>
          Exists(ask[w].product, "products") /\ Exists(ask[w].warehouse, "warehouses")
    BY <1>0 DEF WalkInv, ContextFound
  <1>5. ContextFound(w)'
    BY <1>4 DEF ContextFound, Exists, tables
  <1>6. CASE /\ outcome' = [outcome EXCEPT ![w] = "complete"]
             /\ pc' = [pc EXCEPT ![w] = "over"]
             /\ UNCHANGED <<bound, last>>
    <2>1. TypeOK' /\ outcome'[w] = "complete" /\ pc'[w] = "over"
      BY <1>0, <1>3, <1>6 DEF TypeOK, tables, CallSteps
    <2> QED
      BY <1>0, <1>3, <1>5, <1>6, <2>1 DEF WalkInv, tables
  <1>7. ASSUME NEW r \in page,
               last' = [last EXCEPT ![w] = r],
               pc' = [pc EXCEPT ![w] = FirstStatement(ask[w], r)],
               bound' = [bound EXCEPT ![w] = NoBound],
               UNCHANGED outcome
        PROVE  TypeOK' /\ WalkInv(w)'
    <2>1. ask[w] \in Ask /\ r \in Rows /\ r # NoRow
      BY <1>0, <1>2, RowAssumption DEF TypeOK
    <2>2. /\ FirstStatement(ask[w], r) \in {"product", "cursor"}
          /\ FirstStatement(ask[w], r) = "product" => ask[w].list \in Histories
      BY <2>1, FirstStatementType
    <2>3. /\ TypeOK' /\ last'[w] = r /\ bound'[w] = NoBound
          /\ pc'[w] = FirstStatement(ask[w], r) /\ outcome'[w] = "walking"
      BY <1>0, <1>3, <1>7, <2>1, <2>2 DEF TypeOK, tables, CallSteps, NoBound
    <2>4. state'[r] # "planned" /\ (ask[w].start # NoRow => state'[ask[w].start] # "planned")
      BY <1>0, <1>2 DEF WalkInv, tables
    <2> QED
      BY <1>3, <1>5, <2>1, <2>2, <2>3, <2>4 DEF WalkInv, tables
  <1> QED
    BY <1>1, <1>6, <1>7 DEF NextCursor

LEMMA StatementInv == ASSUME IInv, NEW w \in Walkers, Statement(w)
                     PROVE  IInv'
  <1>1. StatementEffect(w) /\ UNCHANGED <<clock, tables, ask>>
    BY StatementCases
  <1>2. TypeOK' /\ WalkInv(w)'
    BY <1>1, GotoInv, EndInv, ReadCursorInv, ReadPageInv DEF StatementEffect
  <1>3. \A u \in Walkers \ {w} : WalkInv(u)'
    BY StatementIsQuiet, OthersInv
  <1> QED
    BY <1>2, <1>3 DEF IInv

LEMMA NextInv == IInv /\ [Next]_vars => IInv'
  <1> SUFFICES ASSUME IInv, [Next]_vars
               PROVE  IInv'
    OBVIOUS
  <1>1. CASE UNCHANGED vars
    BY <1>1 DEF IInv, TypeOK, WalkInv, ContextFound, Exists, vars, tables, walks
  <1> QED
    BY <1>1, ChangeInv, StatementInv DEF Next
\* The types of the state, for every instance.
THEOREM TypeCorrect == Spec => []TypeOK
  BY InitInv, NextInv, PTL DEF Spec, IInv

-------------------------------------------------------------------------------
(* The refinement *)

LEMMA SameWords ==
  ASSUME NEW n, NEW a, NEW b, NEW c, NEW d
  PROVE  Walk!Earlier(n, a, b, c, d) = Earlier(n, a, b, c, d)
  BY DEF Earlier, Walk!Earlier

LEMMA SameCount == ASSUME NEW S PROVE Walk!Cardinality(S) = Cardinality(S)
  BY DEF Cardinality, Walk!Cardinality

LEMMA SelectedRows == \A w \in Walkers : Selected(w) \subseteq Rows
  BY DEF Selected

LEMMA SelectedRowsAfter == \A w \in Walkers : Selected(w)' \subseteq Rows
  BY DEF Selected

LEMMA SameWatch == Watch => Walk!Watch
  BY DEF Watch, Walk!Watch, Walk!Begun

LEMMA InitIsInit == Init => Walk!Init
  <1> SUFFICES ASSUME Init
               PROVE  Walk!Init
    OBVIOUS
  <1>1. TypeOK
    BY InitInv DEF IInv
  <1>2. \A w \in Walkers : Walk!WellAsked(w)
    BY <1>1 DEF TypeOK, Ask, Walk!WellAsked
  <1>3. [w \in Walkers |-> Selected(w)] \in [Walkers -> SUBSET Rows]
    BY SelectedRows
  <1> QED
    BY <1>1, <1>2, <1>3 DEF Init, TypeOK, Walk!Init

\* A step that shows no page and ends no walk is a change of Walks, if it moves no row that
\* a walk has to do with.
LEMMA ShowsNothing ==
  ASSUME Watch, UNCHANGED <<ask, shown, last, outcome>>, stamp' \in [Rows -> Nat],
         \A w \in Walkers : \A r \in (Selected(w) \cup shown[w] \cup {last[w], ask[w].start}) \cap Rows :
           stamp'[r] = stamp[r]
  PROVE  Walk!Change
  <1>1. [w \in Walkers |-> Selected(w)]' \in [Walkers -> SUBSET Rows]
    BY SelectedRowsAfter
  <1> QED
    BY <1>1, SameWatch DEF Walk!Change

LEMMA ChangeIsChange == IInv /\ Change => Walk!Change
  <1> SUFFICES ASSUME IInv, Change
               PROVE  Walk!Change
    OBVIOUS
  <1>1. TypeOK /\ TablesChange /\ Watch /\ UNCHANGED <<ask, shown, last, outcome>>
    BY DEF IInv, Change, walks
  <1>2. ASSUME NEW w \in Walkers,
               NEW r \in (Selected(w) \cup shown[w] \cup {last[w], ask[w].start}) \cap Rows
        PROVE  stamp'[r] = stamp[r]
    <2>1. state[r] # "planned"
      BY SelectedCommitted, RowAssumption DEF IInv, WalkInv
    <2> QED
      BY <1>1, <2>1, PlacesStay
  <1> QED
    BY <1>1, <1>2, PlacesStay, ShowsNothing

LEMMA RefusalIsRefusal ==
  ASSUME IInv, NEW w \in Walkers, NEW o \in {"refused", "not_found"}, End(w, o), Watch,
         UNCHANGED <<clock, tables, ask>>, pc[w] # "over",
         o = "refused" => last[w] \notin Selected(w) /\ last[w] # NoRow,
         o = "not_found" => shown[w] = {}
  PROVE  Walk!Refuse(w)
  <1>1. outcome[w] = "walking"
    BY DEF IInv, WalkInv
  <1>2. UNCHANGED [u \in Walkers |-> Selected(u)]
    BY DEF Selected, Found, tables
  <1> QED
    BY <1>1, <1>2, SameWatch DEF Walk!Refuse, End, tables

\* The position that the lookup has read is still the position of the cursor, so the page
\* is the next one after it.
LEMMA PageIsPage ==
  ASSUME IInv, NEW w \in Walkers, ReadPage(w), Watch, UNCHANGED <<clock, tables, ask>>
  PROVE  Walk!Page(w)
  <1> DEFINE rest == {r \in Selected(w) : Beyond(w, r)}
             listed == [u \in Walkers |-> Selected(u)]
  <1>1. outcome[w] = "walking" /\ WalkInv(w) /\ pc[w] = "page"
    BY DEF IInv, WalkInv, ReadPage
  <1>2. UNCHANGED listed
    BY DEF Selected, Found, tables
  <1>3. \A a, b : Before(ask[w], a, b) <=> Walk!Precedes(w, a, b)
    BY SameWords DEF Before, Walk!Precedes
  <1>4. rest = {r \in listed[w] : Walk!Follows(w, r, last[w])}
    BY <1>1, SameWords DEF WalkInv, Beyond, Walk!Follows, Walk!Precedes
  <1>5. PICK page \in SUBSET rest :
          /\ \A a \in page, b \in rest \ page : Before(ask[w], a, b)
          /\ shown' = [shown EXCEPT ![w] = @ \cup page]
          /\ \/ /\ page = rest
                /\ Cardinality(page) <= ask[w].limit
                /\ outcome' = [outcome EXCEPT ![w] = "complete"]
                /\ UNCHANGED last
             \/ /\ page # rest
                /\ Cardinality(page) = ask[w].limit
                /\ \E r \in page :
                     /\ \A a \in page \ {r} : Before(ask[w], a, r)
                     /\ last' = [last EXCEPT ![w] = r]
                /\ UNCHANGED outcome
    BY DEF ReadPage, NextCursor
  <1> HIDE DEF rest, listed
  <1> QED
    BY <1>1, <1>2, <1>3, <1>4, <1>5, SameWatch, SameCount DEF Walk!Page, listed, tables

LEMMA StatementIsStep ==
  ASSUME IInv, NEW w \in Walkers, Statement(w)
  PROVE  Walk!Change \/ Walk!Page(w) \/ Walk!Refuse(w)
  <1>1. StatementEffect(w) /\ UNCHANGED <<clock, tables, ask>> /\ Watch
    BY StatementCases
  <1>2. TypeOK /\ WalkInv(w) /\ stamp' = stamp
    BY <1>1 DEF IInv, tables
  <1>3. CASE UNCHANGED <<shown, last, outcome>>
    BY <1>1, <1>2, <1>3, ShowsNothing DEF TypeOK
  <1>4. CASE pc[w] \in {"product", "warehouse"} /\ shown[w] = {} /\ End(w, "not_found")
    BY <1>1, <1>4, RefusalIsRefusal
  <1>5. CASE pc[w] = "cursor" /\ last[w] \notin Selected(w) /\ End(w, "refused")
    BY <1>1, <1>2, <1>5, RefusalIsRefusal DEF WalkInv
  <1>6. CASE ReadPage(w)
    BY <1>1, <1>6, PageIsPage
  <1> QED
    BY <1>1, <1>3, <1>4, <1>5, <1>6 DEF StatementEffect, Goto, ReadCursor

LEMMA NextIsStep == IInv /\ [Next]_vars => [Walk!Next]_(Walk!walkVars)
  <1>1. CASE UNCHANGED vars
    BY <1>1 DEF vars, tables, walks, Walk!walkVars, Selected, Found
  <1> QED
    BY <1>1, ChangeIsChange, StatementIsStep DEF Next, Walk!Next

\* However the statements of the calls and the commits of the transactions interleave, each
\* call gets the next page as of one instant: Listings implements Walks.
THEOREM Implementation == Spec => ImplementsWalk
  BY InitIsInit, NextIsStep, InitInv, NextInv, PTL DEF Spec, ImplementsWalk, Walk!Spec

\* A walk misses no row that its filters select all along.
THEOREM NothingIsMissedHere == Spec => []NothingMissed
  <1>1. Init => Walk!WalkInv
    BY InitIsInit, Walk!WalkInvInit, RowAssumption
  <1>2. IInv /\ [Next]_vars /\ Walk!WalkInv => Walk!WalkInv'
    BY NextIsStep, Walk!WalkInvNext, RowAssumption
  <1>3. Walk!WalkInv => NothingMissed
    BY DEF NothingMissed, Walk!NothingMissed, Walk!WalkInv, Walk!WalkerInv, Walk!Seen
  <1> QED
    BY <1>1, <1>2, <1>3, InitInv, NextInv, PTL DEF Spec
================================================================================
