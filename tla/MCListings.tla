------------------------------ MODULE MCListings ------------------------------
(***************************************************************************)
(* One walk through each listing.  Beside a walk through a history, its    *)
(* other entries are inserted.  Beside one through a catalog, a row is     *)
(* inserted, and this row and the first one are renamed, deactivated and   *)
(* activated again: a cursor may name either.  Walks only read, so one is  *)
(* enough.  Ids interleave what is there and what is inserted later, and   *)
(* two instants make equal times and late commits.                         *)
(***************************************************************************)
EXTENDS Listings, TLC

Item(t, r, coded) == [table |-> t, product |-> r, warehouses |-> {}, coded |-> coded]
Entry(t, p, ws)   == [table |-> t, product |-> p, warehouses |-> ws, coded |-> FALSE]

\* Row 0 is a product that is not there; the product and the warehouses of the histories
\* are 5 and 15 to 17; transfers 31 to 34 touch warehouse 15 or not.
MCFact ==
  [r \in {0, 1, 2, 3, 5} |-> Item("products", r, r = 2)] @@
  [r \in {11, 12, 13, 15, 16, 17} |-> Item("warehouses", r, r = 12)] @@
  [r \in 21 .. 24 |-> Entry("movements", 5, {IF r = 24 THEN 16 ELSE 15})] @@
  (31 :> Entry("transfers", 5, {15, 16}) @@ 32 :> Entry("transfers", 5, {16, 15}) @@
   33 :> Entry("transfers", 5, {16, 17}) @@ 34 :> Entry("transfers", 5, {15, 17})) @@
  [r \in 41 .. 44 |-> Entry("sales", 5, {15})]
MCRows == DOMAIN MCFact

Walk1(l, lim, from, product, inactive, search) ==
  [w \in Walkers |-> [list |-> l, newest |-> l \notin Catalogs, product |-> product,
     warehouse |-> 15, inactive |-> inactive, search |-> search, limit |-> lim,
     start |-> from]]
History(l, lim, from, product) == Walk1(l, lim, from, product, FALSE, FALSE)
Script(asked, there, planned) == [ask |-> asked, there |-> there, planned |-> planned]

Shop == {5, 15, 16, 17}
Histories ==
  {Script(History("movements", lim, from, p), Shop \cup {22, 24}, {21, 23}) :
     lim \in {1, 2}, from \in {NoRow, 24}, p \in {0, 5}} \cup
  {Script(History("transfers", lim, NoRow, 5), Shop \cup {32, 33}, {31, 34}) : lim \in {1, 2}} \cup
  {Script(History("sales", lim, NoRow, 5), Shop \cup {42}, {41, 43, 44}) : lim \in {1, 2}} \cup
  {Script(History("sales", 1, 43, 5), Shop \cup {42, 43}, {41, 44})}
ProductWalk(lim, i, s) == Script(Walk1("products", lim, NoRow, 5, i, s), {1, 3}, {2})
WarehouseWalk(lim, i, s) == Script(Walk1("warehouses", lim, NoRow, 5, i, s), {11, 13}, {12})
CatalogWalks ==
  {ProductWalk(1, FALSE, FALSE), ProductWalk(2, FALSE, FALSE), ProductWalk(1, TRUE, TRUE),
   WarehouseWalk(1, FALSE, TRUE), WarehouseWalk(1, TRUE, FALSE)}
MCScripts == Histories \cup CatalogWalks
===============================================================================
