------------------------------ MODULE MCInventory ------------------------------
(* Finite instances of Inventory: two products, two warehouses. *)
EXTENDS Inventory

CONSTANTS soap, comb, t1, t2, t3, k1, k2, k3

MCWarehouses == {1, 2}

Cmd(kind, key, p, from, to, q) ==
  [kind |-> kind, key |-> key, product |-> p, source |-> from,
   destination |-> to, quantity |-> q]

\* A receipt, an issue that takes it all, a receipt under the same key elsewhere (so
\* that two transactions hold a key and no balance in common), a transfer each way,
\* and a command that validation refuses.
Mixed ==
  <<Cmd("RECEIPT", k1, soap, 1, 1, 1), Cmd("ISSUE", k3, soap, 1, 1, 2),
    Cmd("RECEIPT", k3, soap, 2, 2, 1), Cmd("TRANSFER", k1, soap, 1, 2, 2),
    Cmd("TRANSFER", k2, soap, 2, 1, 1), Cmd("TRANSFER", k1, soap, 1, 1, 1)>>

\* The first operations on a product: opposite transfers, which can deadlock on the
\* rows they insert, and a receipt.
Firsts ==
  <<Cmd("TRANSFER", k1, comb, 1, 2, 1), Cmd("TRANSFER", k2, comb, 2, 1, 1),
    Cmd("RECEIPT", k3, comb, 1, 1, 1)>>

\* Any three of Mixed that are valid, two of them beside the one that is not, and
\* Firsts.  The requests differ in nothing but their commands, so each choice is given
\* once.
Menu == Mixed \o Firsts
MCCommands == {Menu[i] : i \in DOMAIN Menu}
Chosen == {i \in (1 .. 5) \X (1 .. 5) \X (1 .. 5) : i[1] <= i[2] /\ i[2] <= i[3]}
          \cup {<<1, 4, 6>>, <<7, 8, 9>>}
Threes == {[t \in {t1, t2, t3} |->
              Menu[CASE t = t1 -> i[1] [] t = t2 -> i[2] [] OTHER -> i[3]]] : i \in Chosen}
Twos == {[t \in {t1, t2} |-> IF t = t1 THEN c ELSE d] : c, d \in {Menu[1], Menu[4]}}

\* Soap has stock in warehouse 1 and no row in warehouse 2, which is created later.
AllCells == {soap, comb} \X MCWarehouses
StockInOne == [x \in AllCells |-> IF x = <<soap, 1>> THEN 2 ELSE 0]
RowInOne == {<<soap, 1>>}
===============================================================================
