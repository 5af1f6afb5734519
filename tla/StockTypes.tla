------------------------------ MODULE StockTypes ------------------------------
(***************************************************************************)
(* The vocabulary of the inventory component (app/modules/inventory): what *)
(* a stock command asks for, what its rows say, and what it does to the    *)
(* balances of the cells it touches.  One organization is modelled: every  *)
(* statement of the component filters on organization_id.                  *)
(***************************************************************************)
EXTENDS Integers, Sequences, FiniteSets

CONSTANTS
  Products,     \* product ids
  Warehouses,   \* warehouse ids; numbers, for the order UUIDs have in ORDER BY
  Keys,         \* idempotency keys
  BlankKey,     \* a key of white space only
  Commands,     \* the commands the clients send
  Requests,     \* calls of record_stock_movement and transfer_stock
  Opening,      \* the quantity of each cell when the behaviour starts
  OpeningRows,  \* the cells that have a stock_balances row by then
  Opened        \* the products and warehouses that exist, active, by then

Entities == Products \cup Warehouses

\* The primary key of stock_balances, for condition AVAILABLE.
Cell == Products \X Warehouses

\* A movement names one warehouse: its source and destination are the same.
Command == [kind : {"RECEIPT", "ISSUE", "TRANSFER"}, key : Keys,
            product : Products, source : Warehouses, destination : Warehouses,
            quantity : Nat]

ASSUME CatalogAssumption ==
  /\ Warehouses \subseteq Nat
  /\ Products \cap Warehouses = {}
  /\ Opened \subseteq Products \cup Warehouses

ASSUME CommandAssumption ==
  /\ Commands \subseteq Command
  /\ \A c \in Commands : c.kind # "TRANSFER" => c.source = c.destination

ASSUME OpeningAssumption ==
  /\ Opening \in [Products \X Warehouses -> Nat]
  /\ OpeningRows \subseteq {x \in Products \X Warehouses :
                               x[1] \in Opened /\ x[2] \in Opened}
  /\ \A x \in Products \X Warehouses : x \notin OpeningRows => Opening[x] = 0

-------------------------------------------------------------------------------
Valid(c) ==
  /\ c.quantity > 0
  /\ c.key # BlankKey
  /\ c.kind = "TRANSFER" => c.source # c.destination

Debits(c)  == c.kind \in {"ISSUE", "TRANSFER"}
Credits(c) == c.kind \in {"RECEIPT", "TRANSFER"}

Source(c)      == <<c.product, c.source>>
Destination(c) == <<c.product, c.destination>>

\* The rows a command depends on being active.
Context(c) == {c.product, c.source, c.destination}

\* The unique (organization_id, idempotency_key) constraint a command's row is
\* under: movements and transfers have one each.
OpId(c) == <<IF c.kind = "TRANSFER" THEN "stock_transfers" ELSE "stock_movements",
             c.key>>
OpIds == {"stock_transfers", "stock_movements"} \X Keys

-------------------------------------------------------------------------------
\* The balances an operation reports; a movement reports one, twice here.
Balances == [source : Nat, destination : Nat]
NoBalances == [source |-> 0, destination |-> 0]

\* What the updates of command c RETURN when they run on the quantities b.
BalancesAfter(c, b) ==
  [source |-> IF Debits(c) THEN b[Source(c)] - c.quantity
                           ELSE b[Source(c)] + c.quantity,
   destination |-> IF Credits(c) THEN b[Destination(c)] + c.quantity
                                 ELSE b[Destination(c)] - c.quantity]

\* The quantities b once the updates of c that returned bal are visible.
Written(c, bal, b) ==
  [b EXCEPT ![Source(c)] = bal.source, ![Destination(c)] = bal.destination]

\* A row of stock_movements, in the history of its cell.
Posting == [op : OpIds, type : {"RECEIPT", "ISSUE"}, quantity : Nat, after : Nat]

\* The rows of stock_movements an operation inserts, each with its cell.
Row(c, type, after) ==
  [op |-> OpId(c), type |-> type, quantity |-> c.quantity, after |-> after]
PostingsOf(c, bal) ==
  (IF Debits(c) THEN {<<Source(c), Row(c, "ISSUE", bal.source)>>} ELSE {})
    \cup
  (IF Credits(c) THEN {<<Destination(c), Row(c, "RECEIPT", bal.destination)>>}
                 ELSE {})

\* The histories h once those rows are visible.
Posted(c, bal, h) ==
  [x \in Cell |->
     IF Debits(c) /\ x = Source(c)
     THEN Append(h[x], Row(c, "ISSUE", bal.source))
     ELSE IF Credits(c) /\ x = Destination(c)
     THEN Append(h[x], Row(c, "RECEIPT", bal.destination))
     ELSE h[x]]

\* What a later call with the same key can read back of a recorded operation.
Entry == [command : Commands, balances : Balances]

\* The entries es that hold the key of c (a unique constraint keeps at most one).
Recorded(c, es) == {e \in es : OpId(e.command) = OpId(c)}

\* What the caller of an operation sees, or that it sees nothing yet.
Outcomes == {"pending", "created", "replayed", "conflict", "insufficient",
             "not_found", "inactive", "invalid", "unavailable"}
Answer == [outcome : Outcomes, balances : Balances]
===============================================================================
