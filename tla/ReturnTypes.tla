------------------------------ MODULE ReturnTypes ------------------------------
(***************************************************************************)
(* The vocabulary of sale returns (app/modules/sales/returns_service.py):  *)
(* the sales of one organization, which no longer change once confirmed,   *)
(* the returns and voids that adjust them, and what these are worth.       *)
(*                                                                         *)
(* Decimals are integers: a quantity counts ticks of 1/Scale, a stored     *)
(* amount counts the last of its six decimals, and an amount that has been *)
(* computed and not stored yet counts ticks of 1/Scale of that.            *)
(***************************************************************************)
EXTENDS Integers, Sequences, FiniteSets, Functions

CONSTANTS
  Products,    \* product ids
  Warehouses,  \* warehouse ids
  Sales,       \* the confirmed sales
  NoSale,      \* a sale id the organization does not have
  Shop,        \* the warehouse of each sale
  SaleLines,   \* the lines of each sale, in ORDER BY product_id
  Keys,        \* idempotency keys
  BlankReason, \* a reason of white space only
  Members,     \* the members who process returns
  Commands,    \* the commands the clients send
  Requests,    \* calls of process_sale_return
  Scale,       \* ticks of a quantity in a unit; 10^6 in the code
  Opening      \* the quantity of each balance when the behaviour starts

Cell == Products \X Warehouses \X {"AVAILABLE", "DAMAGED"}

SaleLine == [product : Products, quantity : Nat \ {0}, price : Nat]
ReturnLine == [product : Products, quantity : Nat, disposition : {"RESTOCK", "DAMAGED"}]

Command == [kind : {"RETURN", "VOID"}, sale : Sales \cup {NoSale}, by : Members,
            key : Keys, lines : Seq(ReturnLine), reason : {"given", BlankReason},
            resolution : {"REFUNDED_NOW", "NO_REFUND"}]

ASSUME SaleAssumption ==
  /\ IsFiniteSet(Products)
  /\ NoSale \notin Sales
  /\ Shop \in [Sales -> Warehouses]
  /\ SaleLines \in [Sales -> Seq(SaleLine)]
  /\ \A s \in Sales :
       /\ SaleLines[s] # << >>
       /\ \A i, j \in DOMAIN SaleLines[s] :
            SaleLines[s][i].product = SaleLines[s][j].product => i = j

ASSUME ReturnAssumption ==
  /\ Commands \subseteq Command
  /\ \A c \in Commands : c.kind = "VOID" => c.lines = << >>
  /\ Scale \in Nat \ {0}
  /\ Opening \in [Products \X Warehouses \X {"AVAILABLE", "DAMAGED"} -> Nat]

-------------------------------------------------------------------------------
Valid(c) ==
  /\ c.reason # BlankReason
  /\ c.kind = "RETURN" =>
       /\ c.lines # << >>
       /\ \A i, j \in DOMAIN c.lines : c.lines[i].product = c.lines[j].product => i = j
       /\ \A i \in DOMAIN c.lines : c.lines[i].quantity > 0

\* A void gives every line of the sale back to the stock that can be sold.
EffectiveLines(c) ==
  IF c.kind = "VOID"
  THEN [i \in DOMAIN SaleLines[c.sale] |->
          [product |-> SaleLines[c.sale][i].product,
           quantity |-> SaleLines[c.sale][i].quantity, disposition |-> "RESTOCK"]]
  ELSE c.lines

\* What line i of a command credits, and by how much.
CellOf(c, i) ==
  LET line == EffectiveLines(c)[i] IN
  <<line.product, Shop[c.sale],
    IF line.disposition = "RESTOCK" THEN "AVAILABLE" ELSE "DAMAGED">>
QuantityOf(c, i) == EffectiveLines(c)[i].quantity

\* The lines of a sale, and of a command, for a product: one at most.
SoldLines(s, p) == {i \in DOMAIN SaleLines[s] : SaleLines[s][i].product = p}
GivenLines(c, p) == {i \in DOMAIN EffectiveLines(c) : EffectiveLines(c)[i].product = p}

\* The quantity of a product that a sale has sold, its price, and what a command
\* returns of it.
Sold(s, p) ==
  IF SoldLines(s, p) = {} THEN 0
  ELSE SaleLines[s][CHOOSE i \in SoldLines(s, p) : TRUE].quantity
Price(s, p) ==
  IF SoldLines(s, p) = {} THEN 0
  ELSE SaleLines[s][CHOOSE i \in SoldLines(s, p) : TRUE].price
Given(c, p) ==
  IF GivenLines(c, p) = {} THEN 0
  ELSE QuantityOf(c, CHOOSE i \in GivenLines(c, p) : TRUE)

\* The adjustments rs that a command comes after.
AdjustmentsOf(s, rs) == {r \in rs : r.sale = s}
VoidsOf(s, rs) == {r \in AdjustmentsOf(s, rs) : r.kind = "VOID"}

\* A void wants a sale that nothing has adjusted, a return one that is not void.
Adjusted(c, rs) ==
  IF c.kind = "VOID" THEN AdjustmentsOf(c.sale, rs) # {} ELSE VoidsOf(c.sale, rs) # {}

\* Some line wants more than the sale has left of its product.
\* Mutant: more than the sale has sold.
ExceedsSold(c, back) ==
  \E i \in DOMAIN EffectiveLines(c) :
    QuantityOf(c, i) > Sold(c.sale, EffectiveLines(c)[i].product)
Exceeds(c, back) ==
  \E i \in DOMAIN EffectiveLines(c) :
    LET p == EffectiveLines(c)[i].product
    IN  QuantityOf(c, i) > Sold(c.sale, p) - back[c.sale][p]

-------------------------------------------------------------------------------
\* What the goods of a command were sold for, before it is stored.
Worth(c) ==
  SumFunction([i \in DOMAIN EffectiveLines(c) |->
                 Price(c.sale, EffectiveLines(c)[i].product) * QuantityOf(c, i)])

\* NUMERIC(20, 6) rounds the ticks away, half of one up.
Stored(v) == (2 * v + Scale) \div (2 * Scale)

\* What the first call returns, and what a later one reads back; in ticks.
ToldFirst(c) == Worth(c)
ToldAgain(c) == Stored(Worth(c)) * Scale

Refund(c, v) == IF c.resolution = "REFUNDED_NOW" THEN v ELSE 0

\* A row of stock_movements; its quantity is received into the cell it is in.
Movement == [return : Commands, quantity : Nat, after : Nat]

\* What the fingerprint digests: the lines in any order, each product once, and all
\* else but the key.
Digest(c) ==
  [kind |-> c.kind, sale |-> c.sale, by |-> c.by, lines |-> Range(c.lines),
   reason |-> c.reason, resolution |-> c.resolution]

\* The adjustments rs with the key of a command, and those it repeats.
Recorded(c, rs) == {r \in rs : r.key = c.key}
Repeated(c, rs) == {r \in Recorded(c, rs) : Digest(r) = Digest(c)}

Priced == {c \in Commands : c.sale \in Sales}
Amounts == {0} \cup {ToldFirst(c) : c \in Priced} \cup {ToldAgain(c) : c \in Priced}
Outcomes == {"pending", "created", "replayed", "conflict", "not_found", "adjusted",
             "exceeded", "invalid", "unavailable"}
Answer == [outcome : Outcomes, value : Amounts, refunded : Amounts]
===============================================================================
