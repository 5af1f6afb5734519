------------------------------- MODULE SaleTypes -------------------------------
(***************************************************************************)
(* The vocabulary of create_sale (app/modules/sales/service.py): what a    *)
(* client asks to sell, the catalog and policy that price it, the          *)
(* administrators who approve it, and the sale that is recorded.           *)
(*                                                                         *)
(* Quantities and prices count their last decimal; a rate counts parts of  *)
(* Whole, as the policy's four decimals count parts of 10^4.               *)
(***************************************************************************)
EXTENDS Integers, Sequences, Functions

CONSTANTS
  Products,    \* product ids, in the order of ORDER BY id
  Warehouses,  \* warehouse ids
  Members,     \* the users with a membership of the organization
  Admins,      \* those whose role is admin
  Pins,        \* approval PINs
  Keys,        \* idempotency keys
  Whole,       \* 100 per cent
  PinLimit,    \* PIN_FAILURE_LIMIT
  PinLock,     \* PIN_LOCK_MINUTES
  Listed,      \* unit_price = None: the catalog price
  Nobody,      \* no approval, no approver, no holder of a lock
  NoSale,      \* what a call that returns no sale returns
  Commands,    \* the commands the clients send
  Requests,    \* calls of create_sale
  Tags,        \* the prices that updates of the catalog set
  Rates,       \* the rates that updates of the policy set
  Opening,     \* the quantity of each balance when the behaviour starts
  OpeningRows, \* the cells that have a balance row by then
  OpeningTags, \* the prices of the products by then
  OpeningPins, \* the PIN of each member, or Nobody
  OpeningRate, \* salesperson_max_discount_rate
  Opened       \* the products and warehouses that are there, and active

Cell == Products \X Warehouses
Entities == Products \cup Warehouses
Tag == [cost : Nat, list : Nat]

Line == [product : Products, quantity : Nat, price : Nat \cup {Listed}]
Approval == [approver : Members, pin : Pins]
Command == [key : Keys, shop : Warehouses, seller : Members, lines : Seq(Line),
            reason : BOOLEAN, approval : Approval \cup {Nobody}]

ASSUME PartyAssumption ==
  /\ Products \subseteq Nat
  /\ Products \cap Warehouses = {}
  /\ Admins \subseteq Members
  /\ Nobody \notin Members \cup Requests \cup Pins \cup Approval
  /\ Listed \notin Nat

ASSUME NumberAssumption ==
  /\ Whole \in Nat \ {0}
  /\ PinLimit \in Nat \ {0}
  /\ PinLock \in Nat \ {0}

ASSUME TradeAssumption ==
  /\ Commands \subseteq Command
  /\ Opening \in [Products \X Warehouses -> Nat]
  /\ OpeningRows \subseteq Products \X Warehouses
  /\ \A x \in (Products \X Warehouses) \ OpeningRows : Opening[x] = 0
  /\ OpeningTags \in [Products -> [cost : Nat, list : Nat]]
  /\ \A p \in Products : OpeningTags[p].cost <= OpeningTags[p].list
  /\ Tags \subseteq {tag \in [cost : Nat, list : Nat] : tag.cost <= tag.list}
  /\ Rates \subseteq 0 .. Whole
  /\ OpeningRate \in 0 .. Whole
  /\ OpeningPins \in [Members -> Pins \cup {Nobody}]
  /\ Opened \subseteq Products \cup Warehouses

-------------------------------------------------------------------------------
(* The command *)

\* The request schema: a line at least, no product twice, no quantity of zero.
Valid(c) ==
  /\ c.lines # << >>
  /\ \A i, j \in DOMAIN c.lines : c.lines[i].product = c.lines[j].product => i = j
  /\ \A i \in DOMAIN c.lines : c.lines[i].quantity > 0

Sold(c) == {c.lines[i].product : i \in DOMAIN c.lines}
LineOf(c, p) == c.lines[CHOOSE i \in DOMAIN c.lines : c.lines[i].product = p]
CellOf(c, p) == <<p, c.shop>>
Context(c) == Sold(c) \cup {c.shop}

\* What the fingerprint digests: the lines in any order, the approver but not the PIN.
Digest(c) ==
  [shop |-> c.shop, seller |-> c.seller, lines |-> Range(c.lines), reason |-> c.reason,
   approver |-> IF c.approval = Nobody THEN Nobody ELSE c.approval.approver]

-------------------------------------------------------------------------------
(* Prices, for the catalog prices tags and the maximal discount rate *)

UnitPrice(c, p, tags) ==
  IF LineOf(c, p).price = Listed THEN tags[p].list ELSE LineOf(c, p).price

Discounted(c, tags) == \E p \in Sold(c) : UnitPrice(c, p, tags) < tags[p].list

\* (list - unit) / list > rate; Decimal's division is exact enough for four decimals.
Exceptional(c, tags, rate) ==
  \E p \in Sold(c) :
    (tags[p].list - UnitPrice(c, p, tags)) * Whole > rate * tags[p].list

\* The lines whose price lies below the cost or above the catalog price.
Unsellable(c, tags) ==
  {i \in DOMAIN c.lines :
     LET p == c.lines[i].product IN UnitPrice(c, p, tags) \notin tags[p].cost .. tags[p].list}

\* The error that the prices of a command raise, if any: the first line decides.
PriceError(c, tags, rate) ==
  LET bad == Unsellable(c, tags)
      p == c.lines[CHOOSE i \in bad : \A j \in bad : i <= j].product
  IN  CASE bad # {} ->
             IF UnitPrice(c, p, tags) < tags[p].cost THEN "below_cost" ELSE "above_list"
        [] bad = {} /\ Discounted(c, tags) /\ ~c.reason -> "reason_required"
        [] OTHER ->
             IF /\ Exceptional(c, tags, rate)
                /\ c.seller \notin Admins
                /\ c.approval = Nobody
             THEN "approval_required" ELSE "none"

\* An approver has to be asked.
NeedsPin(c, tags, rate) ==
  Exceptional(c, tags, rate) /\ c.seller \notin Admins /\ c.approval # Nobody

\* Who approved a sale that is recorded.
ApprovedBy(c, tags, rate) ==
  CASE ~Exceptional(c, tags, rate) -> Nobody
    [] c.seller \in Admins -> c.seller
    [] OTHER -> c.approval.approver

-------------------------------------------------------------------------------
(* What is recorded *)

\* A row of sales, and of its sale_lines the catalog prices that they copy.
SaleLine == [product : Products, tag : Tag]
Sale == [command : Commands, lines : SUBSET SaleLine, approver : Members \cup {Nobody}]
LinesOf(c, tags) == {[product |-> p, tag |-> tags[p]] : p \in Sold(c)}
SaleOf(c, tags, rate) ==
  [command |-> c, lines |-> LinesOf(c, tags), approver |-> ApprovedBy(c, tags, rate)]

\* A stock_movements row of a sale.
Issue == [key : Keys, quantity : Nat, after : Nat]

Recorded(c, sales) == {s \in sales : s.command.key = c.key}

\* The approval columns of a membership.
Credential == [pin : Pins \cup {Nobody}, failures : Nat, until : Nat]

Outcomes == {"pending", "created", "replayed", "conflict", "invalid", "not_found",
             "inactive", "below_cost", "above_list", "reason_required",
             "approval_required", "pin_locked", "pin_invalid", "insufficient", "unavailable"}
Answer == [outcome : Outcomes, sale : Sale \cup {NoSale}]

\* The balances and movements that a sale leaves.
StockAfter(c, stock) ==
  [x \in Cell |->
     IF x[2] = c.shop /\ x[1] \in Sold(c) THEN stock[x] - LineOf(c, x[1]).quantity ELSE stock[x]]
IssuesAfter(c, stock, issues) ==
  [x \in Cell |->
     IF x[2] = c.shop /\ x[1] \in Sold(c)
     THEN Append(issues[x], [key |-> c.key, quantity |-> LineOf(c, x[1]).quantity,
                             after |-> StockAfter(c, stock)[x]])
     ELSE issues[x]]

\* The PIN of an approval is right: verify() succeeds for an administrator who has one.
Accepts(a, credentials) == a.approver \in Admins /\ credentials[a.approver].pin = a.pin

\* The columns after a wrong PIN at instant now: the last failure allowed locks them,
\* and so does every later one until a PIN is accepted or set.
Missed(row, now) ==
  [row EXCEPT !.failures = @ + 1,
              !.until = IF row.failures + 1 >= PinLimit THEN now + PinLock ELSE 0]

\* A sale that its approver let pass has reset the count.
CredentialsAfter(c, tags, rate, credentials) ==
  IF NeedsPin(c, tags, rate)
  THEN [credentials EXCEPT ![c.approval.approver].failures = 0, ![c.approval.approver].until = 0]
  ELSE credentials

\* The status an update of the catalog can leave: what has stock is not deactivated.
Statuses == {"absent", "active", "inactive"}
StatusAfter(e, st, stock) ==
  CASE st = "absent" -> {"active"}
    [] st # "absent" /\ \A x \in Cell : e \in {x[1], x[2]} => stock[x] = 0 ->
         {"active", "inactive"}
    [] OTHER -> {st, "active"}
TagsAfter(e, tags) ==
  {tags} \cup {[tags EXCEPT ![p] = tag] : p \in {e} \cap Products, tag \in Tags}
===============================================================================
