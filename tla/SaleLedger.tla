------------------------------- MODULE SaleLedger -------------------------------
(***************************************************************************)
(* What create_sale promises, with no transactions, locks or partial       *)
(* steps: a sale takes effect at most once and at one instant, priced by   *)
(* the catalog and the policy of that instant, approved by the PIN of that *)
(* instant, with all its lines or none.  Sales implements it.              *)
(***************************************************************************)
EXTENDS SaleTypes

VARIABLES
  status,       \* products.active and warehouses.active, or "absent"
  tags,         \* products.cost and products.sale_price
  rate,         \* organizations.salesperson_max_discount_rate
  credentials,  \* the approval columns of memberships
  clock,        \* minutes
  stock,        \* stock_balances.quantity of the stock that can be sold
  issues,       \* the stock_movements rows of each cell that are due to sales
  sales,        \* the rows of sales, each with its lines
  cmd, answer   \* the command of each request and what it has been told

terms == <<status, tags, rate>>
ledger == <<stock, issues, sales>>
ledgerVars == <<terms, credentials, clock, ledger, cmd, answer>>

LedgerTypeOK ==
  /\ status \in [Entities -> Statuses]
  /\ tags \in [Products -> Tag]
  /\ rate \in 0 .. Whole
  /\ credentials \in [Members -> Credential]
  /\ clock \in Nat
  /\ stock \in [Cell -> Nat]
  /\ issues \in [Cell -> Seq(Issue)]
  /\ sales \subseteq Sale
  /\ cmd \in [Requests -> Commands]
  /\ answer \in [Requests -> Answer]

Init ==
  /\ status = [e \in Entities |-> IF e \in Opened THEN "active" ELSE "absent"]
  /\ tags = OpeningTags
  /\ rate = OpeningRate
  /\ credentials = [m \in Members |-> [pin |-> OpeningPins[m], failures |-> 0, until |-> 0]]
  /\ clock = 0
  /\ stock = Opening
  /\ issues = [x \in Cell |-> << >>]
  /\ sales = {}
  /\ cmd \in [Requests -> Commands]
  /\ answer = [t \in Requests |-> [outcome |-> "pending", sale |-> NoSale]]

Tell(t, o, s) ==
  /\ answer[t].outcome = "pending"
  /\ answer' = [answer EXCEPT ![t] = [outcome |-> o, sale |-> s]]

-------------------------------------------------------------------------------
(* The calls of create_sale *)

\* The PIN of the command is looked at: its approver is not locked out.
Asked(c) == NeedsPin(c, tags, rate) /\ credentials[c.approval.approver].until <= clock

\* The sale takes effect.  The caller may never hear of it.
Sell(t) ==
  LET c == cmd[t]
      s == SaleOf(c, tags, rate)
  IN  /\ Valid(c)
      /\ Recorded(c, sales) = {}
      /\ \A e \in Context(c) : status[e] = "active"
      /\ PriceError(c, tags, rate) = "none"
      /\ NeedsPin(c, tags, rate) => Asked(c) /\ Accepts(c.approval, credentials)
      /\ \A p \in Sold(c) : stock[CellOf(c, p)] >= LineOf(c, p).quantity
      /\ stock' = StockAfter(c, stock)
      /\ issues' = IssuesAfter(c, stock, issues)
      /\ sales' = sales \cup {s}
      /\ credentials' = CredentialsAfter(c, tags, rate, credentials)
      /\ Tell(t, "created", s) \/ Tell(t, "unavailable", NoSale)
      /\ UNCHANGED <<terms, clock, cmd>>

\* A wrong PIN of an administrator is counted, at the time it was looked at.
Miss(t) ==
  LET c == cmd[t]
      m == c.approval.approver
  IN  /\ Asked(c)
      /\ ~Accepts(c.approval, credentials)
      /\ \E now \in credentials[m].until .. clock :
           credentials' =
             IF m \in Admins THEN [credentials EXCEPT ![m] = Missed(@, now)] ELSE credentials
      /\ Tell(t, "pin_invalid", NoSale) \/ Tell(t, "unavailable", NoSale)
      /\ UNCHANGED <<terms, clock, ledger, cmd>>

Replay(t) ==
  /\ \E s \in Recorded(cmd[t], sales) :
       Digest(s.command) = Digest(cmd[t]) /\ Tell(t, "replayed", s)
  /\ UNCHANGED <<terms, credentials, clock, ledger, cmd>>

\* A refused command changes nothing.
Refuse(t) ==
  LET c == cmd[t] IN
  /\ \/ ~Valid(c) /\ Tell(t, "invalid", NoSale)
     \/ /\ \E s \in Recorded(c, sales) : Digest(s.command) # Digest(c)
        /\ Tell(t, "conflict", NoSale)
     \/ (\E e \in Context(c) : status[e] = "inactive") /\ Tell(t, "inactive", NoSale)
     \/ PriceError(c, tags, rate) # "none" /\ Tell(t, PriceError(c, tags, rate), NoSale)
     \/ /\ NeedsPin(c, tags, rate)
        /\ credentials[c.approval.approver].until > clock
        /\ Tell(t, "pin_locked", NoSale)
     \/ /\ \E p \in Sold(c) : stock[CellOf(c, p)] < LineOf(c, p).quantity
        /\ Tell(t, "insufficient", NoSale)
     \/ \E o \in {"not_found", "unavailable"} : Tell(t, o, NoSale)
  /\ UNCHANGED <<terms, credentials, clock, ledger, cmd>>

-------------------------------------------------------------------------------
(* What goes on beside them *)

UpdateCatalog(e) ==
  /\ \E st \in StatusAfter(e, status[e], stock) : status' = [status EXCEPT ![e] = st]
  /\ tags' \in TagsAfter(e, tags)
  /\ UNCHANGED <<rate, credentials, clock, ledger, cmd, answer>>

UpdatePolicy ==
  /\ rate' \in Rates
  /\ UNCHANGED <<status, tags, credentials, clock, ledger, cmd, answer>>

SetPin(m) ==
  /\ \E p \in Pins :
       credentials' = [credentials EXCEPT ![m] = [pin |-> p, failures |-> 0, until |-> 0]]
  /\ UNCHANGED <<terms, clock, ledger, cmd, answer>>

Tick ==
  /\ clock' > clock
  /\ UNCHANGED <<terms, credentials, ledger, cmd, answer>>

Next ==
  \/ \E t \in Requests : Sell(t) \/ Miss(t) \/ Replay(t) \/ Refuse(t)
  \/ \E e \in Entities : UpdateCatalog(e)
  \/ UpdatePolicy
  \/ \E m \in Admins : SetPin(m)
  \/ Tick

Spec == Init /\ [][Next]_ledgerVars

-------------------------------------------------------------------------------
\* No update of a balance is lost: each issue of a cell starts from the balance the
\* one before it left, and the stored balance is the one the last of them left.
IssueChain ==
  \A x \in Cell :
    LET before(j) == IF j = 1 THEN Opening[x] ELSE issues[x][j - 1].after IN
    /\ \A j \in DOMAIN issues[x] : issues[x][j].after = before(j) - issues[x][j].quantity
    /\ stock[x] = before(Len(issues[x]) + 1)

\* decisions/0015: "Sale creation, stock decrements, lines, totals, and linked
\* inventory movements share one database transaction and one client idempotency
\* key."  A key names one sale; the sale has issued each of its lines once, and
\* nothing else has been issued.
SoldOnce ==
  /\ \A r, s \in sales : r.command.key = s.command.key => r = s
  /\ \A s \in sales : \A p \in Sold(s.command) :
       \E j \in DOMAIN issues[CellOf(s.command, p)] :
         /\ issues[CellOf(s.command, p)][j].key = s.command.key
         /\ issues[CellOf(s.command, p)][j].quantity = LineOf(s.command, p).quantity
  /\ \A x \in Cell : \A j \in DOMAIN issues[x] :
       /\ \E s \in sales : /\ s.command.key = issues[x][j].key
                           /\ \E p \in Sold(s.command) : x = CellOf(s.command, p)
       /\ \A k \in DOMAIN issues[x] : issues[x][j].key = issues[x][k].key => j = k

\* A caller told of a sale finds it recorded, as asked for and with the prices it was
\* told; and one caller of a key at most was told that it was the first.
SalesDurable ==
  \A t \in Requests :
    /\ answer[t].outcome \in {"created", "replayed"} =>
         /\ answer[t].sale \in Recorded(cmd[t], sales)
         /\ Digest(answer[t].sale.command) = Digest(cmd[t])
    /\ \A u \in Requests :
         /\ answer[t].outcome = "created"
         /\ answer[u].outcome = "created"
         /\ cmd[t].key = cmd[u].key
         => t = u
===============================================================================
