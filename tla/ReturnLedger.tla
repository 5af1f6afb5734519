----------------------------- MODULE ReturnLedger -----------------------------
(***************************************************************************)
(* What process_sale_return promises, with no transactions, locks or       *)
(* partial steps: a return or a void takes effect at most once and at one  *)
(* instant, on a sale that still has what it gives back, and credits the   *)
(* balances of all its lines.  SaleReturns implements it.                  *)
(***************************************************************************)
EXTENDS ReturnTypes

VARIABLES
  stock,      \* stock_balances.quantity
  movements,  \* the stock_movements rows of each cell that are due to returns
  returns,    \* the sale_returns rows, as the commands they were made from
  returned,   \* the sum of sale_return_lines.quantity by sale and product
  cmd,        \* the command each request carries
  answer      \* what each request has been told

ledgerVars == <<stock, movements, returns, returned, cmd, answer>>

LedgerTypeOK ==
  /\ stock \in [Cell -> Nat]
  /\ movements \in [Cell -> Seq(Movement)]
  /\ returns \subseteq Priced
  /\ returned \in [Sales -> [Products -> Nat]]
  /\ cmd \in [Requests -> Commands]
  /\ answer \in [Requests -> Answer]

Init ==
  /\ stock = Opening
  /\ movements = [x \in Cell |-> << >>]
  /\ returns = {}
  /\ returned = [s \in Sales |-> [p \in Products |-> 0]]
  /\ cmd \in [Requests -> Commands]
  /\ answer = [t \in Requests |-> [outcome |-> "pending", value |-> 0, refunded |-> 0]]

Tell(t, o, v) ==
  /\ answer[t].outcome = "pending"
  /\ answer' = [answer EXCEPT ![t] =
       [outcome |-> o, value |-> v, refunded |-> Refund(cmd[t], v)]]

-------------------------------------------------------------------------------
\* The lines of a command that credit cell x: one at most, in what is recorded.
LinesAt(c, x) == {i \in DOMAIN EffectiveLines(c) : CellOf(c, i) = x}

\* The adjustment takes effect.  The caller may never hear of it.
Adjust(t) ==
  LET c == cmd[t]
      at(x) == CHOOSE i \in LinesAt(c, x) : TRUE
  IN  /\ Valid(c)
      /\ c.sale \in Sales
      /\ Recorded(c, returns) = {}
      /\ ~Adjusted(c, returns)
      /\ ~Exceeds(c, returned)
      /\ stock' = [x \in Cell |->
           IF LinesAt(c, x) = {} THEN stock[x] ELSE stock[x] + QuantityOf(c, at(x))]
      /\ movements' = [x \in Cell |->
           IF LinesAt(c, x) = {} THEN movements[x]
           ELSE Append(movements[x], [return |-> c, quantity |-> QuantityOf(c, at(x)),
                                      after |-> stock[x] + QuantityOf(c, at(x))])]
      /\ returns' = returns \cup {c}
      /\ returned' = [returned EXCEPT ![c.sale] =
                        [p \in Products |-> @[p] + Given(c, p)]]
      /\ Tell(t, "created", ToldFirst(c)) \/ Tell(t, "unavailable", 0)
      /\ UNCHANGED cmd

Replay(t) ==
  /\ \E r \in Repeated(cmd[t], returns) : Tell(t, "replayed", ToldAgain(r))
  /\ UNCHANGED <<stock, movements, returns, returned, cmd>>

\* A refused command changes nothing.
Refuse(t) ==
  LET c == cmd[t] IN
  /\ \/ ~Valid(c) /\ Tell(t, "invalid", 0)
     \/ Recorded(c, returns) # Repeated(c, returns) /\ Tell(t, "conflict", 0)
     \/ c.sale = NoSale /\ Tell(t, "not_found", 0)
     \/ Adjusted(c, returns) /\ Tell(t, "adjusted", 0)
     \/ c.sale \in Sales /\ Exceeds(c, returned) /\ Tell(t, "exceeded", 0)
     \/ Tell(t, "unavailable", 0)
  /\ UNCHANGED <<stock, movements, returns, returned, cmd>>

Next == \E t \in Requests : Adjust(t) \/ Replay(t) \/ Refuse(t)

Spec == Init /\ [][Next]_ledgerVars

-------------------------------------------------------------------------------
\* decisions/0017: "cumulative returned quantities may never exceed each sold
\* line", whatever returns and voids of a sale overlap.
NeverOverReturned ==
  \A s \in Sales : \A p \in Products : returned[s][p] <= Sold(s, p)

\* A void is the only adjustment its sale ever has, and gives all of it back.
VoidStandsAlone ==
  \A r \in returns : r.kind = "VOID" =>
    /\ AdjustmentsOf(r.sale, returns) = {r}
    /\ \A p \in Products : returned[r.sale][p] = Sold(r.sale, p)

\* A key names one adjustment, and the movement rows of an adjustment are there
\* once each and no others are.
ReturnedOnce ==
  /\ \A r, q \in returns : r.key = q.key => r = q
  /\ \A r \in returns : \A i \in DOMAIN EffectiveLines(r) :
       \E j \in DOMAIN movements[CellOf(r, i)] : movements[CellOf(r, i)][j].return = r
  /\ \A x \in Cell : \A j \in DOMAIN movements[x] :
       /\ movements[x][j].return \in returns
       /\ LinesAt(movements[x][j].return, x) # {}
       /\ \A k \in DOMAIN movements[x] : movements[x][j].return = movements[x][k].return => j = k

\* No credit is lost: each movement of a cell starts from the balance the one
\* before it left, and the stored balance is the one the last of them left.
CreditChain ==
  \A x \in Cell :
    LET before(j) == IF j = 1 THEN Opening[x] ELSE movements[x][j - 1].after IN
    /\ \A j \in DOMAIN movements[x] :
         movements[x][j].after = before(j) + movements[x][j].quantity
    /\ stock[x] = before(Len(movements[x]) + 1)

\* A caller told that its return was carried out can rely on it.  Of the callers of
\* a key one at most is told that it was the first, and what they are told, as computed
\* or as stored, differs by half of the last decimal at most.
ReturnsDurable ==
  LET told == {t \in Requests : answer[t].outcome \in {"created", "replayed"}} IN
  \A t \in told :
    /\ Repeated(cmd[t], returns) # {}
    /\ \A u \in told : cmd[t].key = cmd[u].key =>
         /\ answer[t].outcome = "created" /\ answer[u].outcome = "created" => t = u
         /\ 2 * answer[t].value <= 2 * answer[u].value + Scale
         /\ 2 * answer[t].refunded <= 2 * answer[u].refunded + Scale

\* Storing rounds each refund: what a sale has refunded in parts exceeds what the
\* goods were sold for by half of the last decimal for each part at most.
RefundsWithinRounding ==
  \A s \in Sales :
    LET rs == AdjustmentsOf(s, returns)
        paid == SumFunction([r \in rs |-> Refund(r, Stored(Worth(r)))])
        worth == SumFunction([i \in DOMAIN SaleLines[s] |->
                                SaleLines[s][i].price * SaleLines[s][i].quantity])
    IN  2 * Scale * paid <= 2 * worth + Scale * Cardinality(rs)
===============================================================================
