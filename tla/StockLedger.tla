------------------------------ MODULE StockLedger ------------------------------
(***************************************************************************)
(* What the inventory component promises, with no transactions, locks or   *)
(* partial steps: each stock command takes effect at most once and at one  *)
(* instant, on balances that never go negative, and only while its product *)
(* and warehouses are active; every refusal has a reason at that instant.  *)
(* Inventory, the statement-level specification, implements it.            *)
(***************************************************************************)
EXTENDS StockTypes

VARIABLES
  status,   \* of each product and warehouse: absent, active or inactive
  balance,  \* the quantity of each cell
  history,  \* the postings of each cell, in the order they took effect
  entries,  \* the operations recorded under their idempotency key
  cmd,      \* the command each request carries
  answer    \* what each request has been told

ledgerVars == <<status, balance, history, entries, cmd, answer>>

LedgerTypeOK ==
  /\ status \in [Entities -> {"absent", "active", "inactive"}]
  /\ balance \in [Cell -> Nat]
  /\ history \in [Cell -> Seq(Posting)]
  /\ entries \subseteq Entry
  /\ cmd \in [Requests -> Commands]
  /\ answer \in [Requests -> Answer]

Init ==
  /\ status = [e \in Entities |-> IF e \in Opened THEN "active" ELSE "absent"]
  /\ balance = Opening
  /\ history = [x \in Cell |-> << >>]
  /\ entries = {}
  /\ cmd \in [Requests -> Commands]
  /\ answer = [r \in Requests |-> [outcome |-> "pending", balances |-> NoBalances]]

Tell(r, o, bal) ==
  /\ answer[r].outcome = "pending"
  /\ answer' = [answer EXCEPT ![r] = [outcome |-> o, balances |-> bal]]

-------------------------------------------------------------------------------
\* The command takes effect.  The caller may never hear of it: a connection can
\* be lost after the commit.
Confirm(r) ==
  LET c == cmd[r]
      bal == BalancesAfter(c, balance)
  IN  /\ Valid(c)
      /\ Recorded(c, entries) = {}
      /\ \A e \in Context(c) : status[e] = "active"
      /\ Debits(c) => balance[Source(c)] >= c.quantity
      /\ balance' = Written(c, bal, balance)
      /\ history' = Posted(c, bal, history)
      /\ entries' = entries \cup {[command |-> c, balances |-> bal]}
      /\ Tell(r, "created", bal) \/ Tell(r, "unavailable", NoBalances)
      /\ UNCHANGED <<status, cmd>>

\* A repeated command is told what the first one was told.
Replay(r) ==
  /\ \E e \in Recorded(cmd[r], entries) :
       e.command = cmd[r] /\ Tell(r, "replayed", e.balances)
  /\ UNCHANGED <<status, balance, history, entries, cmd>>

\* A refused command changes nothing.  The two last reasons are not bound to the
\* instant: a row can appear after it was looked for, a connection can fail.
Refuse(r) ==
  LET c == cmd[r] IN
  /\ \/ ~Valid(c) /\ Tell(r, "invalid", NoBalances)
     \/ /\ \E e \in Recorded(c, entries) : e.command # c
        /\ Tell(r, "conflict", NoBalances)
     \/ /\ \E e \in Context(c) : status[e] = "inactive"
        /\ Tell(r, "inactive", NoBalances)
     \/ /\ Debits(c)
        /\ balance[Source(c)] < c.quantity
        /\ Tell(r, "insufficient", NoBalances)
     \/ Tell(r, "not_found", NoBalances)
     \/ Tell(r, "unavailable", NoBalances)
  /\ UNCHANGED <<status, balance, history, entries, cmd>>

SetStatus(e, from, to) ==
  /\ status[e] = from
  /\ status' = [status EXCEPT ![e] = to]
  /\ UNCHANGED <<balance, history, entries, cmd, answer>>

\* The cells of a product, or of a warehouse.
CellsOf(e) == {x \in Cell : e \in {x[1], x[2]}}

Create(e)     == SetStatus(e, "absent", "active")
Activate(e)   == SetStatus(e, "inactive", "active")
Deactivate(e) == SetStatus(e, "active", "inactive")
                   /\ \A x \in CellsOf(e) : balance[x] = 0

Next ==
  \/ \E r \in Requests : Confirm(r) \/ Replay(r) \/ Refuse(r)
  \/ \E e \in Entities : Create(e) \/ Activate(e) \/ Deactivate(e)

Spec == Init /\ [][Next]_ledgerVars

-------------------------------------------------------------------------------
\* The quantity a cell had before its i-th posting.
Before(x, i) == IF i = 1 THEN Opening[x] ELSE history[x][i - 1].after

\* No update of a balance is lost or applied twice: in every cell each posting
\* starts from the balance the previous one left, adds or takes its quantity, and
\* the stored balance is the one the last posting left (record_stock_movement and
\* transfer_stock write balance_after from what their UPDATE returned).
BalanceChain ==
  \A x \in Cell :
    /\ \A i \in DOMAIN history[x] :
         LET p == history[x][i] IN
         p.after = IF p.type = "RECEIPT" THEN Before(x, i) + p.quantity
                                         ELSE Before(x, i) - p.quantity
    /\ balance[x] = Before(x, Len(history[x]) + 1)

\* An operation is recorded once and posted once: a key holds at most one entry,
\* the movement rows of an entry (two for a transfer, on its two cells) are all
\* there, and there is no row more, whatever is repeated, raced or cut short.
ExactlyOnce ==
  /\ \A e, f \in entries : OpId(e.command) = OpId(f.command) => e = f
  /\ \A e \in entries : \A row \in PostingsOf(e.command, e.balances) :
       \E i \in DOMAIN history[row[1]] : history[row[1]][i] = row[2]
  /\ \A x \in Cell : \A i \in DOMAIN history[x] :
       /\ \E e \in entries : <<x, history[x][i]>> \in PostingsOf(e.command, e.balances)
       /\ \A j \in DOMAIN history[x] : history[x][i].op = history[x][j].op => i = j

\* A caller told that its command was carried out can rely on it: the entry of
\* that very command, with the balances the caller was told, is recorded and
\* stays so; and among the callers that use a key only one is told "created".
AnswersDurable ==
  \A r \in Requests :
    /\ answer[r].outcome \in {"created", "replayed"} =>
         [command |-> cmd[r], balances |-> answer[r].balances] \in entries
    /\ \A s \in Requests :
         /\ answer[r].outcome = "created"
         /\ answer[s].outcome = "created"
         /\ OpId(cmd[r]) = OpId(cmd[s])
         => r = s

\* A product or warehouse that is not active holds no stock, so deactivating one
\* never strands a quantity (update_product and update_warehouse refuse it).
InactiveHoldsNoStock ==
  \A e \in Entities : status[e] # "active" => \A x \in CellsOf(e) : balance[x] = 0
===============================================================================
