------------------------------- MODULE Inventory -------------------------------
(***************************************************************************)
(* record_stock_movement and transfer_stock (app/modules/inventory/        *)
(* service.py) running concurrently with each other and with the catalog   *)
(* updates that activate and deactivate products and warehouses, one SQL   *)
(* statement at a time on a READ COMMITTED PostgreSQL.                     *)
(*                                                                         *)
(* A statement that would wait for a lock is an action that is not         *)
(* enabled.  What a transaction wrote is in owner and written until its    *)
(* commit publishes it; a rollback forgets it.                             *)
(***************************************************************************)
EXTENDS StockTypes

CONSTANTS
  Nobody,   \* the owner of a row no transaction has locked
  Edited,   \* the products and warehouses that are created or updated meanwhile
  Scripts   \* which requests may send which commands in one behaviour

ASSUME ActorAssumption ==
  /\ Nobody \notin Requests
  /\ Edited \subseteq Products \cup Warehouses
  /\ Scripts \subseteq [Requests -> Commands]

\* There are finitely many warehouses: any of them have a last one.
ASSUME OrderAssumption ==
  \A S \in SUBSET Warehouses : S # {} => \E w \in S : \A v \in S : v <= w

VARIABLES
  \* committed
  status,   \* products.active and warehouses.active, or "absent"
  rows,     \* the cells that have a stock_balances row
  balance,  \* stock_balances.quantity; 0 for a cell without a row
  history,  \* the stock_movements rows of each cell, in commit order
  entries,  \* the stock_movements and stock_transfers rows by idempotency key
  \* the open transactions
  pc,       \* the next statement of each request
  shares,   \* the catalog rows each request holds FOR SHARE
  owner,    \* the request that has locked, written or inserted a balance row
  written,  \* the balances the updates of each request returned
  latch,    \* the progress of the update transaction that holds a catalog row
  \* the callers
  cmd, answer

vars == <<status, rows, balance, history, entries, pc, shares, owner, written,
          latch, cmd, answer>>
committed == <<status, rows, balance, history, entries>>

Steps == {"lookup", "product", "first_warehouse", "warehouse",
          "upsert", "debit", "seed_source", "seed_destination",
          "lock_first", "lock_second", "move",
          "insert", "commit", "reread", "done"}
Latches == {"free", "deactivating", "clear", "editing"}

TypeOK ==
  /\ status \in [Entities -> {"absent", "active", "inactive"}]
  /\ rows \subseteq Cell
  /\ balance \in [Cell -> Nat]
  /\ history \in [Cell -> Seq(Posting)]
  /\ entries \subseteq Entry
  /\ pc \in [Requests -> Steps]
  /\ shares \in [Requests -> SUBSET Entities]
  /\ owner \in [Cell -> Requests \cup {Nobody}]
  /\ written \in [Requests -> Balances]
  /\ latch \in [Entities -> Latches]
  /\ cmd \in [Requests -> Commands]
  /\ answer \in [Requests -> Answer]

Init ==
  /\ status = [e \in Entities |-> IF e \in Opened THEN "active" ELSE "absent"]
  /\ rows = OpeningRows
  /\ balance = Opening
  /\ history = [x \in Cell |-> << >>]
  /\ entries = {}
  /\ pc = [t \in Requests |-> "lookup"]
  /\ shares = [t \in Requests |-> {}]
  /\ owner = [x \in Cell |-> Nobody]
  /\ written = [t \in Requests |-> NoBalances]
  /\ latch = [e \in Entities |-> "free"]
  /\ cmd \in Scripts
  /\ answer = [t \in Requests |-> [outcome |-> "pending", balances |-> NoBalances]]

-------------------------------------------------------------------------------
(* Transactions *)

\* The transaction goes on with another statement, or with another transaction.
Goto(t, next) ==
  /\ pc' = [pc EXCEPT ![t] = next]
  /\ UNCHANGED <<committed, latch, cmd, answer>>

\* What ends a transaction lets go of: its locks and what it had written.
Release(t) ==
  /\ shares' = [shares EXCEPT ![t] = {}]
  /\ owner' = [x \in Cell |-> IF owner[x] = t THEN Nobody ELSE owner[x]]
  /\ written' = [written EXCEPT ![t] = NoBalances]

Tell(t, o, bal) ==
  /\ pc' = [pc EXCEPT ![t] = "done"]
  /\ answer' = [answer EXCEPT ![t] = [outcome |-> o, balances |-> bal]]

\* The call returns or raises without having changed anything.
Finish(t, o, bal) ==
  /\ Tell(t, o, bal)
  /\ Release(t)
  /\ UNCHANGED <<committed, latch, cmd>>

Take(t, x) == owner' = [owner EXCEPT ![x] = t]

\* Mutant: updates that do not wait for the writer of a row.
AlwaysFree(t, x) == TRUE
Free(t, x) == owner[x] \in {t, Nobody}

\* The WHERE quantity >= :quantity of the two conditional updates.
\* Mutant: without it.
NeverShort(c) == FALSE
Short(c) == balance[Source(c)] < c.quantity

\* The comparison of fingerprints, which digest all of a command but its key.
\* Mutant: any command replays what its key holds.
AnyRequest(e, c) == TRUE
SameRequest(e, c) == e.command = c

-------------------------------------------------------------------------------
(* The steps both functions have in common *)

\* The validation, the fingerprint and _replayed_result or _replayed_transfer.
Lookup(t) ==
  LET c == cmd[t]
      same == {e \in Recorded(c, entries) : SameRequest(e, c)}
  IN  /\ pc[t] = "lookup"
      /\ \/ /\ ~Valid(c)
            /\ Finish(t, "invalid", NoBalances)
         \/ /\ Valid(c)
            /\ \E e \in same : Finish(t, "replayed", e.balances)
         \/ /\ Valid(c)
            /\ Recorded(c, entries) \ same # {}
            /\ Finish(t, "conflict", NoBalances)
         \/ /\ Valid(c)
            /\ Recorded(c, entries) = {}
            /\ Goto(t, "product")
            /\ UNCHANGED <<shares, owner, written>>

\* The cells of a transfer in ORDER BY warehouse_id.
\* Mutant: in the order of the command.
AsGiven(w, v) == TRUE
ComesFirst(w, v) == w < v
First(c)  == IF ComesFirst(c.source, c.destination) THEN Source(c) ELSE Destination(c)
Second(c) == IF ComesFirst(c.source, c.destination) THEN Destination(c) ELSE Source(c)

\* SELECT active ... FOR SHARE of one row: finds none, or waits for the update
\* that holds it and then reads what that update left.
Found(e) == {f \in {e} : status[f] # "absent"}
\* Mutant: a plain SELECT beside the update that holds the row.
ShareUnlocked(t, e) == shares' = [shares EXCEPT ![t] = @ \cup Found(e)]
Share(t, e) ==
  /\ latch[e] = "free"
  /\ shares' = [shares EXCEPT ![t] = @ \cup Found(e)]

ShareProduct(t) ==
  LET c == cmd[t] IN
  /\ pc[t] = "product"
  /\ Share(t, c.product)
  /\ Goto(t, IF c.kind = "TRANSFER" THEN "first_warehouse" ELSE "warehouse")
  /\ UNCHANGED <<owner, written>>

\* The warehouses of a transfer are read in ORDER BY id.
ShareFirstWarehouse(t) ==
  /\ pc[t] = "first_warehouse"
  /\ Share(t, First(cmd[t])[2])
  /\ Goto(t, "warehouse")
  /\ UNCHANGED <<owner, written>>

\* The last row of the context, then the checks on what the selects have read.
\* A row that was created after its select is still one that was not read.
ShareWarehouse(t) ==
  LET c == cmd[t]
      w == Second(c)[2]
      found == shares[t] \cup Found(w)
      active == {e \in found : status[e] = "active"}
      next == CASE c.kind = "RECEIPT"  -> "upsert"
                [] c.kind = "ISSUE"    -> "debit"
                [] c.kind = "TRANSFER" -> "seed_source"
  IN  /\ pc[t] = "warehouse"
      /\ \/ /\ latch[w] = "free"
            /\ Context(c) \ found # {}
            /\ Finish(t, "not_found", NoBalances)
         \/ /\ latch[w] = "free"
            /\ Context(c) \subseteq found
            /\ found \ active # {}
            /\ Finish(t, "inactive", NoBalances)
         \/ /\ Context(c) \subseteq active
            /\ Share(t, w)
            /\ Goto(t, next)
            /\ UNCHANGED <<owner, written>>

\* Another transaction has inserted the key of t and not ended.
\* Mutant: no unique index to wait at.
NeverInFlight(t) == FALSE
KeyInFlight(t) ==
  \E u \in Requests \ {t} : pc[u] = "commit" /\ OpId(cmd[u]) = OpId(cmd[t])

\* INSERT of the row that carries the idempotency key.  The unique index makes it
\* wait for a transaction in flight with the key; a committed key rolls this
\* transaction back, and the handler reads the key again.
\* Mutant: the handler gives up at a key in flight.
InsertRowImpatient(t) ==
  /\ pc[t] = "insert"
  /\ \/ /\ Recorded(cmd[t], entries) = {} /\ ~KeyInFlight(t)
        /\ Goto(t, "commit")
        /\ UNCHANGED <<shares, owner, written>>
     \/ /\ Recorded(cmd[t], entries) # {} \/ KeyInFlight(t)
        /\ Goto(t, "reread")
        /\ Release(t)
InsertRow(t) ==
  /\ pc[t] = "insert"
  /\ ~KeyInFlight(t)
  /\ \/ /\ Recorded(cmd[t], entries) = {}
        /\ Goto(t, "commit")
        /\ UNCHANGED <<shares, owner, written>>
     \/ /\ Recorded(cmd[t], entries) # {}
        /\ Goto(t, "reread")
        /\ Release(t)

\* COMMIT.  The connection may be lost before the caller hears of it.
Commit(t) ==
  LET c == cmd[t] IN
  /\ pc[t] = "commit"
  /\ rows' = rows \cup {x \in Cell : owner[x] = t}
  /\ balance' = Written(c, written[t], balance)
  /\ history' = Posted(c, written[t], history)
  /\ entries' = entries \cup {[command |-> c, balances |-> written[t]]}
  /\ Tell(t, "created", written[t]) \/ Tell(t, "unavailable", NoBalances)
  /\ Release(t)
  /\ UNCHANGED <<status, latch, cmd>>

\* The second lookup, after the unique constraint refused the insert.
Reread(t) ==
  /\ pc[t] = "reread"
  /\ \E e \in Recorded(cmd[t], entries) :
       \/ SameRequest(e, cmd[t]) /\ Finish(t, "replayed", e.balances)
       \/ ~SameRequest(e, cmd[t]) /\ Finish(t, "conflict", NoBalances)

-------------------------------------------------------------------------------
(* record_stock_movement *)

\* INSERT ... ON CONFLICT DO UPDATE SET quantity = quantity + q: waits for a
\* writer of the row, also for one that has inserted it and not committed.
UpsertReceipt(t) ==
  LET c == cmd[t] IN
  /\ pc[t] = "upsert"
  /\ Free(t, Source(c))
  /\ Take(t, Source(c))
  /\ written' = [written EXCEPT ![t] = BalancesAfter(c, balance)]
  /\ Goto(t, "insert")
  /\ UNCHANGED shares

\* UPDATE ... WHERE quantity >= q: a row the last commit left too short is passed
\* over at once; one that has enough is waited for and then read again.
DebitIssue(t) ==
  LET c == cmd[t]
      x == Source(c)
  IN  /\ pc[t] = "debit"
      /\ \/ /\ Short(c)
            /\ Finish(t, "insufficient", NoBalances)
         \/ /\ x \in rows
            /\ ~Short(c)
            /\ Free(t, x)
            /\ Take(t, x)
            /\ written' = [written EXCEPT ![t] = BalancesAfter(c, balance)]
            /\ Goto(t, "insert")
            /\ UNCHANGED shares

-------------------------------------------------------------------------------
(* transfer_stock *)

\* One row of the INSERT ... ON CONFLICT DO NOTHING: a committed row is left
\* alone, locked or not; a row another transaction is inserting is waited for.
SeedRow(t, x, next) ==
  /\ \/ x \in rows /\ UNCHANGED owner
     \/ x \notin rows /\ Free(t, x) /\ Take(t, x)
  /\ Goto(t, next)
  /\ UNCHANGED <<shares, written>>

SeedSource(t) ==
  pc[t] = "seed_source" /\ SeedRow(t, Source(cmd[t]), "seed_destination")

SeedDestination(t) ==
  pc[t] = "seed_destination" /\ SeedRow(t, Destination(cmd[t]), "lock_first")

LockRow(t, x, next) ==
  /\ Free(t, x)
  /\ Take(t, x)
  /\ Goto(t, next)
  /\ UNCHANGED <<shares, written>>

\* SELECT ... ORDER BY warehouse_id FOR UPDATE, row by row.
LockFirst(t)  == pc[t] = "lock_first" /\ LockRow(t, First(cmd[t]), "lock_second")
LockSecond(t) == pc[t] = "lock_second" /\ LockRow(t, Second(cmd[t]), "move")

\* The two updates, on rows this transaction has locked.
MoveStock(t) ==
  LET c == cmd[t] IN
  /\ pc[t] = "move"
  /\ \/ /\ Short(c)
        /\ Finish(t, "insufficient", NoBalances)
     \/ /\ ~Short(c)
        /\ written' = [written EXCEPT ![t] = BalancesAfter(c, balance)]
        /\ Goto(t, "insert")
        /\ UNCHANGED <<shares, owner>>

-------------------------------------------------------------------------------
(* Deadlocks and lost connections *)

\* The requests whose transactions the next statement of t waits for.
WaitsFor(t) ==
  LET c == cmd[t]
      holder(x) == {owner[x]} \ {t, Nobody}
      inserter(x) == IF x \in rows THEN {} ELSE holder(x)
  IN  CASE pc[t] = "upsert" -> holder(Source(c))
        [] pc[t] = "debit" ->
             IF Short(c) THEN {} ELSE holder(Source(c))
        [] pc[t] = "seed_source" -> inserter(Source(c))
        [] pc[t] = "seed_destination" -> inserter(Destination(c))
        [] pc[t] = "lock_first" -> holder(First(c))
        [] pc[t] = "lock_second" -> holder(Second(c))
        [] pc[t] = "insert" ->
             {u \in Requests \ {t} : pc[u] = "commit" /\ OpId(cmd[u]) = OpId(c)}
        [] OTHER -> {}

\* A transaction waits for one other at most, so a deadlock is a set of requests
\* each of which waits for a member of the set.
Deadlock(ts) == ts # {} /\ \A t \in ts : WaitsFor(t) \cap ts # {}

\* PostgreSQL ends one transaction of a deadlock; main.py answers 503.
\* Mutant: without the deadlock detector.
NoVictim(t) == FALSE
DeadlockVictim(t) ==
  /\ WaitsFor(t) # {}
  /\ \E ts \in SUBSET Requests : t \in ts /\ Deadlock(ts)
  /\ Finish(t, "unavailable", NoBalances)

\* The connection, the process or the server is lost before the commit.
Fail(t) ==
  /\ pc[t] # "done"
  /\ Finish(t, "unavailable", NoBalances)

-------------------------------------------------------------------------------
(* The catalog: create_product, update_product, create_warehouse,          *)
(* update_warehouse                                                        *)

CellsOf(e) == {x \in Cell : e \in {x[1], x[2]}}

CatalogStep(e, st, l) ==
  /\ status' = [status EXCEPT ![e] = st]
  /\ latch' = [latch EXCEPT ![e] = l]
  /\ UNCHANGED <<rows, balance, history, entries, pc, shares, owner, written,
                 cmd, answer>>

CreateEntity(e) ==
  /\ status[e] = "absent"
  /\ CatalogStep(e, "active", "free")

\* Mutant: the row is read without FOR UPDATE.
AlwaysUnshared(e) == TRUE
Unshared(e) == \A t \in Requests : e \notin shares[t]

\* SELECT ... FOR UPDATE: waits for every request that holds the row FOR SHARE.
LockEntity(e) ==
  /\ status[e] # "absent"
  /\ latch[e] = "free"
  /\ Unshared(e)
  /\ \/ status[e] = "active" /\ CatalogStep(e, status[e], "deactivating")
     \/ CatalogStep(e, status[e], "editing")

\* The sum of the balances of the entity; stock raises and rolls back.
CheckStock(e) ==
  /\ latch[e] = "deactivating"
  /\ \/ /\ \E x \in CellsOf(e) : balance[x] > 0
        /\ CatalogStep(e, status[e], "free")
     \/ /\ \A x \in CellsOf(e) : balance[x] = 0
        /\ CatalogStep(e, status[e], "clear")

\* UPDATE and COMMIT: active = false, or the other fields with or without
\* active = true (with false, on an inactive row, it stays what it is).
UpdateEntity(e) ==
  \/ latch[e] = "clear" /\ CatalogStep(e, "inactive", "free")
  \/ latch[e] = "editing" /\ \E st \in {status[e], "active"} : CatalogStep(e, st, "free")

\* A refused price, a lost connection: the update rolls back.
AbandonUpdate(e) ==
  /\ latch[e] # "free"
  /\ CatalogStep(e, status[e], "free")

-------------------------------------------------------------------------------
Statement(t) ==
  \/ Lookup(t) \/ ShareProduct(t) \/ ShareFirstWarehouse(t) \/ ShareWarehouse(t)
  \/ UpsertReceipt(t) \/ DebitIssue(t)
  \/ SeedSource(t) \/ SeedDestination(t) \/ LockFirst(t) \/ LockSecond(t)
  \/ MoveStock(t)
  \/ InsertRow(t) \/ Commit(t) \/ Reread(t)

CatalogNext(e) ==
  CreateEntity(e) \/ LockEntity(e) \/ CheckStock(e) \/ UpdateEntity(e) \/ AbandonUpdate(e)

Next ==
  \/ \E t \in Requests : Statement(t) \/ DeadlockVictim(t) \/ Fail(t)
  \/ \E e \in Edited : CatalogNext(e)

Spec == Init /\ [][Next]_vars

\* A statement that can run eventually does.  The two selects FOR SHARE compete
\* with a stream of catalog updates that never has to end; PostgreSQL queues the
\* waiters of a row, so one that could run again and again does too.  A catalog
\* update that holds a row ends, and the deadlock detector ends a deadlock.
Fairness ==
  /\ \A t \in Requests :
       /\ WF_vars(Statement(t))
       /\ SF_vars(ShareProduct(t) \/ ShareFirstWarehouse(t) \/ ShareWarehouse(t))
  /\ WF_vars(\E t \in Requests : DeadlockVictim(t))
  /\ \A e \in Edited : WF_vars(CheckStock(e) \/ UpdateEntity(e) \/ AbandonUpdate(e))

FairSpec == Spec /\ Fairness

-------------------------------------------------------------------------------
(* Properties *)

\* The statements, locks and commits amount to the atomic operations of
\* StockLedger: no interleaving shows a balance, a posting, an entry, a status or
\* an answer that some order of whole operations would not show.
Ledger == INSTANCE StockLedgerProofs
ImplementsLedger == Ledger!Spec

\* The properties of StockLedger, which Inventory inherits (BalanceChain: no lost
\* update; ExactlyOnce: no operation recorded or posted twice or in part;
\* AnswersDurable: what a caller was told stays true; InactiveHoldsNoStock: the
\* check of update_product and update_warehouse is not stale when they write).
BalanceChain         == Ledger!BalanceChain
ExactlyOnce          == Ledger!ExactlyOnce
AnswersDurable       == Ledger!AnswersDurable
InactiveHoldsNoStock == Ledger!InactiveHoldsNoStock

\* The "if replayed is None: raise" of the two handlers is never reached: when the
\* unique constraint has refused a key, the transaction that holds it has
\* committed, and the second lookup finds its entry.
RereadFindsEntry ==
  \A t \in Requests : pc[t] = "reread" => Recorded(cmd[t], entries) # {}

\* No set of requests whose balances all have rows waits for itself: transfers lock
\* their rows in the order of the warehouses (decisions/0014), and a key is inserted
\* after that.
NoDeadlock ==
  \A ts \in SUBSET Requests :
    (\A t \in ts : {Source(cmd[t]), Destination(cmd[t])} \subseteq rows) => ~Deadlock(ts)

\* Every call returns, whatever the catalog updates do meanwhile.
EveryRequestAnswered == <>(\A t \in Requests : answer[t].outcome # "pending")

\* decisions/0005: "When the same organization and key are received again with the
\* same fingerprint, return the original movement ID and balance without changing
\* inventory."  So a call is never refused for a reason of stock or status once
\* its own command is recorded.
DuplicatesReplayed ==
  [][\A t \in Requests :
       /\ answer[t].outcome = "pending"
       /\ answer'[t].outcome \in {"insufficient", "inactive"}
       => \A e \in entries : e.command # cmd[t]]_vars
===============================================================================
