------------------------------ MODULE SaleReturns ------------------------------
(***************************************************************************)
(* process_sale_return (app/modules/sales/returns_service.py) running      *)
(* concurrently with itself and with the catalog updates that activate and *)
(* deactivate products and warehouses, one SQL statement at a time on a    *)
(* READ COMMITTED PostgreSQL.  A statement that would wait for a lock is   *)
(* an action that is not enabled; a rollback forgets what was written.     *)
(***************************************************************************)
EXTENDS ReturnTypes

CONSTANTS
  Nobody,   \* the holder of a row no transaction has locked
  Active,   \* the products and warehouses that are active to begin with
  Edited,   \* the products and warehouses that are updated meanwhile
  Scripts   \* which requests may send which commands in one behaviour

Entities == Products \cup Warehouses

ASSUME ActorAssumption ==
  /\ Nobody \notin Requests
  /\ Products \cap Warehouses = {}
  /\ Edited \subseteq Products \cup Warehouses
  /\ Scripts \subseteq [Requests -> Commands]

VARIABLES
  \* committed
  status,     \* whether each product and warehouse is active
  stock, movements, returns, returned,   \* as in ReturnLedger
  \* the open transactions
  pc,         \* the next statement of each request
  holder,     \* the request that holds a sale FOR UPDATE
  owner,      \* the request that has written a balance row
  written,    \* the balances the upserts of each request returned
  shares,     \* the catalog rows that foreign keys lock FOR KEY SHARE
  latch,      \* the progress of the update transaction that holds a catalog row
  \* the callers
  cmd, answer

vars == <<status, stock, movements, returns, returned, pc, holder, owner, written,
          shares, latch, cmd, answer>>
committed == <<status, stock, movements, returns, returned>>
locks == <<holder, owner, written, shares>>

Steps == {"lookup", "lock", "check", "insert", "credit", "post", "commit", "reread",
          "done"}

TypeOK ==
  /\ status \in [Entities -> {"active", "inactive"}]
  /\ stock \in [Cell -> Nat]
  /\ movements \in [Cell -> Seq(Movement)]
  /\ returns \subseteq Priced
  /\ returned \in [Sales -> [Products -> Nat]]
  /\ pc \in [Requests -> Steps]
  /\ holder \in [Sales -> Requests \cup {Nobody}]
  /\ owner \in [Cell -> Requests \cup {Nobody}]
  /\ written \in [Requests -> Seq(Nat)]
  /\ shares \in [Requests -> SUBSET Entities]
  /\ latch \in [Entities -> {"free", "deactivating", "clear", "editing"}]
  /\ cmd \in [Requests -> Commands]
  /\ answer \in [Requests -> Answer]

Init ==
  /\ status = [e \in Entities |-> IF e \in Active THEN "active" ELSE "inactive"]
  /\ stock = Opening
  /\ movements = [x \in Cell |-> << >>]
  /\ returns = {}
  /\ returned = [s \in Sales |-> [p \in Products |-> 0]]
  /\ pc = [t \in Requests |-> "lookup"]
  /\ holder = [s \in Sales |-> Nobody]
  /\ owner = [x \in Cell |-> Nobody]
  /\ written = [t \in Requests |-> << >>]
  /\ shares = [t \in Requests |-> {}]
  /\ latch = [e \in Entities |-> "free"]
  /\ cmd \in Scripts
  /\ answer = [t \in Requests |-> [outcome |-> "pending", value |-> 0, refunded |-> 0]]

-------------------------------------------------------------------------------
(* Transactions *)

\* The transaction goes on with another statement, or with another transaction.
Goto(t, next) ==
  /\ pc' = [pc EXCEPT ![t] = next]
  /\ UNCHANGED <<committed, latch, cmd, answer>>

\* What ends a transaction lets go of: its locks and what it had written.
Release(t) ==
  /\ holder' = [s \in Sales |-> IF holder[s] = t THEN Nobody ELSE holder[s]]
  /\ owner' = [x \in Cell |-> IF owner[x] = t THEN Nobody ELSE owner[x]]
  /\ written' = [written EXCEPT ![t] = << >>]
  /\ shares' = [shares EXCEPT ![t] = {}]

Tell(t, o, v) ==
  /\ pc' = [pc EXCEPT ![t] = "done"]
  /\ answer' = [answer EXCEPT ![t] =
       [outcome |-> o, value |-> v, refunded |-> Refund(cmd[t], v)]]

\* The call returns or raises without having changed anything.
Finish(t, o, v) ==
  /\ Tell(t, o, v)
  /\ Release(t)
  /\ UNCHANGED <<committed, latch, cmd>>

\* _replayed_return on what is committed: it returns the recorded result, raises
\* ReturnIdempotencyConflictError, or finds nothing.
\* Mutants: the fingerprint is not compared; its lines are not sorted.
AnyRequest(r, c) == TRUE
SameSequence(r, c) == r = c
SameRequest(r, c) == Digest(r) = Digest(c)
Answered(t) ==
  \E r \in Recorded(cmd[t], returns) :
    \/ SameRequest(r, cmd[t]) /\ Finish(t, "replayed", ToldAgain(r))
    \/ ~SameRequest(r, cmd[t]) /\ Finish(t, "conflict", 0)

Lookup(t) ==
  /\ pc[t] = "lookup"
  /\ \/ ~Valid(cmd[t]) /\ Finish(t, "invalid", 0)
     \/ Valid(cmd[t]) /\ Answered(t)
     \/ /\ Valid(cmd[t])
        /\ Recorded(cmd[t], returns) = {}
        /\ Goto(t, "lock")
        /\ UNCHANGED locks

\* SELECT ... FOR UPDATE of the sale: returns of one sale run one after another.
\* Mutant: the sale is read without the lock.
AlwaysIdle(s) == TRUE
Idle(s) == holder[s] = Nobody
LockSale(t) ==
  LET s == cmd[t].sale IN
  /\ pc[t] = "lock"
  /\ \/ /\ s \notin Sales
        /\ Finish(t, "not_found", 0)
     \/ /\ s \in Sales
        /\ Idle(s)
        /\ holder' = [holder EXCEPT ![s] = t]
        /\ Goto(t, "check")
        /\ UNCHANGED <<owner, written, shares>>

\* The second lookup, the reads and the checks.  What the reads see of the sale
\* no longer changes while it is locked.
\* Mutant: without the second lookup.
CheckReturnOnce(t) ==
  LET c == cmd[t] IN
  /\ pc[t] = "check"
  /\ \/ Adjusted(c, returns) /\ Finish(t, "adjusted", 0)
     \/ ~Adjusted(c, returns) /\ Exceeds(c, returned) /\ Finish(t, "exceeded", 0)
     \/ /\ ~Adjusted(c, returns) /\ ~Exceeds(c, returned)
        /\ Goto(t, "insert")
        /\ UNCHANGED locks
CheckReturn(t) ==
  LET c == cmd[t] IN
  /\ pc[t] = "check"
  /\ \/ Answered(t)
     \/ /\ Recorded(c, returns) = {}
        /\ \/ Adjusted(c, returns) /\ Finish(t, "adjusted", 0)
           \/ ~Adjusted(c, returns) /\ Exceeds(c, returned) /\ Finish(t, "exceeded", 0)
           \/ /\ ~Adjusted(c, returns) /\ ~Exceeds(c, returned)
              /\ Goto(t, "insert")
              /\ UNCHANGED locks

\* The requests that have inserted the key of t and not ended.
\* Mutant: no unique index to wait at.
NoRivals(t) == {}
Rivals(t) ==
  {u \in Requests \ {t} : /\ pc[u] \in {"credit", "post", "commit"}
                          /\ cmd[u].key = cmd[t].key}

\* INSERT of the sale_returns row, which carries the key.
InsertReturn(t) ==
  /\ pc[t] = "insert"
  /\ Rivals(t) = {}
  /\ \/ /\ Recorded(cmd[t], returns) = {}
        /\ Goto(t, IF EffectiveLines(cmd[t]) = << >> THEN "commit" ELSE "credit")
        /\ UNCHANGED locks
     \/ /\ Recorded(cmd[t], returns) # {}
        /\ Goto(t, "reread")
        /\ Release(t)

\* The lookup after the unique constraint refused the insert.
Reread(t) == pc[t] = "reread" /\ Answered(t)

-------------------------------------------------------------------------------
(* The lines, in the order of the command *)

Line(t) == Len(written[t]) + 1

\* Mutant: upserts that do not wait for the writer of a row.
AlwaysFree(t, x) == TRUE
Free(t, x) == owner[x] \in {t, Nobody}

\* What the upsert of the next line leaves in cell x.
\* Mutant: it takes the quantity away.
Debited(t, x) == stock[x] - QuantityOf(cmd[t], Line(t))
Credited(t, x) == stock[x] + QuantityOf(cmd[t], Line(t))

\* INSERT ... ON CONFLICT DO UPDATE SET quantity = quantity + q.
CreditLine(t) ==
  LET x == CellOf(cmd[t], Line(t)) IN
  /\ pc[t] = "credit"
  /\ Free(t, x)
  /\ owner' = [owner EXCEPT ![x] = t]
  /\ written' = [written EXCEPT ![t] = Append(@, Credited(t, x))]
  /\ Goto(t, "post")
  /\ UNCHANGED <<holder, shares>>

\* INSERT of the return line and of the movement.  Its foreign keys wait for an
\* update of the product or of the warehouse and then keep both from being locked;
\* nobody reads whether they are active.
PostLine(t) ==
  LET c == cmd[t]
      x == CellOf(c, Len(written[t]))
  IN  /\ pc[t] = "post"
      /\ latch[x[1]] = "free" /\ latch[x[2]] = "free"
      /\ shares' = [shares EXCEPT ![t] = @ \cup {x[1], x[2]}]
      /\ Goto(t, IF Line(t) \in DOMAIN EffectiveLines(c) THEN "credit" ELSE "commit")
      /\ UNCHANGED <<holder, owner, written>>

\* The lines of a command that credit cell x.
LinesAt(c, x) == {i \in DOMAIN EffectiveLines(c) : CellOf(c, i) = x}

\* COMMIT.  The connection may be lost before the caller hears of it.
Commit(t) ==
  LET c == cmd[t]
      at(x) == CHOOSE i \in LinesAt(c, x) : TRUE
  IN  /\ pc[t] = "commit"
      /\ stock' = [x \in Cell |->
           IF LinesAt(c, x) = {} THEN stock[x] ELSE written[t][at(x)]]
      /\ movements' = [x \in Cell |->
           IF LinesAt(c, x) = {} THEN movements[x]
           ELSE Append(movements[x], [return |-> c, quantity |-> QuantityOf(c, at(x)),
                                      after |-> written[t][at(x)]])]
      /\ returns' = returns \cup {c}
      /\ returned' = [returned EXCEPT ![c.sale] =
                        [p \in Products |-> @[p] + Given(c, p)]]
      /\ Tell(t, "created", ToldFirst(c)) \/ Tell(t, "unavailable", 0)
      /\ Release(t)
      /\ UNCHANGED <<status, latch, cmd>>

-------------------------------------------------------------------------------
(* Deadlocks and lost connections *)

\* The requests whose transactions the next statement of t waits for.
WaitsFor(t) ==
  LET c == cmd[t] IN
  CASE pc[t] = "lock" /\ c.sale \in Sales -> {holder[c.sale]} \ {t, Nobody}
    [] pc[t] = "insert" -> Rivals(t)
    [] pc[t] = "credit" -> {owner[CellOf(c, Line(t))]} \ {t, Nobody}
    [] OTHER -> {}

\* A transaction waits for one other at most.
Deadlock(ts) == ts # {} /\ \A t \in ts : WaitsFor(t) \cap ts # {}

\* PostgreSQL ends one transaction of a deadlock; main.py answers 503.
\* Mutant: without the deadlock detector.
NoVictim(t) == FALSE
DeadlockVictim(t) ==
  /\ WaitsFor(t) # {}
  /\ \E ts \in SUBSET Requests : t \in ts /\ Deadlock(ts)
  /\ Finish(t, "unavailable", 0)

\* The connection, the process or the server is lost before the commit.
Fail(t) ==
  /\ pc[t] # "done"
  /\ Finish(t, "unavailable", 0)

-------------------------------------------------------------------------------
(* The catalog: update_product and update_warehouse *)

BalancesOf(e) == {x \in Cell : e \in {x[1], x[2]}}

CatalogStep(e, st, l) ==
  /\ status' = [status EXCEPT ![e] = st]
  /\ latch' = [latch EXCEPT ![e] = l]
  /\ UNCHANGED <<stock, movements, returns, returned, pc, locks, cmd, answer>>

\* SELECT ... FOR UPDATE; it conflicts with the key shares of uncommitted movements.
LockEntity(e) ==
  /\ latch[e] = "free"
  /\ \A t \in Requests : e \notin shares[t]
  /\ \/ status[e] = "active" /\ CatalogStep(e, status[e], "deactivating")
     \/ CatalogStep(e, status[e], "editing")

\* The sum of the balances of every condition; stock raises and rolls back.
CheckStock(e) ==
  /\ latch[e] = "deactivating"
  /\ \/ (\E x \in BalancesOf(e) : stock[x] > 0) /\ CatalogStep(e, status[e], "free")
     \/ (\A x \in BalancesOf(e) : stock[x] = 0) /\ CatalogStep(e, status[e], "clear")

UpdateEntity(e) ==
  \/ latch[e] = "clear" /\ CatalogStep(e, "inactive", "free")
  \/ latch[e] = "editing" /\ \E st \in {status[e], "active"} : CatalogStep(e, st, "free")

\* A refused price, a lost connection: the update rolls back.
AbandonUpdate(e) ==
  /\ latch[e] # "free"
  /\ CatalogStep(e, status[e], "free")

-------------------------------------------------------------------------------
Statement(t) ==
  \/ Lookup(t) \/ LockSale(t) \/ CheckReturn(t) \/ InsertReturn(t) \/ Reread(t)
  \/ CreditLine(t) \/ PostLine(t) \/ Commit(t)

CatalogNext(e) == LockEntity(e) \/ CheckStock(e) \/ UpdateEntity(e) \/ AbandonUpdate(e)

Next ==
  \/ \E t \in Requests : Statement(t) \/ DeadlockVictim(t) \/ Fail(t)
  \/ \E e \in Edited : CatalogNext(e)

Spec == Init /\ [][Next]_vars

\* As in Inventory: statements run, the foreign key checks of PostLine queue with
\* the catalog updates they compete with, updates end, deadlocks are broken.
Fairness ==
  /\ \A t \in Requests : WF_vars(Statement(t)) /\ SF_vars(PostLine(t))
  /\ WF_vars(\E t \in Requests : DeadlockVictim(t))
  /\ \A e \in Edited : WF_vars(CheckStock(e) \/ UpdateEntity(e) \/ AbandonUpdate(e))

FairSpec == Spec /\ Fairness

-------------------------------------------------------------------------------
(* Properties *)

\* The statements, locks and commits amount to the atomic adjustments of
\* ReturnLedger, whose properties SaleReturns inherits.
Ledger == INSTANCE ReturnLedger
ImplementsReturnLedger == Ledger!Spec

NeverOverReturned == Ledger!NeverOverReturned
VoidStandsAlone == Ledger!VoidStandsAlone
ReturnedOnce == Ledger!ReturnedOnce
CreditChain == Ledger!CreditChain
ReturnsDurable == Ledger!ReturnsDurable
RefundsWithinRounding == Ledger!RefundsWithinRounding

\* A return that is repeated, its lines in any order, is replayed, also when the first
\* call commits between the two lookups: it is never refused for what the first one did
\* to the sale.
RepeatsReplayed ==
  [][\A t \in Requests :
       /\ answer[t].outcome = "pending"
       /\ answer'[t].outcome \in {"adjusted", "exceeded"}
       => Repeated(cmd[t], returns) = {}]_vars

\* Every call returns: transactions that lock balances in opposite orders of
\* lines, or wait for a catalog update, come to an end.
EveryReturnAnswered == <>(\A t \in Requests : answer[t].outcome # "pending")

\* decisions/0013: "New inventory movements take compatible read locks on both
\* catalog rows and reject inactive contexts, so movement creation and
\* deactivation cannot cross unnoticed" and "inactive contexts cannot silently
\* accumulate new inventory."
InactiveGainsNothing ==
  [][\A x \in Cell :
       (status[x[1]] = "inactive" \/ status[x[2]] = "inactive") => stock'[x] <= stock[x]]_vars
===============================================================================
