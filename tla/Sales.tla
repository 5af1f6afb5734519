---------------------------------- MODULE Sales ----------------------------------
(***************************************************************************)
(* create_sale (app/modules/sales/service.py) running concurrently with    *)
(* itself and with the updates of the catalog, the sales policy and the    *)
(* approval PINs, one SQL statement at a time on a READ COMMITTED          *)
(* PostgreSQL.  A statement that would wait for a lock is an action that   *)
(* is not enabled; a rollback forgets what was written.                    *)
(***************************************************************************)
EXTENDS SaleTypes

CONSTANTS
  Org,      \* the organization's row
  Updated,  \* the products and warehouses that are updated meanwhile
  Changing, \* the administrators who set their PIN meanwhile
  Horizon   \* the last minute of a behaviour; bounds the clock

ASSUME ActorAssumption ==
  /\ Org \notin Products \cup Warehouses
  /\ Updated \subseteq Products \cup Warehouses
  /\ Changing \subseteq Admins
  /\ Horizon \in Nat

\* There are finitely many products: any of them have a last one.
ASSUME CatalogAssumption ==
  \A S \in SUBSET Products : S # {} => \E p \in S : \A q \in S : q <= p

VARIABLES
  \* committed
  status, tags, rate, credentials, clock,  \* as in SaleLedger
  stock, issues, sales,
  rows,     \* the cells that have a stock_balances row
  \* the open transactions
  pc,       \* the next statement of each request
  terms,    \* the policy and the prices that each request has read
  shares,   \* the rows that each request holds FOR SHARE
  holder,   \* the request that holds a membership FOR UPDATE
  asked,    \* when each request looked at its PIN
  todo,     \* the products whose rows the current statement has still to visit
  owner,    \* the request that has locked or inserted a balance row
  written,  \* the balances that the updates of each request returned
  \* the callers
  cmd, answer,
  \* for the properties only
  guesses   \* when each wrong PIN was told, since the last that was right or set

catalog == <<status, tags>>
books == <<stock, issues, sales, rows>>
locks == <<terms, shares, holder, asked, todo, owner, written>>
vars == <<catalog, rate, credentials, clock, books, pc, locks, cmd, answer, guesses>>

Steps == {"lookup", "policy", "context", "approve", "miss", "seed", "lock", "insert",
          "reference", "debit", "commit", "reread", "done"}
NoTerms == [rate |-> OpeningRate, tags |-> OpeningTags]
Nothing == [p \in Products |-> 0]

TypeOK ==
  /\ status \in [Entities -> Statuses]
  /\ tags \in [Products -> Tag]
  /\ rate \in 0 .. Whole
  /\ credentials \in [Members -> Credential]
  /\ clock \in Nat
  /\ stock \in [Cell -> Nat]
  /\ issues \in [Cell -> Seq(Issue)]
  /\ sales \subseteq Sale
  /\ rows \subseteq Cell
  /\ pc \in [Requests -> Steps]
  /\ terms \in [Requests -> [rate : 0 .. Whole, tags : [Products -> Tag]]]
  /\ shares \in [Requests -> SUBSET (Entities \cup {Org})]
  /\ holder \in [Members -> Requests \cup {Nobody}]
  /\ asked \in [Requests -> Nat]
  /\ todo \in [Requests -> SUBSET Products]
  /\ owner \in [Cell -> Requests \cup {Nobody}]
  /\ written \in [Requests -> [Products -> Nat]]
  /\ cmd \in [Requests -> Commands]
  /\ answer \in [Requests -> Answer]
  /\ guesses \in [Members -> Seq(Nat)]

Init ==
  /\ status = [e \in Entities |-> IF e \in Opened THEN "active" ELSE "absent"]
  /\ tags = OpeningTags
  /\ rate = OpeningRate
  /\ credentials = [m \in Members |-> [pin |-> OpeningPins[m], failures |-> 0, until |-> 0]]
  /\ clock = 0
  /\ stock = Opening
  /\ issues = [x \in Cell |-> << >>]
  /\ sales = {}
  /\ rows = OpeningRows
  /\ pc = [t \in Requests |-> "lookup"]
  /\ terms = [t \in Requests |-> NoTerms]
  /\ shares = [t \in Requests |-> {}]
  /\ holder = [m \in Members |-> Nobody]
  /\ asked = [t \in Requests |-> 0]
  /\ todo = [t \in Requests |-> {}]
  /\ owner = [x \in Cell |-> Nobody]
  /\ written = [t \in Requests |-> Nothing]
  /\ cmd \in [Requests -> Commands]
  /\ answer = [t \in Requests |-> [outcome |-> "pending", sale |-> NoSale]]
  /\ guesses = [m \in Members |-> << >>]

-------------------------------------------------------------------------------
(* Transactions *)

\* The transaction goes on with another statement.
Goto(t, next) ==
  /\ pc' = [pc EXCEPT ![t] = next]
  /\ UNCHANGED <<catalog, rate, credentials, clock, books, cmd, answer>>

\* What ends a transaction lets go of: its locks, what it had read and written.
Release(t) ==
  /\ terms' = [terms EXCEPT ![t] = NoTerms]
  /\ shares' = [shares EXCEPT ![t] = {}]
  /\ holder' = [m \in Members |-> IF holder[m] = t THEN Nobody ELSE holder[m]]
  /\ asked' = [asked EXCEPT ![t] = 0]
  /\ todo' = [todo EXCEPT ![t] = {}]
  /\ owner' = [x \in Cell |-> IF owner[x] = t THEN Nobody ELSE owner[x]]
  /\ written' = [written EXCEPT ![t] = Nothing]

Tell(t, o, s) ==
  /\ pc' = [pc EXCEPT ![t] = "done"]
  /\ answer' = [answer EXCEPT ![t] = [outcome |-> o, sale |-> s]]

\* The call returns or raises without having changed anything.
Finish(t, o, s) ==
  /\ Tell(t, o, s)
  /\ Release(t)
  /\ UNCHANGED <<catalog, rate, credentials, clock, books, cmd, guesses>>

-------------------------------------------------------------------------------
(* The lookup, the context and the prices *)

\* _replayed_sale on what is committed: it returns the sale, raises
\* SaleIdempotencyConflictError, or finds nothing.
\* Mutant: the fingerprint is not compared.
AnySale(s, c) == TRUE
SameSale(s, c) == Digest(s.command) = Digest(c)
Answered(t) ==
  \E s \in Recorded(cmd[t], sales) :
    \/ SameSale(s, cmd[t]) /\ Finish(t, "replayed", s)
    \/ ~SameSale(s, cmd[t]) /\ Finish(t, "conflict", NoSale)

Lookup(t) ==
  /\ pc[t] = "lookup"
  /\ \/ ~Valid(cmd[t]) /\ Finish(t, "invalid", NoSale)
     \/ Valid(cmd[t]) /\ Answered(t)
     \/ /\ Valid(cmd[t])
        /\ Recorded(cmd[t], sales) = {}
        /\ Goto(t, "policy")
        /\ UNCHANGED <<locks, guesses>>

\* SELECT ... FOR SHARE of rows: their updates wait until the transaction ends.
\* Mutant: a plain SELECT.
ShareNone(t, es) == UNCHANGED shares
Share(t, es) == shares' = [shares EXCEPT ![t] = @ \cup es]

ReadPolicy(t) ==
  /\ pc[t] = "policy"
  /\ Share(t, {Org})
  /\ terms' = [terms EXCEPT ![t].rate = rate]
  /\ Goto(t, "context")
  /\ UNCHANGED <<holder, asked, todo, owner, written, guesses>>

\* The warehouse, the products, and the checks of what has been read.  An update of
\* one of them is one step here, so nothing of them is locked for longer.
ReadContext(t) ==
  LET c == cmd[t]
      r == terms[t].rate
      error == PriceError(c, tags, r)
  IN  /\ pc[t] = "context"
      /\ \/ /\ \E e \in Context(c) : status[e] = "absent"
            /\ Finish(t, "not_found", NoSale)
         \/ /\ \A e \in Context(c) : status[e] # "absent"
            /\ \E e \in Context(c) : status[e] = "inactive"
            /\ Finish(t, "inactive", NoSale)
         \/ /\ \A e \in Context(c) : status[e] = "active"
            /\ error # "none"
            /\ Finish(t, error, NoSale)
         \/ /\ \A e \in Context(c) : status[e] = "active"
            /\ error = "none"
            /\ Share(t, Context(c))
            /\ terms' = [terms EXCEPT ![t].tags = tags]
            /\ Goto(t, IF NeedsPin(c, tags, r) THEN "approve" ELSE "seed")
            /\ todo' = [todo EXCEPT ![t] = IF NeedsPin(c, tags, r) THEN {} ELSE Sold(c)]
            /\ UNCHANGED <<holder, asked, owner, written, guesses>>

-------------------------------------------------------------------------------
(* The approval *)

\* The requests whose inserted sales name member m as their seller: the foreign key
\* holds the membership FOR KEY SHARE.
SalesOf(m) == {t \in Requests : pc[t] \in {"debit", "commit"} /\ cmd[t].seller = m}

\* Mutant: the membership is read without FOR UPDATE.
AlwaysMine(t, m) == TRUE
Mine(t, m) == holder[m] \in {t, Nobody}

\* SELECT ... FOR UPDATE of the approver's membership, then the verification.
Approve(t) ==
  LET c == cmd[t]
      m == c.approval.approver
  IN  /\ pc[t] = "approve"
      /\ Mine(t, m)
      /\ SalesOf(m) \subseteq {t}
      /\ \/ /\ credentials[m].until > clock
            /\ Finish(t, "pin_locked", NoSale)
         \/ /\ credentials[m].until <= clock
            /\ Accepts(c.approval, credentials)
            /\ holder' = [holder EXCEPT ![m] = t]
            /\ todo' = [todo EXCEPT ![t] = Sold(c)]
            /\ guesses' = [guesses EXCEPT ![m] = << >>]
            /\ Goto(t, "seed")
            /\ UNCHANGED <<terms, shares, asked, owner, written>>
         \/ /\ credentials[m].until <= clock
            /\ ~Accepts(c.approval, credentials)
            /\ holder' = [holder EXCEPT ![m] = t]
            /\ asked' = [asked EXCEPT ![t] = clock]
            /\ Goto(t, "miss")
            /\ UNCHANGED <<terms, shares, todo, owner, written, guesses>>

\* The UPDATE that counts a wrong PIN of an administrator, and the COMMIT, after which
\* the error is raised.  Nothing else of the sale is written.
CountMiss(t) ==
  LET m == cmd[t].approval.approver IN
  /\ pc[t] = "miss"
  /\ credentials' =
       IF m \in Admins THEN [credentials EXCEPT ![m] = Missed(@, asked[t])] ELSE credentials
  /\ Tell(t, "pin_invalid", NoSale) \/ Tell(t, "unavailable", NoSale)
  /\ guesses' = [guesses EXCEPT ![m] = Append(@, asked[t])]
  /\ Release(t)
  /\ UNCHANGED <<catalog, rate, clock, books, cmd>>

-------------------------------------------------------------------------------
(* The rows *)

\* Mutant: statements that do not wait for the holder of a row.
AlwaysFree(t, x) == TRUE
Free(t, x) == owner[x] \in {t, Nobody}

\* Both statements visit the products in the order of their ids.
\* Mutant: in any order.
AnyNext(left) == left
Foremost(left) == {p \in left : \A q \in left : p <= q}

\* On with the statement, or with the next one and products ps.
Visited(t, p, here, next, ps) ==
  IF todo[t] = {p}
  THEN Goto(t, next) /\ todo' = [todo EXCEPT ![t] = ps]
  ELSE Goto(t, here) /\ todo' = [todo EXCEPT ![t] = @ \ {p}]

\* One row of the INSERT ... ON CONFLICT DO NOTHING: a committed row is left alone,
\* a row that another transaction is inserting is waited for.
SeedRow(t) ==
  /\ pc[t] = "seed"
  /\ \E p \in Foremost(todo[t]) :
       LET x == CellOf(cmd[t], p) IN
       /\ \/ x \in rows /\ UNCHANGED owner
          \/ x \notin rows /\ Free(t, x) /\ owner' = [owner EXCEPT ![x] = t]
       /\ Visited(t, p, "seed", "lock", Sold(cmd[t]))
  /\ UNCHANGED <<terms, shares, holder, asked, written, guesses>>

\* One row of the SELECT ... ORDER BY product_id FOR UPDATE.
LockRow(t) ==
  /\ pc[t] = "lock"
  /\ \E p \in Foremost(todo[t]) :
       LET x == CellOf(cmd[t], p) IN
       /\ Free(t, x)
       /\ owner' = [owner EXCEPT ![x] = t]
       /\ Visited(t, p, "lock", "insert", {})
  /\ UNCHANGED <<terms, shares, holder, asked, written, guesses>>

-------------------------------------------------------------------------------
(* The sale *)

\* The requests that have inserted the key of t and not ended.
\* Mutant: no unique index to wait at.
NoRivals(t) == {}
Rivals(t) ==
  {u \in Requests \ {t} : /\ pc[u] \in {"reference", "debit", "commit"}
                          /\ cmd[u].key = cmd[t].key}

\* INSERT of the sale, which carries the key: a committed key rolls the transaction
\* back, and the handler reads the key again.
\* Mutant: without the unique constraint.
InsertSaleAnyway(t) ==
  /\ pc[t] = "insert"
  /\ Goto(t, "reference")
  /\ UNCHANGED <<locks, guesses>>
InsertSale(t) ==
  /\ pc[t] = "insert"
  /\ Rivals(t) = {}
  /\ UNCHANGED guesses
  /\ \/ /\ Recorded(cmd[t], sales) = {}
        /\ Goto(t, "reference")
        /\ UNCHANGED locks
     \/ /\ Recorded(cmd[t], sales) # {}
        /\ Goto(t, "reread")
        /\ Release(t)

\* The foreign key to the seller's membership, checked when the sale is inserted,
\* waits for a transaction that holds it FOR UPDATE.
Reference(t) ==
  /\ pc[t] = "reference"
  /\ holder[cmd[t].seller] \in {t, Nobody}
  /\ Goto(t, "debit")
  /\ UNCHANGED <<locks, guesses>>

\* The condition quantity >= line.quantity of the update does not hold.
\* Mutant: without the condition.
NeverShort(c, p) == FALSE
Short(c, p) == stock[CellOf(c, p)] < LineOf(c, p).quantity

\* The updates of the balances, on rows this transaction has locked, with the lines
\* and the movements; one line that falls short rolls everything back.
DebitLines(t) ==
  LET c == cmd[t] IN
      /\ pc[t] = "debit"
      /\ \/ /\ \E p \in Sold(c) : Short(c, p)
            /\ Finish(t, "insufficient", NoSale)
         \/ /\ \A p \in Sold(c) : ~Short(c, p)
            /\ written' = [written EXCEPT ![t] =
                 [p \in Products |->
                    IF p \in Sold(c) THEN stock[CellOf(c, p)] - LineOf(c, p).quantity ELSE 0]]
            /\ Goto(t, "commit")
            /\ UNCHANGED <<terms, shares, holder, asked, todo, owner, guesses>>

\* COMMIT.  The connection may be lost before the caller hears of it.
Commit(t) ==
  LET c == cmd[t]
      s == SaleOf(c, terms[t].tags, terms[t].rate)
      cells == {CellOf(c, p) : p \in Sold(c)}
  IN  /\ pc[t] = "commit"
      /\ rows' = rows \cup {x \in Cell : owner[x] = t}
      /\ stock' = [x \in Cell |-> IF x \in cells THEN written[t][x[1]] ELSE stock[x]]
      /\ issues' = [x \in Cell |->
           IF x \in cells
           THEN Append(issues[x], [key |-> c.key, quantity |-> LineOf(c, x[1]).quantity,
                                   after |-> written[t][x[1]]])
           ELSE issues[x]]
      /\ sales' = sales \cup {s}
      /\ credentials' = CredentialsAfter(c, terms[t].tags, terms[t].rate, credentials)
      /\ Tell(t, "created", s) \/ Tell(t, "unavailable", NoSale)
      /\ Release(t)
      /\ UNCHANGED <<catalog, rate, clock, cmd, guesses>>

\* The lookup after the unique constraint refused the insert.
Reread(t) == pc[t] = "reread" /\ Answered(t)

-------------------------------------------------------------------------------
(* Deadlocks and lost connections *)

\* The requests whose transactions the next statement of t waits for.
WaitsFor(t) ==
  LET c == cmd[t]
      m == c.approval.approver
      others(ts) == ts \ {t, Nobody}
      at(p) == CellOf(c, p)
  IN  CASE pc[t] = "approve" -> others({holder[m]} \cup SalesOf(m))
        [] pc[t] = "seed" ->
             others({owner[at(p)] : p \in {q \in Foremost(todo[t]) : at(q) \notin rows}})
        [] pc[t] = "lock" -> others({owner[at(p)] : p \in Foremost(todo[t])})
        [] pc[t] = "insert" -> Rivals(t)
        [] pc[t] = "reference" -> others({holder[c.seller]})
        [] OTHER -> {}

\* A transaction in the set ends after another of the set.
Deadlock(ts) == ts # {} /\ \A t \in ts : WaitsFor(t) \cap ts # {}

\* PostgreSQL ends one transaction of a deadlock; main.py answers 503.
\* Mutant: without the deadlock detector.
NoVictim(t) == FALSE
DeadlockVictim(t) ==
  /\ \E ts \in SUBSET Requests : t \in ts /\ Deadlock(ts)
  /\ Finish(t, "unavailable", NoSale)

\* The connection, the process or the server is lost before the commit.
Fail(t) ==
  /\ pc[t] # "done"
  /\ Finish(t, "unavailable", NoSale)

-------------------------------------------------------------------------------
(* The catalog, the policy, the PINs and the time *)

Unshared(e) == \A t \in Requests : e \notin shares[t]
Around == <<books, pc, locks, cmd, answer>>

\* create_*, update_product, update_warehouse: Inventory shows that their checks hold
\* until they write, so that each of them is one step.
UpdateCatalog(e) ==
  /\ Unshared(e)
  /\ \E st \in StatusAfter(e, status[e], stock) : status' = [status EXCEPT ![e] = st]
  /\ tags' \in TagsAfter(e, tags)
  /\ UNCHANGED <<rate, credentials, clock, Around, guesses>>

UpdatePolicy ==
  /\ Unshared(Org)
  /\ rate' \in Rates
  /\ UNCHANGED <<catalog, credentials, clock, Around, guesses>>

\* Its UPDATE waits for an approval, not for a foreign key.
SetPin(m) ==
  /\ holder[m] = Nobody
  /\ \E p \in Pins :
       credentials' = [credentials EXCEPT ![m] = [pin |-> p, failures |-> 0, until |-> 0]]
  /\ guesses' = [guesses EXCEPT ![m] = << >>]
  /\ UNCHANGED <<catalog, rate, clock, Around>>

Tick ==
  /\ clock < Horizon
  /\ clock' = clock + 1
  /\ UNCHANGED <<catalog, rate, credentials, Around, guesses>>

-------------------------------------------------------------------------------
Statement(t) ==
  \/ Lookup(t) \/ ReadPolicy(t) \/ ReadContext(t) \/ Approve(t) \/ CountMiss(t)
  \/ SeedRow(t) \/ LockRow(t) \/ InsertSale(t) \/ Reference(t) \/ DebitLines(t)
  \/ Commit(t) \/ Reread(t)

Next ==
  \/ \E t \in Requests : Statement(t) \/ DeadlockVictim(t) \/ Fail(t)
  \/ \E e \in Updated : UpdateCatalog(e)
  \/ UpdatePolicy
  \/ \E m \in Changing : SetPin(m)
  \/ Tick

Spec == Init /\ [][Next]_vars

\* A statement that can run is run, and the deadlock detector ends a deadlock.
Fairness == \A t \in Requests : WF_vars(Statement(t)) /\ WF_vars(DeadlockVictim(t))

FairSpec == Spec /\ Fairness

-------------------------------------------------------------------------------
(* Properties *)

\* The statements, locks and commits amount to the atomic sales of SaleLedger, whose
\* properties Sales inherits.
Ledger == INSTANCE SaleLedger
ImplementsSaleLedger == Ledger!Spec

IssueChain == Ledger!IssueChain
SoldOnce == Ledger!SoldOnce
SalesDurable == Ledger!SalesDurable

\* README.md: "Confirmed sale lines copy both values" and "Discounts beyond the
\* configured threshold require an administrator's user ID and PIN".  The prices, the
\* threshold and the approval were looked at in earlier statements, and still hold
\* when the sale commits.
SoldOnCurrentTerms ==
  [][\A s \in sales' \ sales :
       LET c == s.command IN
       /\ s.lines = LinesOf(c, tags)
       /\ \A e \in Context(c) : status[e] = "active"
       /\ PriceError(c, tags, rate) = "none"
       /\ Exceptional(c, tags, rate) =>
            /\ s.approver \in Admins
            /\ s.approver # c.seller =>
                 /\ credentials[s.approver].pin = c.approval.pin
                 /\ credentials[s.approver].until <= clock]_vars

\* A repeated sale never fails for want of the stock the first call has sold: the
\* unique index turns it into a replay before it debits.
RepeatsNotShort ==
  [][\A t \in Requests :
       answer'[t] # answer[t] /\ answer'[t].outcome = "insufficient"
         => Recorded(cmd[t], sales) = {}]_vars

\* README.md: "five failed attempts lock that PIN for 15 minutes".  After the first
\* PinLimit wrong PINs of an administrator, however many calls guess at once, each
\* further one is PinLock away from the one before.
GuessesBounded ==
  \A m \in Admins : \A i \in DOMAIN guesses[m] :
    i > PinLimit => guesses[m][i] >= guesses[m][i - 1] + PinLock

\* decisions/0015: PINs are "locked for 15 minutes after five consecutive failures": a
\* right PIN in between starts the count anew.  Lost connections aside.
LockedAfterConsecutiveFailures ==
  [][\A m \in Admins :
       /\ credentials'[m].until > credentials[m].until
       /\ \A t \in Requests : answer[t].outcome # "unavailable"
       => Len(guesses'[m]) >= PinLimit]_vars

\* No set of requests that have locked no approver waits for itself: balances are
\* locked in the order of their products, and a key is inserted after them.
NoDeadlock ==
  \A ts \in SUBSET Requests : (\A m \in Members : holder[m] \notin ts) => ~Deadlock(ts)

\* Every call returns: a sale that has locked its approver and waits for a balance,
\* and a sale of that approver which holds the balance, come to an end.
EverySaleAnswered == \A t \in Requests : <>(answer[t].outcome # "pending")
================================================================================
