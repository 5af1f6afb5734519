# The stock, sales and invitations of the DPG business application, in TLA+

A verification development of the backend under `app/`: FastAPI routers over use
cases and services that keep one organization's stock, sales, returns and members in
PostgreSQL, and of the forms of the web client that call them.  The routers run the
handlers in a thread pool and any number of server processes share the database, so the
program's concurrency is that of its SQL transactions: READ COMMITTED (the default, which
`app/database.py` leaves), row locks, unique indexes and foreign keys.  That is the level
of the models.

## Inventory of the system

| component | state | operations | how it meets the others |
|---|---|---|---|
| inventory movements and transfers (`modules/inventory/service.py`) | `stock_balances`, `stock_movements`, `stock_transfers` | `record_stock_movement`, `transfer_stock` | shares catalog rows, locks balances, one key per operation |
| products, warehouses (`modules/products`, `modules/warehouses`) | `products`, `warehouses` with an `active` flag | create, update, list, get | an update locks its row, sums the balances and deactivates |
| sales (`modules/sales/service.py`) | `sales`, `sale_lines` | `create_sale` | shares the policy and the catalog, locks an approver, then the balances of all lines |
| sale returns (`modules/sales/returns_service.py`) | `sale_returns`, `sale_return_lines` | `process_sale_return` (return and void) | locks its sale, credits balances line by line |
| receipts (`modules/sales/use_cases.py`) | none | `get_sale_receipt` | reads what returns and sales commit |
| listings (`list_*` of `modules/inventory`, `sales`, `products`, `warehouses`) | none; the client keeps the cursor | a page of movements, transfers, sales, products or warehouses | cursor pages over `(created_at, id)` of rows the others insert and rename |
| sales policy and approval PINs (`modules/sales/use_cases.py`) | a rate of the organization; hash, failures and lock time of a membership | `update_sales_policy`, `set_approval_pin` | read and counted by `create_sale` |
| invitations (`modules/invitations`) | `organization_invitations` | `create_invitation`, `accept_invitation` | create users and memberships |
| bootstrap command (`modules/organizations/use_cases.py`) | `organizations`, `users`, `memberships` | `bootstrap_organization` | competes with `accept_invitation` for an account |
| memberships, authorization, authentication | `memberships`, `users` | permission checks, tokens | come before every other operation |
| web client (`web/src`) | the forms and loading flags of its pages | enter, submit | makes a new idempotency key for each submit |

Hard behaviours: two requests for the same balance, sale or key; a retry while the
first call still runs, and after a lost answer; a deactivation between the check of
a movement and its write; transactions that lock the same rows in different orders;
a failure between the statements of an operation; answers put together from several
reads; amounts that are rounded when stored.  `PROJECT.json` lists them under
"hazards", each at its line, with the property that covers it.

What makes each component correct:

* movements and transfers: no update of a balance is lost, none goes negative, a
  key takes effect once, an answer can be relied on, an inactive product or
  warehouse holds no stock, every call returns;
* returns: never more back than sold, a void excludes everything else, a key takes
  effect once, what came back is in stock, refunds stay within rounding;
* receipts: what they show was and stays true, and they do not go back;
* sales: all lines or none, once per key, on the prices, the limit and the approval
  that hold when it commits; guesses of a PIN are limited however they overlap; a
  repeated sale is never refused for the stock it has itself sold;
* invitations: a membership comes from one invitation and one only, an account keeps
  its password and its owner, a new invitation supersedes the earlier ones;
* the bootstrap command: an organization is founded whole, with its own first member, or not;
* listings: each page is the next one as of some instant, and a walk through the pages
  misses no row that was there all along;
* web client: what the user enters once takes effect once (it may not: see the findings).

## Modules

```
StockTypes ---- StockLedger <~~ implements ~~ Inventory --- MCInventory
                 StockLedgerProofs             InventoryProofs

ReturnTypes --- ReturnLedger <~~ implements ~~ SaleReturns --- MCSaleReturns
                 |                              |
                 +- SaleReceipts <~~ and so ~~ SaleReturnsProofs
                     |  ReturnLedgerProofs
                     +- MCSaleReceipts

SaleTypes ----- SaleLedger <~~~~ implements ~~ Sales --- MCSales
                                               SalesProofs

ListingTypes -- Walks <~~~~~~~~~ implements ~~ Listings --- MCListings
                 WalksProofs                   ListingsProofs

Invitations --- MCInvitations                  Pages --- MCPages
 InvitationsProofs
```

`StockTypes`, `ReturnTypes` and `SaleTypes` hold the constants with their assumptions, the record
sets and the pure functions of the code: the rows an operation writes, whether a
command is valid, what it is worth, whether it wants approval.

`StockLedger`, `ReturnLedger` and `SaleLedger` are the abstract specifications: each operation
takes effect at one instant or is refused for a reason that holds at one.  The safety
properties are stated there.  `Walks` is one too: what a listing promises to a client that
walks through its pages.

`Inventory`, `SaleReturns`, `Sales` and `Invitations` are the code.  A request is a process whose `pc` is its
next SQL statement.  Its uncommitted writes are private (`written`) and reach the
tables in `Commit`; a rollback is `Finish`, which lets go of the locks and changes no
table.  What a statement waits for is a guard:

| in the code | in the models |
|---|---|
| `SELECT ... FOR SHARE` of a product or warehouse | `Share`: waits for the row's `latch`, adds the row to `shares` |
| `SELECT ... FOR UPDATE`, `UPDATE`, upsert of a balance | `Free`: waits while another request is the row's `owner` |
| the stub rows of `transfer_stock`, `ON CONFLICT DO NOTHING` | `SeedSource`, `SeedDestination`: wait only for a row that is uncommitted |
| `SELECT ... FOR UPDATE` of the sale | `LockSale`: waits for the sale's `holder` |
| unique index on the key | `KeyInFlight`, `Rivals`: an insert waits for an uncommitted row with its key, and fails if that commits |
| the second lookup in the handler of `IntegrityError` | `Reread` |
| foreign keys of a return's movement | `PostLine`: waits for the `latch` and takes a key share |
| `SELECT ... FOR SHARE` of the policy and the catalog in a sale | `Share` in `ReadPolicy`, `ReadContext`; `UpdatePolicy` and `UpdateCatalog` wait for it |
| `SELECT ... FOR UPDATE` of the approver's membership | `Mine` and `SalesOf` in `Approve` |
| foreign key of a sale to its seller's membership | `Reference` waits for the `holder`; `SalesOf` keeps the approver from being locked |
| the `UPDATE` of earlier invitations, `FOR UPDATE` of the accepted one | `Snapshot`, `Revoke`, `LockInvitation` |
| `users_email_key`, `memberships_pkey` | `InsertUser` (of `bootstrap_organization` too), `InsertMember` |
| update of a product or warehouse | `LockEntity`, `CheckStock`, `UpdateEntity`, `AbandonUpdate` on `latch` |
| deadlock detector, 503 | `DeadlockVictim` |
| lost connection, killed process | `Fail` before a commit; the second disjunct of `Commit` after it |

A `Commit` that answers "unavailable" is a client that never hears of what took
effect.  Its retry is another request with the same command.

`SaleReceipts` runs `get_sale_receipt` beside `ReturnLedger`: it takes no lock and
sees committed rows only, so the atomic ledger is all it can observe of `SaleReturns`
(that is what `ImplementsReturnLedger` says).  `Beside`, in `SaleReturnsProofs`, is the
composition itself: the reads of the receipts between any two statements of the returns.

`Sales` follows `create_sale` from its lookup to its commit.  What it reads under
share locks is kept in `terms` and used many statements later.  A wrong PIN commits
its own count (`CountMiss`); a right one resets the count in the transaction of the
sale, so `Commit` does it.  Three things of the surroundings are one step each:
an update of the catalog (`Inventory` shows that its check of the stock still holds
when it writes), an update of the policy and a change of a PIN (single statements).
`guesses` records, for the properties, when each wrong PIN was looked at.  Stock comes
from `Opening` only; what receipts and returns add is the subject of the other modules.

`Invitations` has no abstract counterpart: a creation revokes what its `UPDATE` saw
and not what is pending when it commits, so it takes effect at no single instant.  Its
properties relate invitations, accounts and memberships instead.  Tokens are the names
of their invitations, passwords the calls that chose them.  `bootstrap_organization` is a call
there as well: it competes with `accept_invitation` for the account of an email.

`Listings` has the five listings, each as the statements of its handler: the lookups of a
context, the lookup of the cursor under the filters of the listing, and the select of the
page.  Beside them transactions insert rows with the `created_at` of their beginning and commit
them later, or never; products and warehouses are renamed and deactivated.  `Walks` has a page
as one step: `Listings` implements it with `listed <- Selected`, the rows that the filters of
each walk select.  `steady` records, for the property, what has been selected all along.

`Pages` has the four forms of the web client that post with a key, the flags of their pages,
and calls that may be refused, lost, or answered late.  The service behind them is external: it
takes each key once, which is what the ledgers say of it.

A first answer of `process_sale_return` tells the amounts it computed, a replay those that were
stored (`ToldFirst`, `ToldAgain`): the answers to one key can differ, and `ReturnsDurable` bounds by
how much.  One thing that the models have in them is not checked: a receipt that was put together
from several reads may say that a sale is returned without the adjustment that returned it.

Abstractions.  One organization (several in `Invitations`), since every other statement is
filtered by it.  A fingerprint is what it hashes: `Digest` keeps the lines of a sale or of a return
as a set, since `_fingerprint` sorts them by product, and everything else but the key; the member who
processes a return is part of it.  That two digests hash alike is ignored.  So a repeat with its lines
in another order is replayed, and one by another member is a conflict.  A void has no lines of its
own (`void_sale` passes none), which `ReturnAssumption` says.
Quantities are natural numbers of ticks.  In `ReturnTypes` a price times a quantity
has more decimals than the column it is stored in, so `Scale` ticks make up the last
stored decimal and `Stored` rounds like NUMERIC(20, 6).  The upper limit of
NUMERIC(20, 6) is not modelled: the schemas bound each input to 20 digits, and an
overflow is an error of the database that rolls the transaction back, which is `Fail`.
Prices and costs are small
numbers and rates are parts of `Whole`; the clock counts minutes in `Sales` and hours
in `Invitations`.  A request starts after authentication, the permission check and the parsing of its
body.  Reads that a held lock keeps from changing are part of the statement that took
the lock (the reads of `CheckReturn`); reads that are not protected so are actions of
their own.

## Runs

| run | module and cfg | what it shows |
|---|---|---|
| inventory | `MCInventory` | three requests (receipts, issues, transfers both ways, shared keys, invalid ones), catalog updates and lost connections: types, `BalanceChain`, `ExactlyOnce`, `AnswersDurable`, `InactiveHoldsNoStock`, `RereadFindsEntry`, the refinement of `StockLedger`; `NoDeadlock`: requests whose balance rows exist never wait in a circle, since transfers lock in warehouse order; and `EveryRequestAnswered`, although first transfers in opposite directions can deadlock on the rows they insert and catalog updates need not end |
| inventory_duplicates | `MCInventoryDuplicates` | finding: a duplicate that overlaps its first call is refused instead of replayed |
| sale_returns | `MCSaleReturns` | three returns and voids of two sales, some repeated with their lines in another order or by another member: types, the six invariants of `ReturnLedger`, `RepeatsReplayed`, the refinement, and `EveryReturnAnswered`, deadlocks and catalog updates notwithstanding |
| sale_returns_inactive | `MCSaleReturnsInactive` | finding: a return restocks an inactive product |
| sale_receipts | `MCSaleReceipts` | two readers beside returns and voids: `ReceiptTrue`, `ReceiptsAdvance` |
| sales | `MCSales` | three sales of scarce stock with shared keys, crossed lines, approvals, every kind of price and refusal, beside price and policy changes: types, `IssueChain`, `SoldOnce`, `SalesDurable`, `RepeatsNotShort`, `SoldOnCurrentTerms`, the refinement of `SaleLedger`, and `NoDeadlock`: sales that nobody approves lock balances in product order and never wait in a circle |
| sales_pins | `MCSalesPins` | three approvals guess a PIN that is changed and locked meanwhile: `GuessesBounded`; a sale and a sale of its approver deadlock, and `EverySaleAnswered` holds |
| sales_lockout | `MCSalesLockout` | finding: a PIN is locked although its failures were not consecutive |
| invitations | `MCInvitations` | two calls accept the invitations of a newcomer, of an account, of an inactive one, as themselves or as somebody else, found an organization, or create invitations that revoke those of one address in any order: types, `JoinedByOneInvitation`, `AcceptedAsThemselves`, `EarlierOnesSuperseded`, `UsedUpOnce`, `AccountsKept`, `EveryCallReturns` |
| invitations_pending | `MCInvitationsPending` | finding: two creations at once leave two pending invitations |
| listings | `MCListings` | a client walks through each of the five listings while rows of all five are inserted, commit late and with equal times, and products and warehouses are renamed and deactivated, those the cursors name among them: the refinement of `Walks`, `NothingMissed` |
| web_pages | `MCPages` | finding: a second click, or a second try after a lost answer, sends a second key |

The runs that pass have between 22,000 (`listings`) and 370,000 (`sales`) distinct states.

Findings.  Besides the four differences from `decisions/`, `web_pages` shows a defect of the
client: `Button` (`web/src/ui.tsx:14`) spreads its properties after
`disabled={loading || props.disabled}`, so a page that passes `disabled` replaces the whole
expression, and Transfer, Confirm sale, Confirm return and Void sale stay enabled while
their call is running.

Bounds.  Two products, one or two warehouses, two sales and three requests: the
conflicts in this code are between two transactions on one row, one key or one sale,
and a third request adds the retry of one of them or a cycle of waits through two
others.  Each command set holds the cases that differ for the code: fitting and not
fitting together, sharing a key or not, equal or opposite order, valid or refused.
`Scale = 2` makes half a unit the smallest quantity and lets every amount with an odd
number of ticks be rounded.  Quantities up to two tell a lost update, a double one and
a negative balance apart.  `Scripts` gives the requests of one behaviour their commands, each
combination a conflict of its own, and `Edited` the catalog rows that are updated meanwhile; the
liveness properties are checked in the same runs as the safety properties, so with the same three
requests.  Nothing is capped by a
state constraint: a request ends, and catalog updates cycle through finitely many
states.

`Sales` has two products with stock, one without a balance row, since the seeding of a missing
row is a statement of its own, and one that does not exist; prices are 10, 9 and 8 of 10 around
a limit of one tenth. `PinLimit = 2` stands for five and `PinLock = 1` minute for fifteen: of
three wrong guesses the third has to wait. `Horizon` ends the clock: one minute lets a lock run
out, and one hour an invitation of one hour expire while it is being accepted; the main run of
`Sales`, whose PIN is never wrong and never changed, keeps the clock still: that the PIN of an
approval still holds at the commit, a part of `SoldOnCurrentTerms`, is shown by the theorem
`OnCurrentTerms` only. Two invitations of one address that are pending and two more to come are
what it takes for creations to revoke the same rows in opposite orders; that two are pending is
a state that `invitations_pending` reaches. The commands of the two calls of `accept_invitation`
are given in pairs, each a conflict of its own, instead of all combinations.

`Listings` has one walker, since walks only read and do not meet. Two or three entries are
inserted into each history, and `Horizon = 2` lets their transactions begin before, at and after
one another's time and commit in any order; one product, or one warehouse, with the code that is
searched for, is inserted between the two that are there. The first of them and the inserted one
are renamed, deactivated and activated again (`Edited`: rows 1 and 2, 11 and 12). Pages of one
row make walks of several pages, so that the row a cursor names, 1, 2, 11 or 12, may have left
the listing when it is looked up, and may leave it between that lookup and the page. In `Pages`
`MaxKeys = 3` is one key more than the two operations need.

`CHECK_DEADLOCK FALSE` is set in the runs whose catalog is not edited for ever: when
all requests are answered the system is at rest.  That no request is stuck for want
of a lock is what `NoDeadlock` and the liveness properties check.

Fairness (`FairSpec`).  The next statement of a request is run if it can run (weak fairness): the
thread of the request does nothing else.  In `Inventory` and `SaleReturns` the statements that
share a catalog row compete with an endless stream of catalog updates; PostgreSQL queues the
waiters of a row, so such a statement is run if it can run again and again (strong fairness, of
the three `FOR SHARE` selects and of the foreign key checks of `PostLine`).  `Sales` and
`Invitations` need weak fairness only.  An update transaction that holds a row ends, and the
deadlock detector breaks a deadlock.  Nothing is assumed of `Fail`, of clients or of new updates,
nor of `Listings` and `Pages`, of which no liveness is claimed.

## Theorems

The theorems hold for every set of products, warehouses, commands, requests and members, from
the named assumptions of the modules: the constants have the right types (`CatalogAssumption`,
`CommandAssumption`, `ActorAssumption`, `SaleAssumption`, ...); the opening stock lies in active
contexts (`OpeningAssumption`); a sale has some line (`sales/schemas.py`), each product once
(`uq_sale_lines_organization_sale_product`), and no line of quantity zero
(`ck_sale_lines_positive_quantity`); the products of the returns are finitely many; there are finitely many warehouses
(`OrderAssumption` of `Inventory`) and products (`CatalogAssumption` of `Sales`), in the form
that any of them have a last one.

* `StockLedgerProofs`: the atomic ledger has `LedgerTypeOK`, `BalanceChain`,
  `ExactlyOnce`, `AnswersDurable` and `InactiveHoldsNoStock`.  Each is inductive
  together with the types, so each is proved from its own step lemma.
* `InventoryProofs`: `Inventory` has `TypeOK` and `RereadFindsEntry`, implements
  `StockLedger`, and so has its properties; and it has `NoDeadlock`.

The inductive invariant `IInv` of `Inventory` says what the locks buy.  For a request
(`RequestInv`): past the checks its products and warehouses are active and shared by
it; past its row locks it owns its cells; past the update what it has written is what
`BalancesAfter` computes from the committed balances, which nobody else can have
changed; past the insert its key is free and nobody else has it in flight.  For a
catalog row (`CatalogInv`): a shared row is not latched, and between the stock check
and the update of a deactivation its cells stay empty, since whoever wants to credit
them must share the row first.  With it the refinement is one step per statement: all
but `Commit` and the refusals are stutters of the ledger.  `StatementType` needs only
`TypeOK` and the part of `RequestInv` that concerns the moving request; the lemma
`LocalStep` does the other requests once for all steps that do not commit.

`NoDeadlock` needs to know, of each balance row, how far its owner has come (`RowInv`): a row that
is committed is owned only by who has locked it, and a transfer that has locked one row only has
locked its first.  So in a supposed deadlock everybody waits for a transfer that waits for its
second row (`LockersWait`); the one among these whose second warehouse is the last waits for one
whose first warehouse that is, and whose second is later still.

* `ReturnLedgerProofs`: the atomic ledger of returns has `LedgerTypeOK`,
  `NeverOverReturned`, `VoidStandsAlone`, `CreditChain`, `ReturnedOnce`,
  `ReturnsDurable` and `RefundsWithinRounding`; and `SaleReceipts`, which reads it, has
  `ReceiptTrue` and `ReceiptsAdvance`.
* `SaleReturnsProofs`: `SaleReturns` has `TypeOK` and `RepeatsReplayed`, implements
  `ReturnLedger`, and so has its properties.  Receipts beside its statements (`Beside`)
  are receipts of `SaleReceipts`, and have theirs.

`VoidStandsAlone` is not inductive: a void gives back all that was sold only because
nothing of a sale without adjustments is returned, which `VoidInv` adds.  Neither is
`RefundsWithinRounding`.  `AccountInv` keeps the books it needs: what the adjustments of a
sale are worth is, product by product, the price of what is returned.  With
`NeverOverReturned` that is at most what the sale sold its goods for (`WorthByProduct`,
`SoldByProduct`), and each `Stored` adds half a unit at most (`StoredNear`).  From the same
lemma `ReturnsDurable` has its bound on the answers to one key.  `AnswerInv` is the inductive part:
whoever was told created has its own command recorded, and whoever was told replayed one of its key
and digest; `ReturnedOnce` makes them the same for all callers of a key, and their refunds are
alike since the resolution is part of the digest.

`ReceiptInv` says what a call of `get_sale_receipt` knows at each of its steps and what its
status says of the sale from then on (`TellsTrue`).  It holds because adjustments are never taken
back, returned quantities only grow and never beyond what was sold, a void leaves nothing for a
later return (`ReadsStayTrue`), and because each adjustment gives something back (`GaveBack`), so
that a quantity of zero means that none had been made when the list was read before it.
That there is no line of quantity zero is needed for this: a void of such a sale would be listed
under CONFIRMED.

The sums in these properties are folds over finite sets in the order of CHOOSE.  The section
"Sums" of `ReturnLedgerProofs` proves of them what adding up means: a sum takes one element out
(`SumTakesOut`), is monotone (`SumLeq`), splits (`SumPlus`), and is the same under renaming of
its index (`SumMapped`).  The library's induction over finite sets takes an operator as
a parameter, which the provers cannot instantiate; instead a set of parts that holds the empty
one and can always grow holds the whole (`Grows`), from the library's theorem that a set of
finite sets has a smallest one.  That a sum exists at all (`SumsExist`) is proved in the same way:
the tables that assign each part of a set its sum are unique and extend one another.

`IInv` of `SaleReturns` has the same shape: a request that has locked its sale holds
it (so what `CheckReturn` found stays true until the commit); one that has inserted its
row is alone with its key; and each balance it has credited is locked by it and is what
the committed balance becomes (`CreditsHeld`), for as many lines as it has done.  That
last part is what makes a commit, many statements after the first credit, one
adjustment of the ledger.

* `SalesProofs`: `Sales` has `TypeOK`, `GuessesBounded`, `RepeatsNotShort`, `SoldOnCurrentTerms` and
  `NoDeadlock`, implements `SaleLedger`, and has its `IssueChain`, `SoldOnce` and `SalesDurable`.

Its `IInv` says why what `create_sale` has read many statements before its commit still holds:
the policy and the catalog rows are shared, so nobody has changed them; the approver's membership
is held, so the PIN is still the one that was given and no other call has counted a guess since;
the balance rows are seeded and then locked in the order of the products, and those that are
locked are still what the debits were computed from; once the sale is inserted its key is its own.
`GuessesBounded` rests on the count in the row never falling behind the guesses that were made while
it was not locked.  For `NoDeadlock`, a supposed circle of sales that lock balances has one whose next
product is the last of all their next products, and whoever it waits for has gone past that product
(`RowsWaited`, `NoCircle`).

* `WalksProofs`: `Walks` has `NothingMissed`.  The invariant adds that the rows that are watched are
  listed, so that they keep their place, and that a walk not begun stands at its start.
* `ListingsProofs`: `Listings` implements `Walks`, and so has `NothingMissed`.  Its `IInv` says that the
  position the cursor lookup has read is still that of the row of the cursor (`created_at` never
  changes), that products and warehouses once found stay, and that rows shown are committed.
* `InvitationsProofs`: `Invitations` has `TypeOK` and all its safety properties.  Its `IInv`: an
  invitation that a call has locked stays pending; what a creation has seen and not yet revoked
  is what it still has to supersede; a call that accepts holds its invitation to the end; an account
  that is inserted and not committed is the only one of its email; whoever is about to commit a
  membership is alone with it.

Only model-checked: liveness (`EveryRequestAnswered`, `EveryReturnAnswered`, `EverySaleAnswered`,
`EveryCallReturns`), which needs ENABLED and fairness.  Every other property of a passing run is a
theorem for every value of the constants.

## Plan

Done: movements and transfers, returns and receipts, sales with their approvals,
invitations and the bootstrap command, the listings, the forms of the web client; proofs of
every safety property of the services.  Left, in this order:

1. `LockOrder`: movements, transfers, sales and returns together, as sequences of row
   locks: which pairs can deadlock.  Each of them is shown to end its own deadlocks; returns take
   balances in the order of the command, so they can deadlock with all the others.
2. A client that repeats a call with its first key, over `StockLedger` and `SaleLedger`: what
   `Pages` would promise if the key were made when the form is filled in.
3. The answers: a receipt may say returned without the return that
   did it (`modules/sales/use_cases.py:389`).  The model has these states; no property names
   them.  And an invitation is judged by the time at which the call began
   (`modules/invitations/use_cases.py:108`), whatever it waited for.

## Not modelled

Permissions, password hashing and tokens: a table of permissions by role, cryptography, and reads
of one row; they change no state, and the models begin after them.  The selects of one row
(`get_product`, `get_stock_position`, ...), HTTP parsing and the envelopes of errors: no state, no
concurrency.  The migrations run once, before the program.  What the pages of the web client show
and their other forms, and the text of names, reasons and references.
