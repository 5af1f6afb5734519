---------------------------- MODULE InventoryProofs ----------------------------
(***************************************************************************)
(* Inventory keeps its types and implements StockLedger, for every catalog, *)
(* set of commands and number of concurrent requests.                      *)
(*                                                                         *)
(* The inductive invariant says what the row locks buy: between the checks *)
(* of a request and its commit the catalog rows it read stay active, the   *)
(* balances it wrote over stay what they were, and its key stays free.     *)
(***************************************************************************)
EXTENDS Inventory, TLAPS

\* The cells, context and key of a command the clients send are of the catalog.
LEMMA CommandParts ==
  ASSUME NEW c \in Commands
  PROVE  /\ Source(c) \in Cell /\ Destination(c) \in Cell
         /\ Context(c) \subseteq Entities
         /\ OpId(c) \in OpIds
         /\ c.quantity \in Nat
         /\ c.kind \in {"RECEIPT", "ISSUE", "TRANSFER"}
         /\ c.kind # "TRANSFER" => Source(c) = Destination(c)
  BY CommandAssumption DEF Command, Source, Destination, Cell, Context, Entities, OpId, OpIds

\* An update that respects WHERE quantity >= q returns natural numbers.
LEMMA BalancesAfterType ==
  ASSUME NEW c \in Commands, NEW b \in [Cell -> Nat],
         Debits(c) => b[Source(c)] >= c.quantity
  PROVE  BalancesAfter(c, b) \in Balances
  BY CommandParts DEF BalancesAfter, Balances, Debits, Credits

LEMMA WrittenType ==
  ASSUME NEW c \in Commands, NEW b \in [Cell -> Nat], NEW bal \in Balances
  PROVE  Written(c, bal, b) \in [Cell -> Nat]
  BY CommandParts DEF Written, Balances

LEMMA RowType ==
  ASSUME NEW c \in Commands, NEW type \in {"RECEIPT", "ISSUE"}, NEW n \in Nat
  PROVE  Row(c, type, n) \in Posting
  BY CommandParts DEF Row, Posting

LEMMA PostedType ==
  ASSUME NEW c \in Commands, NEW h \in [Cell -> Seq(Posting)], NEW bal \in Balances
  PROVE  Posted(c, bal, h) \in [Cell -> Seq(Posting)]
  <1>1. bal.source \in Nat /\ bal.destination \in Nat
    BY DEF Balances
  <1>2. Row(c, "ISSUE", bal.source) \in Posting /\ Row(c, "RECEIPT", bal.destination) \in Posting
    BY <1>1, RowType
  <1>3. ASSUME NEW x \in Cell, NEW r \in Posting
        PROVE  Append(h[x], r) \in Seq(Posting)
    OBVIOUS
  <1> QED
    BY <1>2, <1>3 DEF Posted

\* The steps of a request whose context has been found active.
Working == {"upsert", "debit", "seed_source", "seed_destination", "lock_first",
            "lock_second", "move", "insert", "commit"}
Transferring == {"seed_source", "seed_destination", "lock_first", "lock_second", "move"}

\* What holds of a request wherever it is.
RequestInv(t) ==
  LET c == cmd[t] IN
  /\ pc[t] # "done" => answer[t].outcome = "pending"
  /\ pc[t] \notin {"lookup", "done"} => Valid(c)
  /\ shares[t] \subseteq Context(c)
  /\ pc[t] \in Working => \A e \in Context(c) : e \in shares[t] /\ status[e] = "active"
  /\ pc[t] = "upsert" => c.kind = "RECEIPT"
  /\ pc[t] = "debit" => c.kind = "ISSUE"
  /\ pc[t] \in Transferring => c.kind = "TRANSFER"
  /\ pc[t] = "lock_second" => owner[First(c)] = t
  /\ pc[t] \in {"move", "insert", "commit"} =>
       owner[Source(c)] = t /\ owner[Destination(c)] = t
  /\ pc[t] \in {"insert", "commit"} =>
       /\ written[t] = BalancesAfter(c, balance)
       /\ Debits(c) => balance[Source(c)] >= c.quantity
  /\ pc[t] = "commit" => Recorded(c, entries) = {} /\ ~KeyInFlight(t)
  /\ pc[t] = "reread" => Recorded(c, entries) # {}

\* What holds of a catalog row that an update transaction or a request has locked.
CatalogInv ==
  /\ \A t \in Requests : \A e \in shares[t] : latch[e] = "free" /\ status[e] # "absent"
  /\ \A e \in Entities :
       /\ latch[e] # "free" => status[e] # "absent"
       /\ latch[e] \in {"deactivating", "clear"} => status[e] = "active"
       /\ latch[e] = "clear" => \A x \in CellsOf(e) : balance[x] = 0

IInv ==
  /\ TypeOK
  /\ \A t \in Requests : RequestInv(t)
  /\ CatalogInv

-------------------------------------------------------------------------------
(* Types *)

LEMMA CommandOf ==
  ASSUME TypeOK, NEW t \in Requests
  PROVE  /\ cmd[t] \in Commands
         /\ Source(cmd[t]) \in Cell /\ Destination(cmd[t]) \in Cell
         /\ First(cmd[t]) \in Cell /\ Second(cmd[t]) \in Cell
         /\ Context(cmd[t]) \subseteq Entities
  BY CommandParts DEF TypeOK, First, Second

LEMMA FinishType ==
  ASSUME TypeOK, NEW t \in Requests, NEW o \in Outcomes, NEW bal \in Balances,
         Finish(t, o, bal)
  PROVE  TypeOK'
  BY DEF TypeOK, Finish, Tell, Release, committed, Answer, Steps, NoBalances, Balances

\* An entry that is read back has the balances of its operation.
LEMMA RecordedType ==
  ASSUME TypeOK, NEW t \in Requests, NEW e \in Recorded(cmd[t], entries)
  PROVE  e \in entries /\ e.command \in Commands /\ e.balances \in Balances
         /\ e = [command |-> e.command, balances |-> e.balances]
  BY DEF TypeOK, Recorded, Entry

LEMMA GotoType ==
  ASSUME TypeOK, NEW t \in Requests, NEW next \in Steps, Goto(t, next),
         shares' \in [Requests -> SUBSET Entities],
         owner' \in [Cell -> Requests \cup {Nobody}],
         written' \in [Requests -> Balances]
  PROVE  TypeOK'
  BY DEF TypeOK, Goto, committed

LEMMA TakeType ==
  ASSUME TypeOK, NEW t \in Requests, NEW x \in Cell, Take(t, x)
  PROVE  owner' \in [Cell -> Requests \cup {Nobody}]
  BY DEF TypeOK, Take

LEMMA ShareType ==
  ASSUME TypeOK, NEW t \in Requests, NEW e \in Entities, Share(t, e)
  PROVE  shares' \in [Requests -> SUBSET Entities]
  BY DEF TypeOK, Share, Found

\* The updates of a request return natural numbers: a debit has found enough.
LEMMA WriteType ==
  ASSUME TypeOK, NEW t \in Requests, Debits(cmd[t]) => ~Short(cmd[t]),
         written' = [written EXCEPT ![t] = BalancesAfter(cmd[t], balance)]
  PROVE  written' \in [Requests -> Balances]
  <1>1. cmd[t] \in Commands /\ balance \in [Cell -> Nat]
    BY DEF TypeOK
  <1>2. Source(cmd[t]) \in Cell /\ cmd[t].quantity \in Nat
    BY <1>1, CommandParts
  <1>3. Debits(cmd[t]) => balance[Source(cmd[t])] >= cmd[t].quantity
    BY <1>1, <1>2 DEF Short
  <1>4. BalancesAfter(cmd[t], balance) \in Balances
    BY <1>1, <1>3, BalancesAfterType
  <1> QED
    BY <1>4 DEF TypeOK

LEMMA StatementType ==
  ASSUME TypeOK, NEW t \in Requests, RequestInv(t),
         Statement(t) \/ DeadlockVictim(t) \/ Fail(t)
  PROVE  TypeOK'
  <1> DEFINE c == cmd[t]
  <1>0. /\ c \in Commands
        /\ Source(c) \in Cell /\ Destination(c) \in Cell
        /\ First(c) \in Cell /\ Second(c) \in Cell
        /\ c.product \in Entities /\ First(c)[2] \in Entities /\ Second(c)[2] \in Entities
        /\ c.kind \in {"RECEIPT", "ISSUE", "TRANSFER"}
    <2>1. Context(c) \subseteq Entities
      BY CommandOf
    <2> QED
      BY <2>1, CommandOf, CommandParts DEF Context, First, Second, Source, Destination
  <1>1. NoBalances \in Balances
    BY DEF NoBalances, Balances
  <1>2. /\ shares \in [Requests -> SUBSET Entities]
        /\ owner \in [Cell -> Requests \cup {Nobody}]
        /\ written \in [Requests -> Balances]
    BY DEF TypeOK
  <1>3. ASSUME NEW o \in Outcomes, Finish(t, o, NoBalances)
        PROVE  TypeOK'
    BY <1>1, <1>3, FinishType
  <1>4. ASSUME NEW e \in Recorded(c, entries), Finish(t, "replayed", e.balances)
        PROVE  TypeOK'
    BY <1>4, FinishType, RecordedType DEF Outcomes
  <1>5. CASE Lookup(t)
    BY <1>2, <1>3, <1>4, <1>5, GotoType DEF Lookup, Outcomes, Steps
  <1>6. CASE ShareProduct(t)
    BY <1>0, <1>2, <1>6, GotoType, ShareType DEF ShareProduct, Steps
  <1>7. CASE ShareFirstWarehouse(t)
    BY <1>0, <1>2, <1>7, GotoType, ShareType DEF ShareFirstWarehouse, Steps
  <1>8. CASE ShareWarehouse(t)
    BY <1>0, <1>2, <1>3, <1>8, GotoType, ShareType DEF ShareWarehouse, Steps, Outcomes
  <1>9. CASE UpsertReceipt(t)
    <2>1. ~Debits(c)
      BY <1>9 DEF UpsertReceipt, RequestInv, Debits
    <2> QED
      BY <1>0, <1>2, <1>9, <2>1, GotoType, TakeType, WriteType DEF UpsertReceipt, Steps
  <1>10. CASE DebitIssue(t)
    BY <1>0, <1>2, <1>3, <1>10, GotoType, TakeType, WriteType DEF DebitIssue, Steps, Outcomes
  <1>11. CASE SeedSource(t) \/ SeedDestination(t)
    BY <1>0, <1>2, <1>11, GotoType, TakeType DEF SeedSource, SeedDestination, SeedRow, Steps
  <1>12. CASE LockFirst(t) \/ LockSecond(t)
    BY <1>0, <1>2, <1>12, GotoType, TakeType DEF LockFirst, LockSecond, LockRow, Steps
  <1>13. CASE MoveStock(t)
    BY <1>0, <1>2, <1>3, <1>13, GotoType, WriteType DEF MoveStock, Steps, Outcomes
  <1>14. CASE InsertRow(t)
    <2>1. Release(t) => /\ shares' \in [Requests -> SUBSET Entities]
                        /\ owner' \in [Cell -> Requests \cup {Nobody}]
                        /\ written' \in [Requests -> Balances]
      BY <1>1, <1>2 DEF Release
    <2> QED
      BY <1>2, <1>14, <2>1, GotoType DEF InsertRow, Steps
  <1>15. CASE Commit(t)
    <2>1. /\ written[t] \in Balances
          /\ balance \in [Cell -> Nat] /\ history \in [Cell -> Seq(Posting)]
      BY DEF TypeOK
    <2>2. balance' \in [Cell -> Nat] /\ history' \in [Cell -> Seq(Posting)]
      BY <1>0, <1>15, <2>1, WrittenType, PostedType DEF Commit
    <2>3. entries' \subseteq Entry
      BY <1>0, <1>15, <2>1 DEF Commit, TypeOK, Entry
    <2>4. rows' \subseteq Cell
      BY <1>15 DEF Commit, TypeOK
    <2>5. pc' \in [Requests -> Steps] /\ answer' \in [Requests -> Answer]
      <3>1. PICK o \in Outcomes, bal \in Balances : Tell(t, o, bal)
        BY <1>1, <1>15, <2>1 DEF Commit, Outcomes
      <3>2. [outcome |-> o, balances |-> bal] \in Answer /\ "done" \in Steps
        BY DEF Answer, Steps
      <3>3. pc \in [Requests -> Steps] /\ answer \in [Requests -> Answer]
        BY DEF TypeOK
      <3> QED
        BY <3>1, <3>2, <3>3 DEF Tell
    <2>6. /\ shares' \in [Requests -> SUBSET Entities]
          /\ owner' \in [Cell -> Requests \cup {Nobody}]
          /\ written' \in [Requests -> Balances]
      BY <1>1, <1>2, <1>15 DEF Commit, Release
    <2> QED
      BY <1>15, <2>2, <2>3, <2>4, <2>5, <2>6 DEF Commit, TypeOK
  <1>16. CASE Reread(t)
    BY <1>3, <1>4, <1>16 DEF Reread, Outcomes
  <1>17. CASE DeadlockVictim(t) \/ Fail(t)
    BY <1>3, <1>17 DEF DeadlockVictim, Fail, Outcomes
  <1> QED
    BY <1>5, <1>6, <1>7, <1>8, <1>9, <1>10, <1>11, <1>12, <1>13, <1>14, <1>15, <1>16, <1>17
    DEF Statement

LEMMA CatalogType ==
  ASSUME TypeOK, NEW e \in Entities, CatalogNext(e)
  PROVE  TypeOK'
  <1>1. PICK st \in {"absent", "active", "inactive"}, l \in Latches : CatalogStep(e, st, l)
    <2>1. status[e] \in {"absent", "active", "inactive"}
      BY DEF TypeOK
    <2> QED
      BY <2>1 DEF CatalogNext, CreateEntity, LockEntity, CheckStock, UpdateEntity,
                  AbandonUpdate, Latches
  <1>2. /\ status' \in [Entities -> {"absent", "active", "inactive"}]
        /\ latch' \in [Entities -> Latches]
    BY <1>1 DEF TypeOK, CatalogStep
  <1> QED
    BY <1>1, <1>2 DEF TypeOK, CatalogStep

-------------------------------------------------------------------------------
(* The inductive invariant *)

\* What a step of request t that does not commit leaves alone: what is committed,
\* and all that belongs to another request.
Local(t) ==
  /\ UNCHANGED <<committed, latch, cmd>>
  /\ \A u \in Requests \ {t} :
       /\ pc'[u] = pc[u] /\ answer'[u] = answer[u]
       /\ shares'[u] = shares[u] /\ written'[u] = written[u]
       /\ \A x \in Cell : owner[x] = u => owner'[x] = u

\* A key that is in flight or committed for t is so for the others.
LEMMA LocalStep ==
  ASSUME IInv, TypeOK', NEW t \in Requests, Local(t), RequestInv(t)',
         pc'[t] = "commit" => pc[t] = "commit" \/ ~KeyInFlight(t),
         \A e \in shares'[t] : latch[e] = "free" /\ status[e] # "absent"
  PROVE  IInv'
  <1>1. ASSUME NEW u \in Requests, u # t
        PROVE  RequestInv(u)'
    <2>1. /\ RequestInv(u)
          /\ pc'[u] = pc[u] /\ answer'[u] = answer[u] /\ cmd'[u] = cmd[u]
          /\ shares'[u] = shares[u] /\ written'[u] = written[u]
          /\ \A x \in Cell : owner[x] = u => owner'[x] = u
          /\ status' = status /\ balance' = balance /\ entries' = entries
      BY <1>1 DEF IInv, Local, committed
    <2>2. pc[u] = "commit" => ~KeyInFlight(u)'
      <3> SUFFICES ASSUME pc[u] = "commit", NEW v \in Requests \ {u},
                          pc'[v] = "commit", OpId(cmd[v]) = OpId(cmd[u])
                   PROVE  FALSE
        BY DEF KeyInFlight, Local
      <3>1. CASE pc[v] = "commit"
        BY <2>1, <3>1 DEF RequestInv, KeyInFlight
      <3>2. CASE pc[v] # "commit"
        BY <3>2, <1>1 DEF Local, KeyInFlight
      <3> QED
        BY <3>1, <3>2
    <2>3. /\ First(cmd[u]) \in Cell /\ Source(cmd[u]) \in Cell /\ Destination(cmd[u]) \in Cell
      BY CommandOf DEF IInv
    <2> QED
      BY <2>1, <2>2, <2>3 DEF RequestInv
  <1>2. CatalogInv'
    BY DEF IInv, CatalogInv, Local, committed
  <1> QED
    BY <1>1, <1>2 DEF IInv

LEMMA FinishInv ==
  ASSUME IInv, NEW t \in Requests, NEW o \in Outcomes, NEW bal \in Balances,
         Finish(t, o, bal)
  PROVE  IInv'
  <1>1. TypeOK'
    BY FinishType DEF IInv
  <1>2. Local(t)
    BY DEF Local, Finish, Tell, Release, IInv, TypeOK
  <1>3. pc'[t] = "done" /\ shares'[t] = {}
    BY DEF Finish, Tell, Release, IInv, TypeOK
  <1>4. RequestInv(t)'
    BY <1>3 DEF RequestInv, Working, Transferring
  <1> QED
    BY <1>1, <1>2, <1>3, <1>4, LocalStep

\* A row is taken from nobody else, so every owner keeps what it owns.
LEMMA TakeKeeps ==
  ASSUME TypeOK, NEW t \in Requests, NEW x \in Cell, Free(t, x), Take(t, x)
  PROVE  /\ owner'[x] = t
         /\ \A u \in Requests, y \in Cell : owner[y] = u => owner'[y] = u
  BY ActorAssumption DEF TypeOK, Free, Take

\* A request that goes on keeps to itself.
LEMMA GotoLocal ==
  ASSUME TypeOK, NEW t \in Requests, NEW next \in Steps, Goto(t, next),
         \A u \in Requests \ {t} : shares'[u] = shares[u] /\ written'[u] = written[u],
         \A u \in Requests, y \in Cell : owner[y] = u => owner'[y] = u
  PROVE  /\ Local(t)
         /\ pc'[t] = next /\ answer'[t] = answer[t] /\ cmd'[t] = cmd[t]
         /\ status' = status /\ balance' = balance /\ entries' = entries /\ latch' = latch
  BY DEF TypeOK, Goto, Local, committed

\* SELECT ... FOR SHARE adds at most a row that no update holds.
LEMMA ShareKeeps ==
  ASSUME TypeOK, NEW t \in Requests, NEW e \in Entities, Share(t, e)
  PROVE  /\ shares'[t] = shares[t] \cup Found(e)
         /\ \A u \in Requests \ {t} : shares'[u] = shares[u]
         /\ \A f \in Found(e) : f = e /\ latch[f] = "free" /\ status[f] # "absent"
  BY DEF TypeOK, Share, Found

LEMMA ShareInv ==
  ASSUME IInv, NEW t \in Requests,
         ShareProduct(t) \/ ShareFirstWarehouse(t)
  PROVE  IInv'
  <1> DEFINE c == cmd[t]
  <1>0. /\ TypeOK /\ RequestInv(t)
        /\ TypeOK'
    BY StatementType DEF IInv, Statement
  <1>1. PICK e \in Context(c), next \in {"first_warehouse", "warehouse"} :
          /\ pc[t] \in {"product", "first_warehouse"}
          /\ Share(t, e)
          /\ Goto(t, next)
          /\ UNCHANGED <<owner, written>>
    BY DEF ShareProduct, ShareFirstWarehouse, First, Source, Destination, Context
  <1>2. e \in Entities
    BY <1>0, <1>1, CommandOf
  <1>3. /\ Local(t)
        /\ pc'[t] = next /\ answer'[t] = answer[t] /\ cmd'[t] = cmd[t]
        /\ latch' = latch /\ status' = status
    BY <1>0, <1>1, <1>2, ShareKeeps, GotoLocal DEF Steps
  <1>4. RequestInv(t)'
    BY <1>0, <1>1, <1>2, <1>3, ShareKeeps DEF RequestInv, Working, Transferring, Context
  <1>5. \A f \in shares'[t] : latch[f] = "free" /\ status[f] # "absent"
    BY <1>0, <1>1, <1>2, ShareKeeps DEF IInv, CatalogInv
  <1> QED
    BY <1>0, <1>1, <1>3, <1>4, <1>5, LocalStep

LEMMA ShareWarehouseInv ==
  ASSUME IInv, NEW t \in Requests, ShareWarehouse(t)
  PROVE  IInv'
  <1> DEFINE c == cmd[t]
             w == Second(c)[2]
             found == shares[t] \cup Found(w)
             active == {e \in found : status[e] = "active"}
             next == CASE c.kind = "RECEIPT"  -> "upsert"
                       [] c.kind = "ISSUE"    -> "debit"
                       [] c.kind = "TRANSFER" -> "seed_source"
  <1>0. /\ TypeOK /\ RequestInv(t)
        /\ TypeOK'
    BY StatementType DEF IInv, Statement
  <1>1. w \in Context(c) /\ w \in Entities
    BY <1>0, CommandOf DEF Second, Source, Destination, Context
  <1>2. c.kind \in {"RECEIPT", "ISSUE", "TRANSFER"}
    BY <1>0, CommandOf, CommandParts
  <1>3. CASE \E o \in Outcomes : Finish(t, o, NoBalances)
    BY <1>3, FinishInv DEF NoBalances, Balances
  <1>4. CASE /\ pc[t] = "warehouse"
             /\ Context(c) \subseteq active
             /\ Share(t, w)
             /\ Goto(t, next)
             /\ UNCHANGED <<owner, written>>
    <2>1. next \in {"upsert", "debit", "seed_source"}
      BY <1>2
    <2>5. /\ next = "upsert" => c.kind = "RECEIPT"
          /\ next = "debit" => c.kind = "ISSUE"
          /\ next = "seed_source" => c.kind = "TRANSFER"
      BY <1>2
    <2> HIDE DEF next
    <2>9. /\ next \in Steps
          /\ \A u \in Requests \ {t} : shares'[u] = shares[u] /\ written'[u] = written[u]
          /\ \A u \in Requests, y \in Cell : owner[y] = u => owner'[y] = u
      BY <1>0, <1>1, <1>4, <2>1, ShareKeeps DEF Steps
    <2>2. /\ Local(t)
          /\ pc'[t] = next /\ answer'[t] = answer[t] /\ cmd'[t] = cmd[t]
          /\ latch' = latch /\ status' = status
      BY <1>0, <1>4, <2>9, GotoLocal
    <2>3. shares'[t] = found /\ \A f \in found : f \in Context(c) /\ latch[f] = "free" /\ status[f] # "absent"
      BY <1>0, <1>1, <1>4, ShareKeeps DEF IInv, CatalogInv, RequestInv
    <2>4. \A e \in Context(c) : e \in shares'[t] /\ status'[e] = "active"
      BY <1>4, <2>2, <2>3
    <2> HIDE DEF found
    <2>6. answer'[t].outcome = "pending" /\ Valid(c)
      BY <1>0, <1>4, <2>2 DEF RequestInv
    <2>7. RequestInv(t)'
      BY <2>1, <2>2, <2>3, <2>4, <2>5, <2>6 DEF RequestInv, Working, Transferring
    <2> QED
      BY <1>0, <2>1, <2>2, <2>3, <2>7, LocalStep
  <1> QED
    BY <1>3, <1>4 DEF ShareWarehouse, Outcomes

\* The shares of a request that works are of rows its context names.
LEMMA WorkingShares ==
  ASSUME IInv, NEW t \in Requests, shares'[t] = shares[t]
  PROVE  \A e \in shares'[t] : latch[e] = "free" /\ status[e] # "absent"
  BY DEF IInv, CatalogInv

\* An update of a row the request has taken, with a quantity that is enough.
LEMMA UpdateInv ==
  ASSUME IInv, TypeOK', NEW t \in Requests, pc[t] \in {"upsert", "debit", "move"},
         Goto(t, "insert"), UNCHANGED shares,
         written' = [written EXCEPT ![t] = BalancesAfter(cmd[t], balance)],
         Debits(cmd[t]) => ~Short(cmd[t]),
         owner'[Source(cmd[t])] = t, owner'[Destination(cmd[t])] = t,
         \A u \in Requests, y \in Cell : owner[y] = u => owner'[y] = u
  PROVE  IInv'
  <1> DEFINE c == cmd[t]
  <1>0. TypeOK /\ RequestInv(t)
    BY DEF IInv
  <1>1. /\ Local(t)
        /\ pc'[t] = "insert" /\ answer'[t] = answer[t] /\ cmd'[t] = c
        /\ status' = status /\ balance' = balance /\ entries' = entries
    BY <1>0, GotoLocal DEF Steps, TypeOK
  <1>2. written'[t] = BalancesAfter(c, balance)
    BY <1>0 DEF TypeOK
  <1>3. Debits(c) => balance[Source(c)] >= c.quantity
    <2>1. c \in Commands /\ Source(c) \in Cell /\ c.quantity \in Nat /\ balance \in [Cell -> Nat]
      BY <1>0, CommandOf, CommandParts DEF TypeOK
    <2> QED
      BY <2>1 DEF Short
  <1>4. RequestInv(t)'
    BY <1>0, <1>1, <1>2, <1>3 DEF RequestInv, Working, Transferring
  <1> QED
    BY <1>1, <1>4, LocalStep, WorkingShares

LEMMA MovementInv ==
  ASSUME IInv, NEW t \in Requests, UpsertReceipt(t) \/ DebitIssue(t)
  PROVE  IInv'
  <1> DEFINE c == cmd[t]
  <1>0. TypeOK /\ RequestInv(t) /\ TypeOK'
    BY StatementType DEF IInv, Statement
  <1>1. /\ c \in Commands /\ Source(c) \in Cell
        /\ pc[t] \in {"upsert", "debit"} => Source(c) = Destination(c)
    BY <1>0, CommandOf, CommandParts DEF RequestInv
  <1>2. CASE UpsertReceipt(t)
    <2>1. ~Debits(c)
      BY <1>0, <1>2 DEF UpsertReceipt, RequestInv, Debits
    <2>2. /\ owner'[Source(c)] = t /\ owner'[Destination(c)] = t
          /\ \A u \in Requests, y \in Cell : owner[y] = u => owner'[y] = u
      BY <1>0, <1>1, <1>2, TakeKeeps DEF UpsertReceipt
    <2> QED
      BY <1>0, <1>2, <2>1, <2>2, UpdateInv DEF UpsertReceipt
  <1>3. CASE DebitIssue(t) /\ Finish(t, "insufficient", NoBalances)
    BY <1>3, FinishInv DEF NoBalances, Balances, Outcomes
  <1>4. CASE DebitIssue(t) /\ ~Finish(t, "insufficient", NoBalances)
    <2>1. /\ owner'[Source(c)] = t /\ owner'[Destination(c)] = t
          /\ \A u \in Requests, y \in Cell : owner[y] = u => owner'[y] = u
      BY <1>0, <1>1, <1>4, TakeKeeps DEF DebitIssue
    <2> QED
      BY <1>0, <1>4, <2>1, UpdateInv DEF DebitIssue
  <1> QED
    BY <1>2, <1>3, <1>4

\* transfer_stock up to its updates.
LEMMA RowsInv ==
  ASSUME IInv, NEW t \in Requests,
         SeedSource(t) \/ SeedDestination(t) \/ LockFirst(t) \/ LockSecond(t)
  PROVE  IInv'
  <1> DEFINE c == cmd[t]
  <1>0. TypeOK /\ RequestInv(t) /\ TypeOK'
    BY StatementType DEF IInv, Statement
  <1>1. /\ Source(c) \in Cell /\ Destination(c) \in Cell
        /\ First(c) \in Cell /\ Second(c) \in Cell
    BY <1>0, CommandOf
  <1>2. ASSUME NEW next \in {"seed_destination", "lock_first", "lock_second", "move"},
               NEW x \in Cell, pc[t] \in Transferring, Goto(t, next),
               UNCHANGED owner \/ (Free(t, x) /\ Take(t, x)),
               UNCHANGED <<shares, written>>,
               next = "lock_second" => owner'[First(c)] = t,
               next = "move" => owner'[Source(c)] = t /\ owner'[Destination(c)] = t
        PROVE  IInv'
    <2>1. \A u \in Requests, y \in Cell : owner[y] = u => owner'[y] = u
      BY <1>0, <1>2, TakeKeeps
    <2>2. /\ Local(t)
          /\ pc'[t] = next /\ answer'[t] = answer[t] /\ cmd'[t] = c /\ status' = status
      BY <1>0, <1>2, <2>1, GotoLocal DEF Steps
    <2>3. RequestInv(t)'
      BY <1>0, <1>2, <2>2 DEF RequestInv, Working, Transferring
    <2> QED
      BY <1>0, <1>2, <2>2, <2>3, LocalStep, WorkingShares
  <1>3. CASE SeedSource(t)
    BY <1>1, <1>2, <1>3 DEF SeedSource, SeedRow, Transferring
  <1>4. CASE SeedDestination(t)
    BY <1>1, <1>2, <1>4 DEF SeedDestination, SeedRow, Transferring
  <1>5. CASE LockFirst(t)
    <2>1. owner'[First(c)] = t
      BY <1>0, <1>1, <1>5, TakeKeeps DEF LockFirst, LockRow
    <2> QED
      BY <1>1, <1>2, <1>5, <2>1 DEF LockFirst, LockRow, Transferring
  <1>6. CASE LockSecond(t)
    <2>1. owner'[Second(c)] = t /\ owner'[First(c)] = t
      BY <1>0, <1>1, <1>6, TakeKeeps DEF LockSecond, LockRow, RequestInv
    <2>2. owner'[Source(c)] = t /\ owner'[Destination(c)] = t
      BY <2>1 DEF First, Second
    <2> QED
      BY <1>1, <1>2, <1>6, <2>2 DEF LockSecond, LockRow, Transferring
  <1> QED
    BY <1>3, <1>4, <1>5, <1>6

LEMMA MoveInv ==
  ASSUME IInv, NEW t \in Requests, MoveStock(t)
  PROVE  IInv'
  <1>0. TypeOK /\ RequestInv(t) /\ TypeOK'
    BY StatementType DEF IInv, Statement
  <1>1. CASE Finish(t, "insufficient", NoBalances)
    BY <1>1, FinishInv DEF NoBalances, Balances, Outcomes
  <1>2. CASE ~Finish(t, "insufficient", NoBalances)
    BY <1>0, <1>2, UpdateInv DEF MoveStock, RequestInv
  <1> QED
    BY <1>1, <1>2

LEMMA InsertInv ==
  ASSUME IInv, NEW t \in Requests, InsertRow(t)
  PROVE  IInv'
  <1> DEFINE c == cmd[t]
  <1>0. TypeOK /\ RequestInv(t) /\ TypeOK'
    BY StatementType DEF IInv, Statement
  <1>1. CASE Goto(t, "commit") /\ Recorded(c, entries) = {} /\ UNCHANGED <<shares, owner, written>>
    <2>1. /\ Local(t)
          /\ pc'[t] = "commit" /\ answer'[t] = answer[t] /\ cmd' = cmd
          /\ status' = status /\ balance' = balance /\ entries' = entries
      BY <1>0, <1>1, GotoLocal DEF Steps, Goto
    <2>2. ~KeyInFlight(t) /\ ~KeyInFlight(t)'
      BY <1>1, <2>1 DEF InsertRow, KeyInFlight, Local
    <2>3. RequestInv(t)'
      BY <1>0, <1>1, <2>1, <2>2 DEF RequestInv, InsertRow, Working, Transferring
    <2> QED
      BY <1>0, <1>1, <2>1, <2>2, <2>3, LocalStep, WorkingShares
  <1>2. CASE Goto(t, "reread") /\ Recorded(c, entries) # {} /\ Release(t)
    <2>1. /\ Local(t)
          /\ pc'[t] = "reread" /\ shares'[t] = {}
      BY <1>0, <1>2 DEF Local, Goto, Release, TypeOK, committed, Steps
    <2>2. RequestInv(t)'
      BY <1>0, <1>2, <2>1 DEF RequestInv, InsertRow, Goto, committed, Working, Transferring
    <2> QED
      BY <1>0, <2>1, <2>2, LocalStep
  <1> QED
    BY <1>1, <1>2 DEF InsertRow

LEMMA EndsInv ==
  ASSUME IInv, NEW t \in Requests, Lookup(t) \/ Reread(t) \/ DeadlockVictim(t) \/ Fail(t)
  PROVE  IInv'
  <1>0. TypeOK /\ RequestInv(t) /\ TypeOK'
    BY StatementType DEF IInv, Statement
  <1>1. CASE \E o \in Outcomes : Finish(t, o, NoBalances)
    BY <1>1, FinishInv DEF NoBalances, Balances
  <1>2. CASE \E e \in Recorded(cmd[t], entries) : Finish(t, "replayed", e.balances)
    BY <1>0, <1>2, FinishInv, RecordedType DEF Outcomes
  <1>3. CASE /\ pc[t] = "lookup" /\ Valid(cmd[t])
             /\ Goto(t, "product") /\ UNCHANGED <<shares, owner, written>>
    <2>1. /\ Local(t)
          /\ pc'[t] = "product" /\ answer'[t] = answer[t] /\ cmd'[t] = cmd[t]
      BY <1>0, <1>3, GotoLocal DEF Steps
    <2>2. RequestInv(t)'
      BY <1>0, <1>3, <2>1 DEF RequestInv, Working, Transferring
    <2> QED
      BY <1>0, <1>3, <2>1, <2>2, LocalStep, WorkingShares
  <1> QED
    BY <1>1, <1>2, <1>3 DEF Lookup, Reread, DeadlockVictim, Fail, Outcomes

\* A commit publishes balances of cells that are its own, of active rows.
LEMMA CommitInv ==
  ASSUME IInv, NEW t \in Requests, Commit(t)
  PROVE  IInv'
  <1> DEFINE c == cmd[t]
             new == [command |-> c, balances |-> written[t]]
  <1>0. TypeOK /\ RequestInv(t) /\ TypeOK' /\ c \in Commands
    BY StatementType, CommandOf DEF IInv, Statement
  <1>1. /\ \A x \in Cell : x # Source(c) /\ x # Destination(c) => balance'[x] = balance[x]
        /\ entries' = entries \cup {new} /\ new.command = c
        /\ status' = status /\ latch' = latch /\ cmd' = cmd
    BY <1>0 DEF Commit, Written, TypeOK
  <1>2. pc'[t] = "done" /\ shares'[t] = {}
    BY <1>0 DEF Commit, Tell, Release, TypeOK
  <1>3. ASSUME NEW u \in Requests, u # t
        PROVE  /\ pc'[u] = pc[u] /\ answer'[u] = answer[u]
               /\ shares'[u] = shares[u] /\ written'[u] = written[u]
               /\ \A x \in Cell : owner[x] = u => owner'[x] = u
    BY <1>0, <1>3 DEF Commit, Tell, Release, TypeOK
  <1>4. RequestInv(t)'
    BY <1>2 DEF RequestInv, Working, Transferring
  <1>5. ASSUME NEW u \in Requests, u # t
        PROVE  RequestInv(u)'
    <2> DEFINE d == cmd[u]
    <2>1. RequestInv(u) /\ cmd'[u] = d /\ d \in Commands
      BY <1>1, CommandOf DEF IInv
    <2>2. /\ Source(d) \in Cell /\ Destination(d) \in Cell
          /\ First(d) \in Cell /\ Second(d) \in Cell
      BY CommandOf DEF IInv
    <2>3. ASSUME owner[Source(d)] = u, owner[Destination(d)] = u
          PROVE  BalancesAfter(d, balance') = BalancesAfter(d, balance)
                 /\ balance'[Source(d)] = balance[Source(d)]
      <3>1. owner[Source(c)] = t /\ owner[Destination(c)] = t
        BY <1>0 DEF Commit, RequestInv
      <3>2. balance'[Source(d)] = balance[Source(d)]
            /\ balance'[Destination(d)] = balance[Destination(d)]
        BY <1>1, <1>5, <2>2, <2>3, <3>1
      <3> QED
        BY <3>2 DEF BalancesAfter
    <2>4. pc[u] = "commit" => Recorded(d, entries') = {}
      <3> SUFFICES ASSUME pc[u] = "commit"
                   PROVE  Recorded(d, entries') = {}
        OBVIOUS
      <3>1. OpId(c) # OpId(d) /\ Recorded(d, entries) = {}
        BY <1>5, <2>1 DEF RequestInv, KeyInFlight, Commit
      <3> HIDE DEF new
      <3> QED
        BY <1>1, <3>1 DEF Recorded
    <2>5. pc[u] = "commit" => ~KeyInFlight(u)'
      BY <1>1, <1>2, <1>3, <1>5, <2>1 DEF RequestInv, KeyInFlight
    <2>6. pc[u] = "reread" => Recorded(d, entries') # {}
      <3>1. Recorded(d, entries) \subseteq Recorded(d, entries')
        BY <1>1 DEF Recorded
      <3> QED
        BY <2>1, <3>1 DEF RequestInv
    <2>7. /\ pc'[u] = pc[u] /\ answer'[u] = answer[u] /\ status' = status
          /\ shares'[u] = shares[u] /\ written'[u] = written[u]
      BY <1>1, <1>3, <1>5
    <2>8. /\ owner[First(d)] = u => owner'[First(d)] = u
          /\ owner[Source(d)] = u => owner'[Source(d)] = u
          /\ owner[Destination(d)] = u => owner'[Destination(d)] = u
      BY <1>3, <1>5, <2>2
    <2>9. pc[u] \in {"insert", "commit"} =>
            /\ written[u] = BalancesAfter(d, balance')
            /\ Debits(d) => balance'[Source(d)] >= d.quantity
      BY <2>1, <2>3 DEF RequestInv
    <2> HIDE DEF d
    <2>10. /\ pc[u] # "done" => answer[u].outcome = "pending"
           /\ pc[u] \notin {"lookup", "done"} => Valid(d)
           /\ shares[u] \subseteq Context(d)
           /\ pc[u] \in Working => \A e \in Context(d) : e \in shares[u] /\ status[e] = "active"
           /\ pc[u] = "upsert" => d.kind = "RECEIPT"
           /\ pc[u] = "debit" => d.kind = "ISSUE"
           /\ pc[u] \in Transferring => d.kind = "TRANSFER"
      BY <2>1 DEF RequestInv, d
    <2>11. /\ pc[u] = "lock_second" => owner'[First(d)] = u
           /\ pc[u] \in {"move", "insert", "commit"} =>
                owner'[Source(d)] = u /\ owner'[Destination(d)] = u
      BY <2>1, <2>8 DEF RequestInv, d
    <2> QED
      BY <2>1, <2>4, <2>5, <2>6, <2>7, <2>9, <2>10, <2>11 DEF RequestInv
  <1>6. CatalogInv'
    <2>1. \A e \in Context(c) : latch[e] = "free"
      BY <1>0 DEF IInv, CatalogInv, RequestInv, Commit, Working
    <2>2. ASSUME NEW e \in Entities, latch[e] = "clear", NEW x \in CellsOf(e)
          PROVE  balance'[x] = 0
      <3>1. x \in Cell /\ x # Source(c) /\ x # Destination(c)
        BY <2>1, <2>2 DEF CellsOf, Source, Destination, Context
      <3> QED
        BY <1>1, <2>2, <3>1 DEF IInv, CatalogInv
    <2>3. \A u \in Requests : shares'[u] \subseteq shares[u]
      BY <1>2, <1>3
    <2> QED
      BY <1>1, <2>2, <2>3 DEF IInv, CatalogInv
  <1> QED
    BY <1>0, <1>4, <1>5, <1>6 DEF IInv

\* An update of the catalog moves only rows no request has locked.
LEMMA CatalogUpdateInv ==
  ASSUME IInv, NEW e \in Entities, CatalogNext(e)
  PROVE  IInv'
  <1>0. TypeOK /\ TypeOK'
    BY CatalogType DEF IInv
  <1>1. /\ UNCHANGED <<rows, balance, history, entries, pc, shares, owner, written, cmd, answer>>
        /\ \A f \in Entities \ {e} : status'[f] = status[f] /\ latch'[f] = latch[f]
    BY <1>0 DEF CatalogNext, CreateEntity, LockEntity, CheckStock, UpdateEntity,
                AbandonUpdate, CatalogStep, TypeOK
  <1>2. /\ latch'[e] # "free" => status'[e] # "absent"
        /\ latch'[e] \in {"deactivating", "clear"} => status'[e] = "active"
        /\ latch'[e] = "clear" => \A x \in CellsOf(e) : balance[x] = 0
    BY <1>0 DEF IInv, CatalogInv, CatalogNext, CreateEntity, LockEntity, CheckStock,
                UpdateEntity, AbandonUpdate, CatalogStep, TypeOK, Latches
  <1>3. \A t \in Requests : e \notin shares[t]
    BY <1>0 DEF IInv, CatalogInv, CatalogNext, CreateEntity, LockEntity, CheckStock,
                UpdateEntity, AbandonUpdate, Unshared
  <1>4. CatalogInv'
    <2>1. \A t \in Requests : \A f \in shares[t] : f \in Entities /\ f # e
      BY <1>0, <1>3 DEF TypeOK
    <2> QED
      BY <1>1, <1>2, <2>1 DEF IInv, CatalogInv
  <1>5. ASSUME NEW t \in Requests
        PROVE  RequestInv(t)'
    <2>1. RequestInv(t) /\ Context(cmd[t]) \subseteq Entities
      BY CommandOf DEF IInv
    <2>2. pc[t] \in Working => \A f \in Context(cmd[t]) : f \in shares[t] /\ status'[f] = "active"
      BY <1>1, <1>3, <2>1 DEF RequestInv
    <2>3. KeyInFlight(t)' <=> KeyInFlight(t)
      BY <1>1 DEF KeyInFlight
    <2> QED
      BY <1>1, <2>1, <2>2, <2>3 DEF RequestInv
  <1> QED
    BY <1>0, <1>4, <1>5 DEF IInv

LEMMA InitInv == Init => IInv
  <1> SUFFICES ASSUME Init PROVE IInv
    OBVIOUS
  <1>1. TypeOK
    BY OpeningAssumption, CatalogAssumption, ActorAssumption
    DEF Init, TypeOK, Cell, Entities, Steps, Latches, Answer, Outcomes, Balances, NoBalances
  <1>2. \A t \in Requests : RequestInv(t)
    BY DEF Init, RequestInv, Working, Transferring
  <1>3. CatalogInv
    BY DEF Init, CatalogInv
  <1> QED
    BY <1>1, <1>2, <1>3 DEF IInv

LEMMA NextInv == IInv /\ [Next]_vars => IInv'
  <1> SUFFICES ASSUME IInv, [Next]_vars PROVE IInv'
    OBVIOUS
  <1>1. ASSUME NEW t \in Requests, Statement(t) \/ DeadlockVictim(t) \/ Fail(t)
        PROVE  IInv'
    BY <1>1, ShareInv, ShareWarehouseInv, MovementInv, RowsInv, MoveInv, InsertInv,
       EndsInv, CommitInv
    DEF Statement
  <1>2. ASSUME NEW e \in Edited, CatalogNext(e)
        PROVE  IInv'
    BY <1>2, CatalogUpdateInv, ActorAssumption DEF Entities
  <1>3. CASE UNCHANGED vars
    BY <1>3 DEF vars, IInv, TypeOK, RequestInv, CatalogInv, KeyInFlight
  <1> QED
    BY <1>1, <1>2, <1>3 DEF Next

\* Every variable keeps its type; no balance, posting or answer is ever negative.
THEOREM TypeCorrect == Spec => []TypeOK
  <1>1. IInv => TypeOK
    BY DEF IInv
  <1> QED
    BY <1>1, InitInv, NextInv, PTL DEF Spec

\* The handler that reads a key again after the unique constraint refused it finds
\* the committed entry: its "raise" is dead code.
THEOREM RereadFinds == Spec => []RereadFindsEntry
  <1>1. IInv => RereadFindsEntry
    BY DEF IInv, RequestInv, RereadFindsEntry
  <1> QED
    BY <1>1, InitInv, NextInv, PTL DEF Spec

-------------------------------------------------------------------------------
(* Inventory implements StockLedger *)

\* StockLedger reads the commands as Inventory does.
LEMMA SameWords ==
  /\ Ledger!Entities = Entities /\ Ledger!Cell = Cell
  /\ Ledger!NoBalances = NoBalances
  /\ \A c : Ledger!Valid(c) <=> Valid(c)
  /\ \A c : Ledger!Debits(c) <=> Debits(c)
  /\ \A c : Ledger!Source(c) = Source(c)
  /\ \A c : Ledger!Context(c) = Context(c)
  /\ \A c, es : Ledger!Recorded(c, es) = Recorded(c, es)
  /\ \A c, b : Ledger!BalancesAfter(c, b) = BalancesAfter(c, b)
  /\ \A c, bal, b : Ledger!Written(c, bal, b) = Written(c, bal, b)
  /\ \A c, bal, h : Ledger!Posted(c, bal, h) = Posted(c, bal, h)
  /\ \A e : Ledger!CellsOf(e) = CellsOf(e)
  <1>1. Ledger!Entities = Entities /\ Ledger!Cell = Cell /\ Ledger!NoBalances = NoBalances
    BY DEF Entities, Ledger!Entities, Cell, Ledger!Cell, NoBalances, Ledger!NoBalances
  <1>2. /\ \A c : Ledger!Debits(c) <=> Debits(c)
        /\ \A c : Ledger!Credits(c) <=> Credits(c)
    BY DEF Debits, Ledger!Debits, Credits, Ledger!Credits
  <1>3. /\ \A c : Ledger!Source(c) = Source(c)
        /\ \A c : Ledger!Destination(c) = Destination(c)
        /\ \A c : Ledger!OpId(c) = OpId(c)
        /\ \A c : Ledger!Context(c) = Context(c)
    BY DEF Source, Ledger!Source, Destination, Ledger!Destination, OpId, Ledger!OpId,
           Context, Ledger!Context
  <1>4. \A c : Ledger!Valid(c) <=> Valid(c)
    BY DEF Valid, Ledger!Valid
  <1>5. \A c, es : Ledger!Recorded(c, es) = Recorded(c, es)
    BY <1>3 DEF Recorded, Ledger!Recorded
  <1>6. \A c, b : Ledger!BalancesAfter(c, b) = BalancesAfter(c, b)
    BY <1>2, <1>3 DEF BalancesAfter, Ledger!BalancesAfter
  <1>7. \A c, bal, b : Ledger!Written(c, bal, b) = Written(c, bal, b)
    BY <1>3 DEF Written, Ledger!Written
  <1>8. \A c, type, n : Ledger!Row(c, type, n) = Row(c, type, n)
    BY <1>3 DEF Row, Ledger!Row
  <1>9. \A c, bal, h : Ledger!Posted(c, bal, h) = Posted(c, bal, h)
    BY <1>1, <1>2, <1>3, <1>8 DEF Posted, Ledger!Posted
  <1>10. \A e : Ledger!CellsOf(e) = CellsOf(e)
    BY <1>1 DEF CellsOf, Ledger!CellsOf
  <1> QED
    BY <1>1, <1>2, <1>3, <1>4, <1>5, <1>6, <1>7, <1>9, <1>10

\* A call that ends without a commit is a replay or a justified refusal.
LEMMA FinishIsAnswer ==
  ASSUME IInv, NEW t \in Requests, pc[t] # "done",
         NEW o \in Outcomes, NEW bal \in Balances, Finish(t, o, bal),
         \/ o = "invalid" /\ ~Valid(cmd[t]) /\ bal = NoBalances
         \/ o = "conflict" /\ bal = NoBalances
            /\ \E e \in Recorded(cmd[t], entries) : e.command # cmd[t]
         \/ o = "inactive" /\ bal = NoBalances
            /\ \E e \in Context(cmd[t]) : status[e] = "inactive"
         \/ o = "insufficient" /\ bal = NoBalances
            /\ Debits(cmd[t]) /\ balance[Source(cmd[t])] < cmd[t].quantity
         \/ o \in {"not_found", "unavailable"} /\ bal = NoBalances
         \/ o = "replayed"
            /\ \E e \in Recorded(cmd[t], entries) : e.command = cmd[t] /\ e.balances = bal
  PROVE  Ledger!Next
  <1>1. Ledger!Tell(t, o, bal)
    BY DEF IInv, RequestInv, Finish, Tell, Ledger!Tell
  <1>2. UNCHANGED <<status, balance, history, entries, cmd>>
    BY DEF Finish, committed
  <1>3. Ledger!Refuse(t) \/ Ledger!Replay(t)
    BY <1>1, <1>2, SameWords DEF Ledger!Refuse, Ledger!Replay
  <1> QED
    BY <1>3 DEF Ledger!Next

\* A step that goes on changes nothing the ledger sees.
LEMMA GotoIsStutter ==
  ASSUME NEW t, NEW next, Goto(t, next)
  PROVE  UNCHANGED Ledger!ledgerVars
  BY DEF Goto, committed, Ledger!ledgerVars

\* A commit is the instant at which a command takes effect.
LEMMA CommitIsConfirm ==
  ASSUME IInv, NEW t \in Requests, Commit(t)
  PROVE  Ledger!Confirm(t)
  <1> DEFINE c == cmd[t]
  <1>1. /\ Valid(c) /\ Recorded(c, entries) = {}
        /\ \A e \in Context(c) : status[e] = "active"
        /\ written[t] = BalancesAfter(c, balance)
        /\ Debits(c) => balance[Source(c)] >= c.quantity
        /\ answer[t].outcome = "pending"
    BY DEF IInv, RequestInv, Commit, Working
  <1>2. \/ Ledger!Tell(t, "created", BalancesAfter(c, balance))
        \/ Ledger!Tell(t, "unavailable", NoBalances)
    BY <1>1 DEF Commit, Tell, Ledger!Tell
  <1> QED
    BY <1>1, <1>2, SameWords DEF Commit, Ledger!Confirm

LEMMA StatementIsStep ==
  ASSUME IInv, NEW t \in Requests, Statement(t) \/ DeadlockVictim(t) \/ Fail(t)
  PROVE  [Ledger!Next]_(Ledger!ledgerVars)
  <1> DEFINE c == cmd[t]
  <1>0. /\ TypeOK /\ RequestInv(t) /\ NoBalances \in Balances
        /\ c \in Commands /\ Source(c) \in Cell /\ c.quantity \in Nat
        /\ balance \in [Cell -> Nat]
    BY CommandOf, CommandParts DEF IInv, TypeOK, NoBalances, Balances
  <1>1. Short(c) => balance[Source(c)] < c.quantity
    BY DEF Short
  <1>2. CASE Commit(t)
    BY <1>2, CommitIsConfirm DEF Ledger!Next
  <1>3. CASE ShareProduct(t) \/ ShareFirstWarehouse(t) \/ UpsertReceipt(t)
             \/ SeedSource(t) \/ SeedDestination(t) \/ LockFirst(t) \/ LockSecond(t)
             \/ InsertRow(t)
    BY <1>3, GotoIsStutter
    DEF ShareProduct, ShareFirstWarehouse, UpsertReceipt, SeedSource, SeedDestination,
        SeedRow, LockFirst, LockSecond, LockRow, InsertRow
  <1>4. CASE Fail(t)
    BY <1>0, <1>4, FinishIsAnswer DEF Fail, Outcomes
  <1>5. CASE DeadlockVictim(t)
    <2>1. PICK ts \in SUBSET Requests : t \in ts /\ Deadlock(ts)
      BY <1>5 DEF DeadlockVictim
    <2>2. WaitsFor(t) # {}
      BY <2>1 DEF Deadlock
    <2>3. pc[t] # "done"
      BY <2>2 DEF WaitsFor
    <2> QED
      BY <1>0, <1>5, <2>3, FinishIsAnswer DEF DeadlockVictim, Outcomes
  <1>6. CASE Lookup(t) \/ Reread(t)
    <2>1. ASSUME NEW e \in Recorded(c, entries), e.command = c, pc[t] # "done",
                 Finish(t, "replayed", e.balances)
          PROVE  Ledger!Next
      BY <1>0, <2>1, RecordedType, FinishIsAnswer DEF Outcomes
    <2>2. ASSUME NEW e \in Recorded(c, entries), e.command # c, pc[t] # "done",
                 Finish(t, "conflict", NoBalances)
          PROVE  Ledger!Next
      BY <1>0, <2>2, FinishIsAnswer DEF Outcomes
    <2>3. CASE Lookup(t)
      <3>1. CASE Valid(c) /\ Recorded(c, entries) = {} /\ Goto(t, "product")
        BY <3>1, GotoIsStutter
      <3>2. CASE ~Valid(c) /\ Finish(t, "invalid", NoBalances)
        BY <1>0, <2>3, <3>2, FinishIsAnswer DEF Lookup, Outcomes
      <3>3. CASE \E e \in Recorded(c, entries) : e.command = c /\ Finish(t, "replayed", e.balances)
        BY <2>1, <2>3, <3>3 DEF Lookup
      <3>4. CASE \E e \in Recorded(c, entries) : e.command # c /\ Finish(t, "conflict", NoBalances)
        BY <2>2, <2>3, <3>4 DEF Lookup
      <3> QED
        BY <2>3, <3>1, <3>2, <3>3, <3>4 DEF Lookup, SameRequest
    <2>4. CASE Reread(t)
      BY <2>1, <2>2, <2>4 DEF Reread, SameRequest
    <2> QED
      BY <1>6, <2>3, <2>4
  <1>7. CASE ShareWarehouse(t)
    <2> DEFINE w == Second(c)[2]
               found == shares[t] \cup Found(w)
    <2>1. CASE \E next : Goto(t, next)
      BY <2>1, GotoIsStutter
    <2>2. CASE Finish(t, "not_found", NoBalances)
      BY <1>0, <1>7, <2>2, FinishIsAnswer DEF ShareWarehouse, Outcomes
    <2>3. CASE /\ found \ {e \in found : status[e] = "active"} # {}
               /\ Finish(t, "inactive", NoBalances)
      <3>1. PICK e \in found : status[e] # "active"
        BY <2>3
      <3>2. e \in Context(c) /\ status[e] # "absent"
        BY <1>0, <3>1 DEF IInv, CatalogInv, RequestInv, Found, Second, Source, Destination, Context
      <3>3. status[e] = "inactive"
        BY <1>0, <3>1, <3>2, CommandOf DEF TypeOK
      <3> QED
        BY <1>0, <1>7, <2>3, <3>2, <3>3, FinishIsAnswer DEF ShareWarehouse, Outcomes
    <2> QED
      BY <1>7, <2>1, <2>2, <2>3 DEF ShareWarehouse
  <1>8. CASE DebitIssue(t) \/ MoveStock(t)
    <2>1. Debits(c)
      BY <1>0, <1>8 DEF DebitIssue, MoveStock, RequestInv, Debits, Transferring
    <2>2. CASE Finish(t, "insufficient", NoBalances) /\ Short(c)
      BY <1>0, <1>1, <1>8, <2>1, <2>2, FinishIsAnswer DEF DebitIssue, MoveStock, Outcomes
    <2>3. CASE Goto(t, "insert")
      BY <2>3, GotoIsStutter
    <2> QED
      BY <1>8, <2>2, <2>3 DEF DebitIssue, MoveStock
  <1> QED
    BY <1>2, <1>3, <1>4, <1>5, <1>6, <1>7, <1>8 DEF Statement

\* The update that deactivates writes what it has checked.
LEMMA CatalogIsStep ==
  ASSUME IInv, NEW e \in Entities, CatalogNext(e)
  PROVE  [Ledger!Next]_(Ledger!ledgerVars)
  <1>0. TypeOK
    BY DEF IInv
  <1>1. /\ UNCHANGED <<balance, history, entries, cmd, answer>>
        /\ \E st : status' = [status EXCEPT ![e] = st]
    BY DEF CatalogNext, CreateEntity, LockEntity, CheckStock, UpdateEntity,
           AbandonUpdate, CatalogStep
  <1>2. CASE status'[e] = status[e]
    <2>1. status' = status
      BY <1>0, <1>1, <1>2 DEF TypeOK
    <2> QED
      BY <1>1, <2>1 DEF Ledger!ledgerVars
  <1>3. CASE status[e] = "absent" /\ status' = [status EXCEPT ![e] = "active"]
    BY <1>1, <1>3, SameWords DEF Ledger!Next, Ledger!Create, Ledger!SetStatus
  <1>4. CASE latch[e] = "clear" /\ status' = [status EXCEPT ![e] = "inactive"]
    <2>1. status[e] = "active" /\ \A x \in Ledger!CellsOf(e) : balance[x] = 0
      BY <1>4, SameWords DEF IInv, CatalogInv
    <2>2. Ledger!Deactivate(e)
      BY <1>1, <1>4, <2>1 DEF Ledger!Deactivate, Ledger!SetStatus
    <2> QED
      BY <2>2, SameWords DEF Ledger!Next
  <1>5. CASE /\ latch[e] = "editing" /\ status[e] # "active"
             /\ status' = [status EXCEPT ![e] = "active"]
    <2>1. status[e] = "inactive"
      BY <1>0, <1>5 DEF IInv, CatalogInv, TypeOK
    <2> QED
      BY <1>1, <1>5, <2>1, SameWords DEF Ledger!Next, Ledger!Activate, Ledger!SetStatus
  <1> QED
    BY <1>0, <1>2, <1>3, <1>4, <1>5
    DEF CatalogNext, CreateEntity, LockEntity, CheckStock, UpdateEntity,
        AbandonUpdate, CatalogStep, TypeOK

LEMMA InitIsInit == Init => Ledger!Init
  BY SameWords, ActorAssumption DEF Init, Ledger!Init

LEMMA NextIsStep == IInv /\ [Next]_vars => [Ledger!Next]_(Ledger!ledgerVars)
  <1>1. CASE UNCHANGED vars
    BY <1>1 DEF vars, Ledger!ledgerVars
  <1>2. Edited \subseteq Entities
    BY ActorAssumption DEF Entities
  <1> QED
    BY <1>1, <1>2, StatementIsStep, CatalogIsStep DEF Next

\* Statement by statement, under every interleaving, the locks make the operations
\* atomic: Inventory implements StockLedger.
THEOREM Implementation == Spec => ImplementsLedger
  BY InitIsInit, NextIsStep, InitInv, NextInv, PTL DEF Spec, ImplementsLedger, Ledger!Spec

-------------------------------------------------------------------------------
(* What Inventory inherits from StockLedger *)

\* The assumptions on the constants are those of StockLedger, so its steps keep its
\* invariants here too.
LEMMA Inherited == Spec => []Ledger!LedgerInv
  <1>1. Init => Ledger!LedgerInv
    BY InitIsInit, Ledger!LedgerInvInit, CatalogAssumption, CommandAssumption, OpeningAssumption
    DEF Command, Ledger!Command
  <1>2. /\ IInv /\ [Next]_vars
        /\ Ledger!LedgerInv
        => Ledger!LedgerInv'
    BY NextIsStep, Ledger!LedgerInvNext, CatalogAssumption, CommandAssumption, OpeningAssumption
    DEF Command, Ledger!Command
  <1> QED
    BY <1>1, <1>2, InitInv, NextInv, PTL DEF Spec

\* No interleaving of movements and transfers loses or repeats an update of a balance.
THEOREM NoLostUpdate == Spec => []BalanceChain
  <1>1. Ledger!LedgerInv => BalanceChain
    BY DEF Ledger!LedgerInv, BalanceChain
  <1> QED
    BY <1>1, Inherited, PTL

\* A key is recorded and posted once, however its command is repeated, raced or cut
\* short by a rollback or a lost connection.
THEOREM OncePerKey == Spec => []ExactlyOnce
  <1>1. Ledger!LedgerInv => ExactlyOnce
    BY DEF Ledger!LedgerInv, ExactlyOnce
  <1> QED
    BY <1>1, Inherited, PTL

\* What a caller was told was carried out is recorded, and stays so.
THEOREM NoFalseAnswer == Spec => []AnswersDurable
  <1>1. Ledger!LedgerInv => AnswersDurable
    BY DEF Ledger!LedgerInv, AnswersDurable
  <1> QED
    BY <1>1, Inherited, PTL

\* No movement or transfer slips between the stock check of update_product or
\* update_warehouse and the write that deactivates the row.
THEOREM NoStrandedStock == Spec => []InactiveHoldsNoStock
  <1>1. Ledger!LedgerInv => InactiveHoldsNoStock
    BY DEF Ledger!LedgerInv, InactiveHoldsNoStock
  <1> QED
    BY <1>1, Inherited, PTL

-------------------------------------------------------------------------------
(* Deadlocks *)

\* Who owns a balance row is past seeding it.  It owns a committed row only because
\* it has locked it, and the first of its cells it locks first.
RowInv(x) ==
  LET t == owner[x]
      c == cmd[t]
  IN  t # Nobody =>
        /\ x \in {Source(c), Destination(c)}
        /\ pc[t] \in {"seed_destination", "lock_first", "lock_second", "move",
                      "insert", "commit"}
        /\ pc[t] \in {"seed_destination", "lock_first"} => x \notin rows
        /\ pc[t] = "lock_second" => x = First(c) \/ x \notin rows

OwnersInv == TypeOK /\ \A x \in Cell : RowInv(x)

\* A transaction that ends owns nothing, and makes the rows committed that were its own.
LEMMA EndOwners ==
  ASSUME OwnersInv, TypeOK', NEW t \in Requests, Release(t), cmd' = cmd,
         \A u \in Requests \ {t} : pc'[u] = pc[u],
         \A x \in Cell : x \in rows' => x \in rows \/ owner[x] = t
  PROVE  OwnersInv'
  <1> SUFFICES ASSUME NEW x \in Cell, owner'[x] # Nobody
               PROVE  RowInv(x)'
    BY DEF OwnersInv, RowInv
  <1>1. /\ owner'[x] = owner[x] /\ owner[x] \in Requests \ {t}
        /\ pc'[owner[x]] = pc[owner[x]]
    BY DEF Release, OwnersInv, TypeOK
  <1>2. RowInv(x) /\ (x \in rows' => x \in rows)
    BY <1>1 DEF OwnersInv
  <1> QED
    BY <1>1, <1>2 DEF RowInv

\* A transaction that goes on may own one more row, and keeps to the order.
LEMMA GotoOwners ==
  ASSUME OwnersInv, TypeOK', NEW t \in Requests, NEW next \in Steps, Goto(t, next),
         \A x \in Cell : owner'[x] = owner[x] \/ owner'[x] = t,
         \A x \in Cell : owner'[x] = t => RowInv(x)'
  PROVE  OwnersInv'
  <1> SUFFICES ASSUME NEW x \in Cell, owner'[x] # t, owner'[x] # Nobody
               PROVE  RowInv(x)'
    BY DEF OwnersInv, RowInv
  <1>1. /\ owner'[x] = owner[x] /\ owner[x] \in Requests \ {t}
        /\ pc'[owner[x]] = pc[owner[x]] /\ cmd' = cmd /\ rows' = rows
    BY DEF Goto, OwnersInv, TypeOK, committed
  <1>2. RowInv(x)
    BY DEF OwnersInv
  <1> QED
    BY <1>1, <1>2 DEF RowInv

LEMMA StatementOwners ==
  ASSUME IInv, OwnersInv, NEW t \in Requests,
         Statement(t) \/ DeadlockVictim(t) \/ Fail(t)
  PROVE  OwnersInv'
  <1> DEFINE c == cmd[t]
             before == {"lookup", "product", "first_warehouse", "warehouse", "upsert", "debit",
                        "seed_source", "reread", "done"}
  <1>0. /\ TypeOK /\ TypeOK' /\ RequestInv(t)
        /\ Source(c) \in Cell /\ Destination(c) \in Cell
        /\ First(c) \in Cell /\ Second(c) \in Cell
        /\ First(c) \in {Source(c), Destination(c)}
        /\ Second(c) \in {Source(c), Destination(c)}
    BY StatementType, CommandOf DEF IInv, First, Second
  <1>1. \A x \in Cell : owner[x] = t => RowInv(x) /\ t # Nobody
    BY ActorAssumption DEF OwnersInv
  <1>2. pc[t] \in before => \A x \in Cell : owner[x] # t
    BY <1>1 DEF RowInv
  <1>3. ASSUME NEW o \in Outcomes, NEW bal \in Balances, Finish(t, o, bal)
        PROVE  OwnersInv'
    BY <1>0, <1>3, EndOwners DEF Finish, Tell, committed, TypeOK
  <1>4. ASSUME NEW next \in Steps, Goto(t, next), UNCHANGED owner,
               \/ pc[t] \in before
               \/ next \in {"move", "insert", "commit"}
               \/ pc[t] = "seed_destination" /\ next = "lock_first"
        PROVE  OwnersInv'
    <2>1. ASSUME NEW x \in Cell, owner'[x] = t
          PROVE  RowInv(x)'
      <3>1. RowInv(x) /\ t # Nobody /\ owner[x] = t /\ pc[t] \notin before
        BY <1>1, <1>2, <1>4, <2>1
      <3>2. pc'[t] = next /\ cmd' = cmd /\ rows' = rows
        BY <1>0, <1>4 DEF Goto, committed, TypeOK
      <3> QED
        BY <1>4, <2>1, <3>1, <3>2 DEF RowInv
    <2> QED
      BY <1>0, <1>4, <2>1, GotoOwners
  <1>5. ASSUME NEW next \in Steps, Goto(t, next), NEW x \in {Source(c), Destination(c)},
               Take(t, x),
               \/ next \in {"move", "insert"}
               \/ /\ next \in {"seed_destination", "lock_first"}
                  /\ pc[t] \in {"seed_source", "seed_destination"}
                  /\ x \notin rows
               \/ next = "lock_second" /\ pc[t] = "lock_first" /\ x = First(c)
        PROVE  OwnersInv'
    <2>1. ASSUME NEW y \in Cell, owner'[y] = t
          PROVE  RowInv(y)'
      <3>1. pc'[t] = next /\ cmd' = cmd /\ rows' = rows
        BY <1>0, <1>5 DEF Goto, committed, TypeOK
      <3>2. y = x \/ (owner[y] = t /\ RowInv(y) /\ t # Nobody)
        BY <1>0, <1>1, <1>5, <2>1 DEF Take, TypeOK
      <3> QED
        BY <1>5, <2>1, <3>1, <3>2 DEF RowInv
    <2>2. \A y \in Cell : owner'[y] = owner[y] \/ owner'[y] = t
      BY <1>0, <1>5 DEF Take, TypeOK
    <2> QED
      BY <1>0, <1>5, <2>1, <2>2, GotoOwners
  <1>6. NoBalances \in Balances
    BY DEF NoBalances, Balances
  <1>7. CASE Lookup(t)
    <2>1. ASSUME NEW e \in Recorded(c, entries), Finish(t, "replayed", e.balances)
          PROVE  OwnersInv'
      BY <1>0, <1>3, <2>1, RecordedType DEF Outcomes
    <2> QED
      BY <1>3, <1>4, <1>6, <1>7, <2>1 DEF Lookup, Outcomes, Steps
  <1>8. CASE ShareProduct(t) \/ ShareFirstWarehouse(t)
    BY <1>4, <1>8 DEF ShareProduct, ShareFirstWarehouse, Steps
  <1>9. CASE ShareWarehouse(t)
    <2> DEFINE next == CASE c.kind = "RECEIPT"  -> "upsert"
                         [] c.kind = "ISSUE"    -> "debit"
                         [] c.kind = "TRANSFER" -> "seed_source"
    <2>1. c.kind \in {"RECEIPT", "ISSUE", "TRANSFER"}
      BY <1>0, CommandOf, CommandParts
    <2>2. next \in Steps
      BY <2>1 DEF Steps
    <2> HIDE DEF next
    <2>3. ASSUME Goto(t, next), UNCHANGED owner, pc[t] = "warehouse"
          PROVE  OwnersInv'
      BY <1>4, <2>2, <2>3
    <2>4. ASSUME NEW o \in {"not_found", "inactive"}, Finish(t, o, NoBalances)
          PROVE  OwnersInv'
      BY <1>3, <1>6, <2>4 DEF Outcomes
    <2> QED
      BY <1>9, <2>3, <2>4 DEF ShareWarehouse, next
  <1>10. CASE UpsertReceipt(t) \/ DebitIssue(t)
    BY <1>3, <1>5, <1>6, <1>10 DEF UpsertReceipt, DebitIssue, Outcomes, Steps
  <1>11. CASE SeedSource(t) \/ SeedDestination(t)
    BY <1>4, <1>5, <1>11 DEF SeedSource, SeedDestination, SeedRow, Steps
  <1>12. CASE LockFirst(t) \/ LockSecond(t)
    BY <1>0, <1>5, <1>12 DEF LockFirst, LockSecond, LockRow, Steps
  <1>13. CASE MoveStock(t)
    BY <1>3, <1>4, <1>6, <1>13 DEF MoveStock, Outcomes, Steps
  <1>14. CASE InsertRow(t)
    <2>1. CASE Goto(t, "reread") /\ Release(t)
      BY <1>0, <2>1, EndOwners DEF Goto, committed, TypeOK
    <2>2. CASE Goto(t, "commit") /\ UNCHANGED owner
      BY <1>4, <2>2 DEF Steps
    <2> QED
      BY <1>14, <2>1, <2>2 DEF InsertRow
  <1>15. CASE Commit(t)
    <2>1. \A u \in Requests \ {t} : pc'[u] = pc[u]
      BY <1>0, <1>15 DEF Commit, Tell, TypeOK
    <2>2. Release(t) /\ cmd' = cmd /\ \A x \in Cell : x \in rows' => x \in rows \/ owner[x] = t
      BY <1>15 DEF Commit
    <2> QED
      BY <1>0, <2>1, <2>2, EndOwners
  <1>16. CASE Reread(t)
    <2>1. ASSUME NEW e \in Recorded(c, entries), Finish(t, "replayed", e.balances)
          PROVE  OwnersInv'
      BY <1>0, <1>3, <2>1, RecordedType DEF Outcomes
    <2> QED
      BY <1>3, <1>6, <1>16, <2>1 DEF Reread, Outcomes
  <1>17. CASE DeadlockVictim(t) \/ Fail(t)
    BY <1>3, <1>6, <1>17 DEF DeadlockVictim, Fail, Outcomes
  <1> QED
    BY <1>7, <1>8, <1>9, <1>10, <1>11, <1>12, <1>13, <1>14, <1>15, <1>16, <1>17
    DEF Statement

LEMMA OwnersNext == IInv /\ OwnersInv /\ [Next]_vars => OwnersInv'
  <1> SUFFICES ASSUME IInv, OwnersInv, [Next]_vars PROVE OwnersInv'
    OBVIOUS
  <1>1. ASSUME NEW t \in Requests, Statement(t) \/ DeadlockVictim(t) \/ Fail(t)
        PROVE  OwnersInv'
    BY <1>1, StatementOwners
  <1>2. ASSUME UNCHANGED <<rows, pc, owner, cmd>>
        PROVE  OwnersInv'
    <2>1. TypeOK'
      BY NextInv DEF IInv
    <2> QED
      BY <1>2, <2>1 DEF OwnersInv, RowInv
  <1>3. ASSUME NEW e \in Edited, CatalogNext(e)
        PROVE  UNCHANGED <<rows, pc, owner, cmd>>
    BY <1>3 DEF CatalogNext, CreateEntity, LockEntity, CheckStock, UpdateEntity, AbandonUpdate,
                CatalogStep
  <1>4. UNCHANGED vars => UNCHANGED <<rows, pc, owner, cmd>>
    BY DEF vars
  <1> QED
    BY <1>1, <1>2, <1>3, <1>4 DEF Next

\* In a deadlock over committed rows everybody waits for a transfer that has locked the
\* first of its two rows.
LEMMA LockersWait ==
  ASSUME IInv, OwnersInv, NEW ts \in SUBSET Requests, Deadlock(ts),
         \A t \in ts : {Source(cmd[t]), Destination(cmd[t])} \subseteq rows,
         NEW t \in ts
  PROVE  \E u \in ts : /\ pc[u] = "lock_second"
                       /\ pc[t] = "lock_second" => Second(cmd[t]) = First(cmd[u])
  <1>1. \A u \in ts : WaitsFor(u) \cap ts # {}
    BY DEF Deadlock
  <1>2. \A u \in ts : pc[u] # "commit"
    BY <1>1 DEF WaitsFor
  <1>3. /\ Source(cmd[t]) \in Cell \cap rows /\ Destination(cmd[t]) \in Cell \cap rows
        /\ First(cmd[t]) \in {Source(cmd[t]), Destination(cmd[t])}
        /\ Second(cmd[t]) \in {Source(cmd[t]), Destination(cmd[t])}
    BY CommandOf DEF IInv, First, Second
  <1>4. PICK u \in ts : u \in WaitsFor(t)
    BY <1>1
  <1>5. PICK x \in {Source(cmd[t]), Destination(cmd[t])} :
          owner[x] = u /\ (pc[t] = "lock_second" => x = Second(cmd[t]))
    BY <1>2, <1>3, <1>4 DEF WaitsFor
  <1>6. RowInv(x) /\ u # Nobody /\ x \in rows
    BY <1>3, <1>5, ActorAssumption DEF OwnersInv
  <1>7. pc[u] \in {"lock_second", "move", "insert"} /\ (pc[u] = "lock_second" => x = First(cmd[u]))
    BY <1>2, <1>5, <1>6 DEF RowInv
  <1>8. WaitsFor(u) \cap ts # {}
    BY <1>1
  <1>9. pc[u] = "lock_second"
    BY <1>2, <1>7, <1>8 DEF WaitsFor
  <1> QED
    BY <1>5, <1>7, <1>9

\* Requests whose balance rows exist never wait for one another in a circle: the one
\* that waits for the last warehouse waits for a transfer that waits for a later one.
THEOREM DeadlockFree == Spec => []NoDeadlock
  <1>1. IInv /\ OwnersInv => NoDeadlock
    <2> SUFFICES ASSUME IInv, OwnersInv, NEW ts \in SUBSET Requests, Deadlock(ts),
                        \A t \in ts : {Source(cmd[t]), Destination(cmd[t])} \subseteq rows
                 PROVE  FALSE
      BY DEF NoDeadlock
    <2> DEFINE us == {t \in ts : pc[t] = "lock_second"}
               lasts == {w \in Warehouses : \E t \in us : w = Second(cmd[t])[2]}
    <2>1. ASSUME NEW t \in us
          PROVE  /\ First(cmd[t])[2] \in Warehouses /\ Second(cmd[t])[2] \in Warehouses
                 /\ First(cmd[t])[2] < Second(cmd[t])[2]
      <3>1. cmd[t].source # cmd[t].destination
        BY DEF IInv, RequestInv, Valid, Transferring
      <3>2. cmd[t].source \in Warehouses /\ cmd[t].destination \in Warehouses
        BY CommandAssumption DEF IInv, TypeOK, Command
      <3>3. cmd[t].source \in Nat /\ cmd[t].destination \in Nat
        BY <3>2, CatalogAssumption
      <3> QED
        BY <3>1, <3>2, <3>3 DEF First, Second, ComesFirst, Source, Destination
    <2>2. ASSUME NEW t \in us
          PROVE  \E u \in us : Second(cmd[t])[2] < Second(cmd[u])[2]
      <3>1. PICK u \in us : Second(cmd[t]) = First(cmd[u])
        BY LockersWait
      <3> QED
        BY <2>1, <3>1
    <2>3. lasts # {} /\ lasts \in SUBSET Warehouses
      <3>1. PICK t \in ts : TRUE
        BY DEF Deadlock
      <3>2. PICK u \in us : TRUE
        BY <3>1, LockersWait
      <3> QED
        BY <2>1, <3>2
    <2>4. PICK w \in lasts : \A v \in lasts : v <= w
      <3> HIDE DEF lasts
      <3> QED
        BY <2>3, OrderAssumption
    <2>5. PICK t \in us : w = Second(cmd[t])[2]
      OBVIOUS
    <2>6. PICK u \in us : w < Second(cmd[u])[2]
      BY <2>2, <2>5
    <2>7. Second(cmd[u])[2] <= w /\ Second(cmd[u])[2] \in Nat /\ w \in Nat
      BY <2>1, <2>4, <2>5, <2>6, CatalogAssumption
    <2> QED
      BY <2>6, <2>7
  <1>2. Init => OwnersInv
    BY InitInv DEF IInv, Init, OwnersInv, RowInv
  <1> QED
    BY <1>1, <1>2, InitInv, NextInv, OwnersNext, PTL DEF Spec
===============================================================================
