------------------------------ MODULE SalesProofs ------------------------------
(***************************************************************************)
(* Sales keeps its types, implements SaleLedger and never waits in a       *)
(* circle, for all products, members, commands and numbers of concurrent   *)
(* requests.                                                               *)
(*                                                                         *)
(* The inductive invariant says what the locks of a sale buy: the policy   *)
(* and the prices it has read are those that hold, its approver's PIN is   *)
(* still the one it was given, the balances it has locked are the ones it  *)
(* debits, and once its row is inserted its key is its own.                *)
(***************************************************************************)
EXTENDS Sales, TLAPS

\* The steps of a request that has read the policy, that has read the prices, that
\* is past its approval, that has locked its balances, and that has inserted its row.
Reading == {"context", "approve", "miss", "seed", "lock", "insert", "reference", "debit",
            "commit"}
Priced == {"approve", "miss", "seed", "lock", "insert", "reference", "debit", "commit"}
Approved == {"seed", "lock", "insert", "reference", "debit", "commit"}
Locked == {"insert", "reference", "debit", "commit"}
InFlight == {"reference", "debit", "commit"}

Needs(t) == NeedsPin(cmd[t], terms[t].tags, terms[t].rate)
Approver(t) == cmd[t].approval.approver

\* What t has read and shares is what is committed.
TermsHold(t) ==
  LET c == cmd[t] IN
  /\ pc[t] \in Reading => Org \in shares[t] /\ terms[t].rate = rate
  /\ pc[t] \in Priced =>
       /\ Context(c) \subseteq shares[t]
       /\ \A e \in Context(c) : status[e] = "active"
       /\ \A p \in Sold(c) : terms[t].tags[p] = tags[p]
       /\ PriceError(c, terms[t].tags, terms[t].rate) = "none"

\* What t has found of its approver, whose membership it holds.
ApprovalHolds(t) ==
  LET m == Approver(t) IN
  /\ pc[t] \in {"approve", "miss"} => Needs(t)
  /\ pc[t] = "miss" =>
       /\ holder[m] = t
       /\ ~Accepts(cmd[t].approval, credentials)
       /\ credentials[m].until <= asked[t] /\ asked[t] <= clock
  /\ pc[t] \in Approved /\ Needs(t) =>
       /\ holder[m] = t
       /\ Accepts(cmd[t].approval, credentials)
       /\ credentials[m].until <= clock
       /\ guesses[m] = << >>

\* The balances that t has locked, and what it has made of them.
RowsHeld(t) ==
  LET c == cmd[t] IN
  /\ pc[t] \in {"seed", "lock"} => todo[t] \subseteq Sold(c)
  /\ pc[t] = "lock" => \A p \in Sold(c) \ todo[t] : owner[CellOf(c, p)] = t
  /\ pc[t] \in Locked => \A p \in Sold(c) : owner[CellOf(c, p)] = t
  /\ pc[t] = "commit" =>
       \A p \in Sold(c) : /\ stock[CellOf(c, p)] >= LineOf(c, p).quantity
                          /\ written[t][p] = stock[CellOf(c, p)] - LineOf(c, p).quantity

\* The rows are seeded and locked in the order of the products: those that t has
\* seeded are there or its own, and it owns no row that is further on.
InOrder(t) ==
  LET c == cmd[t]
      visited == Sold(c) \ todo[t]
  IN
  /\ \A x \in Cell : owner[x] = t =>
       /\ pc[t] \in {"seed", "lock"} \cup Locked
       /\ x[1] \in Sold(c) /\ x = CellOf(c, x[1])
       /\ pc[t] = "seed" => x \notin rows /\ x[1] \in visited
       /\ pc[t] = "lock" /\ x \in rows => x[1] \in visited
  /\ pc[t] = "seed" => \A p \in visited : CellOf(c, p) \in rows \/ owner[CellOf(c, p)] = t
  /\ pc[t] = "lock" => \A p \in Sold(c) : CellOf(c, p) \in rows \/ owner[CellOf(c, p)] = t
  /\ pc[t] \in {"seed", "lock"} => \A p \in visited, q \in todo[t] : p < q

\* What holds of a request wherever it is.
RequestInv(t) ==
  LET c == cmd[t] IN
  /\ pc[t] # "done" => answer[t].outcome = "pending"
  /\ pc[t] \notin {"lookup", "done"} => Valid(c)
  /\ TermsHold(t)
  /\ ApprovalHolds(t)
  /\ RowsHeld(t)
  /\ InOrder(t)
  /\ pc[t] \in InFlight => Recorded(c, sales) = {} /\ Rivals(t) = {}

\* The count of an administrator is never behind the wrong PINs that were told, and
\* from the limit on the last of them has locked the PIN.
GuessInv(m) ==
  LET n == Len(guesses[m]) IN
  /\ n <= credentials[m].failures
  /\ n >= PinLimit => credentials[m].until = guesses[m][n] + PinLock
  /\ \A i \in DOMAIN guesses[m] :
       i > PinLimit => guesses[m][i] >= guesses[m][i - 1] + PinLock

IInv ==
  /\ TypeOK
  /\ \A t \in Requests : RequestInv(t)
  /\ \A m \in Admins : GuessInv(m)

-------------------------------------------------------------------------------
(* Words and types *)

\* SaleLedger reads the commands and prices as Sales does.
LEMMA SameWords ==
  /\ Ledger!Cell = Cell /\ Ledger!Entities = Entities /\ Ledger!Statuses = Statuses
  /\ \A c : Ledger!Valid(c) <=> Valid(c)
  /\ \A c : Ledger!Sold(c) = Sold(c)
  /\ \A c : Ledger!Context(c) = Context(c)
  /\ \A c : Ledger!Digest(c) = Digest(c)
  /\ \A c, p : Ledger!LineOf(c, p) = LineOf(c, p)
  /\ \A c, p : Ledger!CellOf(c, p) = CellOf(c, p)
  /\ \A c, tg, r : Ledger!PriceError(c, tg, r) = PriceError(c, tg, r)
  /\ \A c, tg, r : Ledger!NeedsPin(c, tg, r) <=> NeedsPin(c, tg, r)
  /\ \A c, tg, r : Ledger!SaleOf(c, tg, r) = SaleOf(c, tg, r)
  /\ \A c, tg, r, cr : Ledger!CredentialsAfter(c, tg, r, cr) = CredentialsAfter(c, tg, r, cr)
  /\ \A c, ss : Ledger!Recorded(c, ss) = Recorded(c, ss)
  /\ \A a, cr : Ledger!Accepts(a, cr) <=> Accepts(a, cr)
  /\ \A row, now : Ledger!Missed(row, now) = Missed(row, now)
  /\ \A e, st, sk : Ledger!StatusAfter(e, st, sk) = StatusAfter(e, st, sk)
  /\ \A e, tg : Ledger!TagsAfter(e, tg) = TagsAfter(e, tg)
  <1>1. /\ Ledger!Cell = Cell /\ Ledger!Entities = Entities /\ Ledger!Statuses = Statuses
        /\ \A c : Ledger!Sold(c) = Sold(c)
        /\ \A c, p : Ledger!LineOf(c, p) = LineOf(c, p)
        /\ \A c, p : Ledger!CellOf(c, p) = CellOf(c, p)
    BY DEF Cell, Ledger!Cell, Entities, Ledger!Entities, Statuses, Ledger!Statuses,
           Sold, Ledger!Sold, LineOf, Ledger!LineOf, CellOf, Ledger!CellOf
  <1>2. /\ \A c : Ledger!Valid(c) <=> Valid(c)
        /\ \A c : Ledger!Context(c) = Context(c)
        /\ \A c : Ledger!Digest(c) = Digest(c)
        /\ \A c, ss : Ledger!Recorded(c, ss) = Recorded(c, ss)
    BY <1>1 DEF Valid, Ledger!Valid, Context, Ledger!Context, Digest, Ledger!Digest,
           Range, Ledger!Range, Recorded, Ledger!Recorded
  <1>3. \A c, p, tg : Ledger!UnitPrice(c, p, tg) = UnitPrice(c, p, tg)
    BY <1>1 DEF UnitPrice, Ledger!UnitPrice
  <1>4. /\ \A c, tg : Ledger!Discounted(c, tg) <=> Discounted(c, tg)
        /\ \A c, tg, r : Ledger!Exceptional(c, tg, r) <=> Exceptional(c, tg, r)
        /\ \A c, tg : Ledger!Unsellable(c, tg) = Unsellable(c, tg)
    <2>1. \A c, tg : Ledger!Discounted(c, tg) <=> Discounted(c, tg)
      BY <1>1, <1>3 DEF Discounted, Ledger!Discounted
    <2>2. \A c, tg, r : Ledger!Exceptional(c, tg, r) <=> Exceptional(c, tg, r)
      BY <1>1, <1>3 DEF Exceptional, Ledger!Exceptional
    <2>3. \A c, tg : Ledger!Unsellable(c, tg) = Unsellable(c, tg)
      BY <1>3 DEF Unsellable, Ledger!Unsellable
    <2> QED
      BY <2>1, <2>2, <2>3
  <1>5. \A c, tg, r : Ledger!PriceError(c, tg, r) = PriceError(c, tg, r)
    <2> SUFFICES ASSUME NEW c, NEW tg, NEW r
                 PROVE  Ledger!PriceError(c, tg, r) = PriceError(c, tg, r)
      OBVIOUS
    <2>1. /\ Ledger!Unsellable(c, tg) = Unsellable(c, tg)
          /\ Ledger!Discounted(c, tg) <=> Discounted(c, tg)
          /\ Ledger!Exceptional(c, tg, r) <=> Exceptional(c, tg, r)
          /\ \A p : Ledger!UnitPrice(c, p, tg) = UnitPrice(c, p, tg)
      BY <1>3, <1>4
    <2> QED
      BY <2>1 DEF PriceError, Ledger!PriceError
  <1>6. /\ \A c, tg, r : Ledger!NeedsPin(c, tg, r) <=> NeedsPin(c, tg, r)
        /\ \A c, tg, r : Ledger!ApprovedBy(c, tg, r) = ApprovedBy(c, tg, r)
    BY <1>4 DEF NeedsPin, Ledger!NeedsPin, ApprovedBy, Ledger!ApprovedBy
  <1>7. /\ \A c, tg, r : Ledger!SaleOf(c, tg, r) = SaleOf(c, tg, r)
        /\ \A c, tg, r, cr :
             Ledger!CredentialsAfter(c, tg, r, cr) = CredentialsAfter(c, tg, r, cr)
    BY <1>1, <1>6 DEF SaleOf, Ledger!SaleOf, LinesOf, Ledger!LinesOf,
           CredentialsAfter, Ledger!CredentialsAfter
  <1>8. /\ \A a, cr : Ledger!Accepts(a, cr) <=> Accepts(a, cr)
        /\ \A row, now : Ledger!Missed(row, now) = Missed(row, now)
        /\ \A e, st, sk : Ledger!StatusAfter(e, st, sk) = StatusAfter(e, st, sk)
        /\ \A e, tg : Ledger!TagsAfter(e, tg) = TagsAfter(e, tg)
    BY <1>1 DEF Accepts, Ledger!Accepts, Missed, Ledger!Missed, StatusAfter,
           Ledger!StatusAfter, TagsAfter, Ledger!TagsAfter
  <1> QED
    BY <1>1, <1>2, <1>5, <1>6, <1>7, <1>8

LEMMA CommandParts ==
  ASSUME NEW c \in Commands
  PROVE  /\ c.key \in Keys /\ c.shop \in Warehouses /\ c.seller \in Members
         /\ c.approval \in Approval \cup {Nobody}
         /\ Sold(c) \subseteq Products
         /\ Context(c) \subseteq Entities
         /\ \A p \in Sold(c) : /\ CellOf(c, p) \in Cell
                               /\ LineOf(c, p).product = p
                               /\ LineOf(c, p).quantity \in Nat
  <1>1. c \in Command
    BY TradeAssumption
  <1>2. c.lines \in Seq(Line) /\ c.shop \in Warehouses
    BY <1>1 DEF Command
  <1>3. \A i \in DOMAIN c.lines : c.lines[i] \in Line
    BY <1>2
  <1>4. Sold(c) \subseteq Products
    BY <1>3 DEF Sold, Line
  <1>5. ASSUME NEW p \in Sold(c)
        PROVE  LineOf(c, p).product = p /\ LineOf(c, p).quantity \in Nat
    <2>1. PICK i \in DOMAIN c.lines : c.lines[i].product = p
      BY DEF Sold
    <2>2. \E j \in DOMAIN c.lines : c.lines[j].product = p /\ LineOf(c, p) = c.lines[j]
      BY <2>1 DEF LineOf
    <2> QED
      BY <1>3, <2>2 DEF Line
  <1> QED
    BY <1>1, <1>2, <1>4, <1>5 DEF Command, Context, Entities, Cell, CellOf

\* An approver that has to be asked is a member.
LEMMA ApproverIsMember ==
  ASSUME NEW c \in Commands, NEW tg, NEW r, NeedsPin(c, tg, r)
  PROVE  c.approval.approver \in Members
  BY CommandParts DEF NeedsPin, Approval

\* What it means that the prices of a command are in order.
LEMMA NoPriceError ==
  ASSUME NEW c, NEW tg, NEW r
  PROVE  PriceError(c, tg, r) = "none" <=>
           /\ Unsellable(c, tg) = {}
           /\ Discounted(c, tg) => c.reason
           /\ Exceptional(c, tg, r) /\ c.seller \notin Admins => c.approval # Nobody
  BY DEF PriceError

\* The prices, the approval and the lines of a sale come from the catalog rows of the
\* products it sells, and from no other.
LEMMA SameTags ==
  ASSUME NEW c, NEW f, NEW g, NEW r, \A p \in Sold(c) : f[p] = g[p]
  PROVE  /\ PriceError(c, f, r) = "none" <=> PriceError(c, g, r) = "none"
         /\ Exceptional(c, f, r) <=> Exceptional(c, g, r)
         /\ NeedsPin(c, f, r) <=> NeedsPin(c, g, r)
         /\ SaleOf(c, f, r) = SaleOf(c, g, r)
         /\ \A cr : CredentialsAfter(c, f, r, cr) = CredentialsAfter(c, g, r, cr)
         /\ LinesOf(c, f) = LinesOf(c, g)
  <1>1. \A p \in Sold(c) : UnitPrice(c, p, f) = UnitPrice(c, p, g)
    BY DEF UnitPrice
  <1>2. \A i \in DOMAIN c.lines : c.lines[i].product \in Sold(c)
    BY DEF Sold
  <1>3. /\ Discounted(c, f) <=> Discounted(c, g)
        /\ Exceptional(c, f, r) <=> Exceptional(c, g, r)
    BY <1>1 DEF Discounted, Exceptional
  <1>4. Unsellable(c, f) = Unsellable(c, g)
    BY <1>1, <1>2 DEF Unsellable
  <1>5. LinesOf(c, f) = LinesOf(c, g)
    BY DEF LinesOf
  <1> QED
    BY <1>3, <1>4, <1>5, NoPriceError DEF NeedsPin, SaleOf, ApprovedBy, CredentialsAfter

\* A request that has read the policy, and the prices.
Terms == [rate : 0 .. Whole, tags : [Products -> Tag]]

LEMMA TermsRead ==
  ASSUME terms \in [Requests -> Terms], NEW t \in Requests,
         NEW r \in 0 .. Whole, NEW g \in [Products -> Tag],
         \/ terms' = [terms EXCEPT ![t].rate = r] /\ g = terms[t].tags
         \/ terms' = [terms EXCEPT ![t].tags = g] /\ r = terms[t].rate
  PROVE  /\ terms' \in [Requests -> Terms]
         /\ terms'[t].rate = r /\ terms'[t].tags = g
         /\ \A u \in Requests \ {t} : terms'[u] = terms[u]
  <1> DEFINE x == [rate |-> r, tags |-> g]
  <1>1. terms[t] = [rate |-> terms[t].rate, tags |-> terms[t].tags]
    BY DEF Terms
  <1>2. terms' = [terms EXCEPT ![t] = x]
    BY <1>1
  <1>3. x \in Terms /\ x.rate = r /\ x.tags = g
    BY DEF Terms
  <1> HIDE DEF x
  <1> QED
    BY <1>2, <1>3

\* An ended transaction leaves the locks and the private writes in their types.
LEMMA ReleaseType ==
  ASSUME TypeOK, NEW t \in Requests, Release(t)
  PROVE  /\ terms' \in [Requests -> [rate : 0 .. Whole, tags : [Products -> Tag]]]
         /\ shares' \in [Requests -> SUBSET (Entities \cup {Org})]
         /\ holder' \in [Members -> Requests \cup {Nobody}]
         /\ asked' \in [Requests -> Nat]
         /\ todo' \in [Requests -> SUBSET Products]
         /\ owner' \in [Cell -> Requests \cup {Nobody}]
         /\ written' \in [Requests -> [Products -> Nat]]
  <1>1. NoTerms \in [rate : 0 .. Whole, tags : [Products -> Tag]]
    BY TradeAssumption DEF NoTerms, Tag
  <1>2. Nothing \in [Products -> Nat]
    BY DEF Nothing
  <1> QED
    BY <1>1, <1>2 DEF TypeOK, Release

LEMMA FinishType ==
  ASSUME TypeOK, NEW t \in Requests, NEW o \in Outcomes, NEW s \in Sale \cup {NoSale},
         Finish(t, o, s)
  PROVE  TypeOK'
  <1>1. answer' \in [Requests -> Answer] /\ pc' \in [Requests -> Steps]
    BY DEF TypeOK, Finish, Tell, Answer, Steps
  <1> QED
    BY <1>1, ReleaseType DEF TypeOK, Finish, catalog, books

LEMMA GotoType ==
  ASSUME TypeOK, NEW t \in Requests, NEW next \in Steps, Goto(t, next),
         terms' \in [Requests -> [rate : 0 .. Whole, tags : [Products -> Tag]]],
         shares' \in [Requests -> SUBSET (Entities \cup {Org})],
         holder' \in [Members -> Requests \cup {Nobody}],
         asked' \in [Requests -> Nat],
         todo' \in [Requests -> SUBSET Products],
         owner' \in [Cell -> Requests \cup {Nobody}],
         written' \in [Requests -> [Products -> Nat]],
         guesses' \in [Members -> Seq(Nat)]
  PROVE  TypeOK'
  BY DEF TypeOK, Goto, catalog, books

-------------------------------------------------------------------------------
(* The inductive invariant *)

\* What a step of request t leaves to the others: what they have read, hold and wrote.
Keeps(t) ==
  /\ UNCHANGED <<catalog, rate, clock, cmd>>
  /\ rows \subseteq rows'
  /\ \A u \in Requests \ {t} :
       /\ pc'[u] = pc[u] /\ answer'[u] = answer[u]
       /\ terms'[u] = terms[u] /\ shares'[u] = shares[u] /\ asked'[u] = asked[u]
       /\ todo'[u] = todo[u] /\ written'[u] = written[u]
       /\ \A m \in Members : holder[m] = u =>
            holder'[m] = u /\ credentials'[m] = credentials[m] /\ guesses'[m] = guesses[m]
       /\ \A x \in Cell :
            /\ owner'[x] = u <=> owner[x] = u
            /\ owner[x] = u => stock'[x] = stock[x] /\ (x \in rows' <=> x \in rows)
       /\ pc[u] \in InFlight => Recorded(cmd[u], sales') = Recorded(cmd[u], sales)
  /\ pc'[t] \in InFlight => pc[t] \in InFlight \/ Rivals(t) = {}

LEMMA OthersKeep ==
  ASSUME IInv, TypeOK', NEW t \in Requests, Keeps(t), RequestInv(t)',
         \A m \in Admins : GuessInv(m)'
  PROVE  IInv'
  <1>1. ASSUME NEW u \in Requests, u # t
        PROVE  RequestInv(u)'
    <2> DEFINE c == cmd[u]
    <2>1. /\ RequestInv(u) /\ TypeOK /\ c \in Commands /\ cmd'[u] = c
          /\ pc'[u] = pc[u] /\ answer'[u] = answer[u]
          /\ terms'[u] = terms[u] /\ shares'[u] = shares[u] /\ asked'[u] = asked[u]
          /\ todo'[u] = todo[u] /\ written'[u] = written[u]
          /\ status' = status /\ tags' = tags /\ rate' = rate /\ clock' = clock
          /\ rows \subseteq rows'
      BY <1>1 DEF IInv, TypeOK, Keeps, catalog
    <2>2. TermsHold(u)'
      BY <2>1 DEF RequestInv, TermsHold
    <2>3. ApprovalHolds(u)'
      <3>1. ApprovalHolds(u)
        BY <2>1 DEF RequestInv
      <3>2. (Needs(u)' <=> Needs(u)) /\ Approver(u)' = Approver(u)
        BY <2>1 DEF Needs, Approver
      <3>3. Needs(u) => Approver(u) \in Members
        BY <2>1, ApproverIsMember DEF Needs, Approver
      <3>4. Needs(u) /\ holder[Approver(u)] = u =>
              /\ holder'[Approver(u)] = u
              /\ credentials'[Approver(u)] = credentials[Approver(u)]
              /\ guesses'[Approver(u)] = guesses[Approver(u)]
        BY <1>1, <3>3 DEF Keeps
      <3> QED
        BY <2>1, <3>1, <3>2, <3>4 DEF ApprovalHolds, Accepts, Approver
    <2>4. \A x \in Cell :
            /\ owner'[x] = u <=> owner[x] = u
            /\ owner[x] = u => stock'[x] = stock[x] /\ (x \in rows' <=> x \in rows)
      BY <1>1 DEF Keeps
    <2>5. \A p \in Sold(c) : CellOf(c, p) \in Cell
      BY <2>1, CommandParts
    <2>6. RowsHeld(u)'
      <3>1. RowsHeld(u)
        BY <2>1 DEF RequestInv
      <3> QED
        BY <2>1, <2>4, <2>5, <3>1 DEF RowsHeld, Locked
    <2>7. InOrder(u)'
      <3>1. InOrder(u)
        BY <2>1 DEF RequestInv
      <3> QED
        BY <2>1, <2>4, <2>5, <3>1 DEF InOrder
    <2>8. pc[u] \in InFlight => Recorded(c, sales') = {} /\ Rivals(u)' = {}
      <3> SUFFICES ASSUME pc[u] \in InFlight
                   PROVE  Recorded(c, sales') = {} /\ Rivals(u)' = {}
        OBVIOUS
      <3>1. Recorded(c, sales) = {} /\ Rivals(u) = {}
        BY <2>1 DEF RequestInv
      <3>2. Recorded(c, sales') = {}
        BY <1>1, <3>1 DEF Keeps
      <3>3. SUFFICES ASSUME NEW w \in Requests \ {u}, pc'[w] \in InFlight,
                            cmd[w].key = c.key
                     PROVE  FALSE
        BY <2>1, <3>2 DEF Rivals, Keeps, InFlight
      <3>4. pc[w] \notin InFlight
        BY <3>1, <3>3 DEF Rivals, InFlight
      <3>5. w = t /\ Rivals(t) = {}
        BY <3>3, <3>4 DEF Keeps
      <3> QED
        BY <1>1, <3>3, <3>5 DEF Rivals, InFlight
    <2> QED
      BY <2>1, <2>2, <2>3, <2>6, <2>7, <2>8 DEF RequestInv
  <1> QED
    BY <1>1 DEF IInv

\* What ends a transaction is nobody else's.
LEMMA ReleaseKeeps ==
  ASSUME TypeOK, NEW t \in Requests, Release(t)
  PROVE  /\ \A u \in Requests \ {t} :
              /\ terms'[u] = terms[u] /\ shares'[u] = shares[u] /\ asked'[u] = asked[u]
              /\ todo'[u] = todo[u] /\ written'[u] = written[u]
              /\ \A m \in Members : holder[m] = u => holder'[m] = u
              /\ \A x \in Cell : owner'[x] = u <=> owner[x] = u
         /\ \A x \in Cell : owner'[x] # t
  BY PartyAssumption DEF TypeOK, Release

\* A request that has returned or rolled back relies on nothing.
LEMMA AtRest ==
  ASSUME NEW t \in Requests, pc'[t] \in {"done", "reread"}, \A x \in Cell : owner'[x] # t,
         pc'[t] = "reread" => answer'[t].outcome = "pending" /\ Valid(cmd'[t])
  PROVE  RequestInv(t)'
  BY DEF RequestInv, TermsHold, ApprovalHolds, RowsHeld, InOrder, Reading, Priced, Approved,
         Locked, InFlight

LEMMA FinishInv ==
  ASSUME IInv, NEW t \in Requests, NEW o \in Outcomes, NEW s \in Sale \cup {NoSale},
         Finish(t, o, s)
  PROVE  IInv'
  <1>1. TypeOK'
    BY FinishType DEF IInv
  <1>2. Release(t) /\ pc'[t] = "done"
    BY DEF Finish, Tell, IInv, TypeOK
  <1>3. Keeps(t)
    BY <1>2, ReleaseKeeps DEF Keeps, Finish, Tell, IInv, TypeOK, books, InFlight
  <1>4. RequestInv(t)'
    BY <1>2, AtRest, ReleaseKeeps DEF IInv
  <1>5. \A m \in Admins : GuessInv(m)'
    BY DEF IInv, GuessInv, Finish
  <1> QED
    BY <1>1, <1>3, <1>4, <1>5, OthersKeep

LEMMA AnsweredInv ==
  ASSUME IInv, NEW t \in Requests, Answered(t)
  PROVE  IInv'
  <1>1. PICK s \in Recorded(cmd[t], sales) :
          Finish(t, "replayed", s) \/ Finish(t, "conflict", NoSale)
    BY DEF Answered
  <1>2. s \in Sale
    BY DEF IInv, TypeOK, Recorded
  <1> QED
    BY <1>1, <1>2, FinishInv DEF Outcomes

\* A request that goes on and takes only what is free keeps the others as they are.
LEMMA GotoKeeps ==
  ASSUME TypeOK, NEW t \in Requests, NEW next \in Steps, Goto(t, next),
         \A u \in Requests \ {t} :
           /\ terms'[u] = terms[u] /\ shares'[u] = shares[u] /\ asked'[u] = asked[u]
           /\ todo'[u] = todo[u] /\ written'[u] = written[u]
           /\ \A m \in Members : holder[m] = u => holder'[m] = u /\ guesses'[m] = guesses[m]
           /\ \A x \in Cell : owner'[x] = u <=> owner[x] = u,
         next \in InFlight => pc[t] \in InFlight \/ Rivals(t) = {}
  PROVE  /\ Keeps(t)
         /\ pc'[t] = next /\ answer'[t] = answer[t] /\ cmd' = cmd
         /\ UNCHANGED <<status, tags, rate, credentials, clock, stock, issues, sales, rows>>
  BY DEF TypeOK, Goto, Keeps, catalog, books

\* The statements that read.

LEMMA LookupInv ==
  ASSUME IInv, NEW t \in Requests, Lookup(t)
  PROVE  IInv'
  <1>0. TypeOK /\ RequestInv(t) /\ pc[t] = "lookup"
    BY DEF IInv, Lookup
  <1>1. CASE Finish(t, "invalid", NoSale)
    BY <1>1, FinishInv DEF Outcomes
  <1>2. CASE Answered(t)
    BY <1>2, AnsweredInv
  <1>3. CASE Valid(cmd[t]) /\ Goto(t, "policy") /\ UNCHANGED <<locks, guesses>>
    <2>1. TypeOK'
      BY <1>0, <1>3, GotoType DEF TypeOK, locks, Steps
    <2>2. Keeps(t) /\ pc'[t] = "policy" /\ answer'[t] = answer[t] /\ cmd' = cmd
      BY <1>0, <1>3, GotoKeeps DEF locks, Steps, InFlight
    <2>3. RequestInv(t)'
      BY <1>0, <1>3, <2>2
      DEF RequestInv, TermsHold, ApprovalHolds, RowsHeld, InOrder, Reading, Priced,
          Approved, Locked, InFlight, locks
    <2>4. \A m \in Admins : GuessInv(m)'
      BY <1>3 DEF IInv, GuessInv, Goto
    <2> QED
      BY <2>1, <2>2, <2>3, <2>4, OthersKeep
  <1> QED
    BY <1>1, <1>2, <1>3 DEF Lookup

LEMMA ReadPolicyInv ==
  ASSUME IInv, NEW t \in Requests, ReadPolicy(t)
  PROVE  IInv'
  <1>0. /\ TypeOK /\ RequestInv(t) /\ pc[t] = "policy"
        /\ shares' = [shares EXCEPT ![t] = @ \cup {Org}]
        /\ terms' = [terms EXCEPT ![t].rate = rate]
        /\ Goto(t, "context")
        /\ UNCHANGED <<holder, asked, todo, owner, written, guesses>>
    BY DEF IInv, ReadPolicy, Share
  <1>1. /\ terms' \in [Requests -> [rate : 0 .. Whole, tags : [Products -> Tag]]]
        /\ terms'[t].rate = rate
        /\ shares' \in [Requests -> SUBSET (Entities \cup {Org})]
    <2>1. /\ terms' \in [Requests -> [rate : 0 .. Whole, tags : [Products -> Tag]]]
          /\ terms'[t].rate = rate
      <3>1. /\ terms \in [Requests -> Terms] /\ rate \in 0 .. Whole
            /\ terms[t].tags \in [Products -> Tag]
        BY <1>0 DEF TypeOK, Terms
      <3> QED
        BY <1>0, <3>1, TermsRead DEF Terms
    <2>2. shares' \in [Requests -> SUBSET (Entities \cup {Org})]
      BY <1>0 DEF TypeOK
    <2> QED
      BY <2>1, <2>2
  <1>2. TypeOK'
    BY <1>0, <1>1, GotoType DEF TypeOK, Steps
  <1>3. /\ Keeps(t) /\ pc'[t] = "context" /\ answer'[t] = answer[t] /\ cmd' = cmd
        /\ rate' = rate
    <2>1. \A u \in Requests \ {t} : terms'[u] = terms[u] /\ shares'[u] = shares[u]
      BY <1>0 DEF TypeOK
    <2> QED
      BY <1>0, <2>1, GotoKeeps DEF Steps, InFlight
  <1>4. RequestInv(t)'
    BY <1>0, <1>1, <1>3
    DEF RequestInv, TermsHold, ApprovalHolds, RowsHeld, InOrder, Reading, Priced,
        Approved, Locked, InFlight, TypeOK
  <1>5. \A m \in Admins : GuessInv(m)'
    BY <1>0 DEF IInv, GuessInv, Goto
  <1> QED
    BY <1>2, <1>3, <1>4, <1>5, OthersKeep

LEMMA ReadContextInv ==
  ASSUME IInv, NEW t \in Requests, ReadContext(t)
  PROVE  IInv'
  <1> DEFINE c == cmd[t]
             r == terms[t].rate
             next == IF NeedsPin(c, tags, r) THEN "approve" ELSE "seed"
             left == IF NeedsPin(c, tags, r) THEN {} ELSE Sold(c)
  <1>0. /\ TypeOK /\ RequestInv(t) /\ pc[t] = "context"
        /\ c \in Commands /\ Sold(c) \subseteq Products /\ Context(c) \subseteq Entities
    BY CommandParts DEF IInv, ReadContext, TypeOK
  <1>1. CASE Finish(t, "not_found", NoSale) \/ Finish(t, "inactive", NoSale)
    BY <1>1, FinishInv DEF Outcomes
  <1>2. CASE PriceError(c, tags, r) # "none" /\ Finish(t, PriceError(c, tags, r), NoSale)
    <2>1. PriceError(c, tags, r) \in Outcomes \cup {"none"}
      BY DEF PriceError, Outcomes
    <2>2. PriceError(c, tags, r) # "none" => PriceError(c, tags, r) \in Outcomes
      BY <2>1
    <2> QED
      BY <1>2, <2>2, FinishInv
  <1>3. CASE /\ \A e \in Context(c) : status[e] = "active"
             /\ PriceError(c, tags, r) = "none"
             /\ Share(t, Context(c))
             /\ terms' = [terms EXCEPT ![t].tags = tags]
             /\ Goto(t, next)
             /\ todo' = [todo EXCEPT ![t] = left]
             /\ UNCHANGED <<holder, asked, owner, written, guesses>>
    <2>1. /\ shares' \in [Requests -> SUBSET (Entities \cup {Org})]
          /\ Context(c) \subseteq shares'[t] /\ (Org \in shares[t] => Org \in shares'[t])
          /\ \A u \in Requests \ {t} : shares'[u] = shares[u]
      BY <1>0, <1>3 DEF TypeOK, Share
    <2>2. /\ terms' \in [Requests -> [rate : 0 .. Whole, tags : [Products -> Tag]]]
          /\ terms'[t].rate = r /\ terms'[t].tags = tags
          /\ \A u \in Requests \ {t} : terms'[u] = terms[u]
      <3>1. /\ terms \in [Requests -> Terms] /\ r \in 0 .. Whole
            /\ tags \in [Products -> Tag]
        BY <1>0 DEF TypeOK, Terms
      <3> QED
        BY <1>3, <3>1, TermsRead DEF Terms
    <2>3. /\ todo' \in [Requests -> SUBSET Products]
          /\ todo'[t] = left
          /\ \A u \in Requests \ {t} : todo'[u] = todo[u]
      BY <1>0, <1>3 DEF TypeOK
    <2>4. next \in {"approve", "seed"}
      OBVIOUS
    <2>5. TypeOK'
      BY <1>0, <1>3, <2>1, <2>2, <2>3, <2>4, GotoType DEF TypeOK, Steps
    <2>6. /\ Keeps(t) /\ pc'[t] = next /\ answer'[t] = answer[t] /\ cmd' = cmd
          /\ UNCHANGED <<status, tags, rate, rows>>
      BY <1>0, <1>3, <2>1, <2>2, <2>3, <2>4, GotoKeeps DEF Steps, InFlight
    <2>7. TermsHold(t)'
      BY <1>0, <1>3, <2>1, <2>2, <2>6 DEF RequestInv, TermsHold, Reading
    <2>8. ApprovalHolds(t)'
      BY <2>2, <2>4, <2>6 DEF ApprovalHolds, Needs, Approved
    <2>9. RowsHeld(t)' /\ InOrder(t)'
      BY <1>0, <1>3, <2>3, <2>4, <2>6 DEF RequestInv, RowsHeld, InOrder, Locked
    <2>10. RequestInv(t)'
      BY <1>0, <2>4, <2>6, <2>7, <2>8, <2>9 DEF RequestInv, InFlight
    <2>11. \A m \in Admins : GuessInv(m)'
      BY <1>3 DEF IInv, GuessInv, Goto
    <2> QED
      BY <2>5, <2>6, <2>10, <2>11, OthersKeep
  <1> QED
    BY <1>1, <1>2, <1>3 DEF ReadContext

\* The approver's membership is taken from nobody, so its holder may rely on it.
LEMMA ApproveInv ==
  ASSUME IInv, NEW t \in Requests, Approve(t)
  PROVE  IInv'
  <1> DEFINE c == cmd[t]
             m == c.approval.approver
  <1>0. /\ TypeOK /\ RequestInv(t) /\ pc[t] = "approve" /\ Needs(t)
        /\ c \in Commands /\ Sold(c) \subseteq Products
        /\ m \in Members /\ m = Approver(t) /\ Mine(t, m)
    <2>1. TypeOK /\ RequestInv(t) /\ pc[t] = "approve" /\ Mine(t, m) /\ c \in Commands
      BY DEF IInv, Approve, TypeOK
    <2>2. Needs(t)
      BY <2>1 DEF RequestInv, ApprovalHolds
    <2> QED
      BY <2>1, <2>2, CommandParts, ApproverIsMember DEF Needs, Approver
  <1>1. CASE Finish(t, "pin_locked", NoSale)
    BY <1>1, FinishInv DEF Outcomes
  <1>2. ASSUME holder' = [holder EXCEPT ![m] = t]
        PROVE  /\ holder' \in [Members -> Requests \cup {Nobody}]
               /\ holder'[m] = t
               /\ \A u \in Requests \ {t}, n \in Members :
                    holder[n] = u => holder'[n] = u /\ n # m
    BY <1>0, <1>2, PartyAssumption DEF TypeOK, Mine
  <1>3. CASE /\ credentials[m].until <= clock
             /\ Accepts(c.approval, credentials)
             /\ holder' = [holder EXCEPT ![m] = t]
             /\ todo' = [todo EXCEPT ![t] = Sold(c)]
             /\ guesses' = [guesses EXCEPT ![m] = << >>]
             /\ Goto(t, "seed")
             /\ UNCHANGED <<terms, shares, asked, owner, written>>
    <2>1. /\ todo' \in [Requests -> SUBSET Products] /\ todo'[t] = Sold(c)
          /\ \A u \in Requests \ {t} : todo'[u] = todo[u]
          /\ guesses' \in [Members -> Seq(Nat)] /\ guesses'[m] = << >>
          /\ \A n \in Members \ {m} : guesses'[n] = guesses[n]
      BY <1>0, <1>3 DEF TypeOK
    <2>2. TypeOK'
      BY <1>0, <1>2, <1>3, <2>1, GotoType DEF TypeOK, Steps
    <2>3. /\ Keeps(t) /\ pc'[t] = "seed" /\ answer'[t] = answer[t] /\ cmd' = cmd
          /\ UNCHANGED <<status, tags, rate, credentials, clock, rows>>
      BY <1>0, <1>2, <1>3, <2>1, GotoKeeps DEF Steps, InFlight
    <2>4. TermsHold(t)'
      BY <1>0, <1>3, <2>3 DEF RequestInv, TermsHold, Reading, Priced
    <2>5. ApprovalHolds(t)'
      BY <1>0, <1>2, <1>3, <2>1, <2>3 DEF ApprovalHolds, Needs, Approver
    <2>6. RowsHeld(t)' /\ InOrder(t)'
      BY <1>0, <1>3, <2>1, <2>3 DEF RequestInv, RowsHeld, InOrder, Locked
    <2>7. RequestInv(t)'
      BY <1>0, <2>3, <2>4, <2>5, <2>6 DEF RequestInv, InFlight
    <2>8. ASSUME NEW n \in Admins
          PROVE  GuessInv(n)'
      <3>1. GuessInv(n) /\ n \in Members /\ credentials' = credentials
        BY <2>3, PartyAssumption DEF IInv
      <3>2. CASE n = m
        <4>1. Len(guesses'[n]) = 0 /\ DOMAIN guesses'[n] = {} /\ credentials[n].failures \in Nat
          BY <1>0, <2>1, <3>2 DEF TypeOK, Credential
        <4> QED
          BY <3>1, <4>1, NumberAssumption DEF GuessInv
      <3>3. CASE n # m
        BY <2>1, <3>1, <3>3 DEF GuessInv
      <3> QED
        BY <3>2, <3>3
    <2> QED
      BY <2>2, <2>3, <2>7, <2>8, OthersKeep
  <1>4. CASE /\ credentials[m].until <= clock
             /\ ~Accepts(c.approval, credentials)
             /\ holder' = [holder EXCEPT ![m] = t]
             /\ asked' = [asked EXCEPT ![t] = clock]
             /\ Goto(t, "miss")
             /\ UNCHANGED <<terms, shares, todo, owner, written, guesses>>
    <2>1. /\ asked' \in [Requests -> Nat] /\ asked'[t] = clock
          /\ \A u \in Requests \ {t} : asked'[u] = asked[u]
      BY <1>0, <1>4 DEF TypeOK
    <2>2. TypeOK'
      BY <1>0, <1>2, <1>4, <2>1, GotoType DEF TypeOK, Steps
    <2>3. /\ Keeps(t) /\ pc'[t] = "miss" /\ answer'[t] = answer[t] /\ cmd' = cmd
          /\ UNCHANGED <<status, tags, rate, credentials, clock, rows>>
      BY <1>0, <1>2, <1>4, <2>1, GotoKeeps DEF Steps, InFlight
    <2>4. TermsHold(t)'
      BY <1>0, <1>4, <2>3 DEF RequestInv, TermsHold, Reading, Priced
    <2>5. ApprovalHolds(t)'
      BY <1>0, <1>2, <1>4, <2>1, <2>3 DEF ApprovalHolds, Needs, Approver, Approved, TypeOK
    <2>6. RowsHeld(t)' /\ InOrder(t)'
      BY <1>0, <1>4, <2>3 DEF RequestInv, RowsHeld, InOrder, Locked
    <2>7. RequestInv(t)'
      BY <1>0, <2>3, <2>4, <2>5, <2>6 DEF RequestInv, InFlight
    <2>8. \A n \in Admins : GuessInv(n)'
      BY <1>4, <2>3 DEF IInv, GuessInv
    <2> QED
      BY <2>2, <2>3, <2>7, <2>8, OthersKeep
  <1> QED
    BY <1>1, <1>3, <1>4 DEF Approve

\* The columns that a wrong PIN leaves.
LEMMA MissedRow ==
  ASSUME NEW row \in Credential, NEW now \in Nat
  PROVE  /\ Missed(row, now) \in Credential
         /\ Missed(row, now).failures = row.failures + 1
         /\ Missed(row, now).until =
              IF row.failures + 1 >= PinLimit THEN now + PinLock ELSE 0
  <1>1. \A x, y \in Nat : [row EXCEPT !.failures = x, !.until = y] \in Credential
    BY DEF Credential
  <1>2. /\ row.failures + 1 \in Nat
        /\ (IF row.failures + 1 >= PinLimit THEN now + PinLock ELSE 0) \in Nat
    BY NumberAssumption DEF Credential
  <1>3. Missed(row, now) \in Credential
    BY <1>1, <1>2 DEF Missed
  <1>4. /\ Missed(row, now).failures = row.failures + 1
        /\ Missed(row, now).until =
             IF row.failures + 1 >= PinLimit THEN now + PinLock ELSE 0
    BY DEF Missed, Credential
  <1> QED
    BY <1>3, <1>4

\* The count of a wrong PIN starts from what its request has read, since it holds the
\* membership.
LEMMA CountMissInv ==
  ASSUME IInv, NEW t \in Requests, CountMiss(t)
  PROVE  IInv'
  <1> DEFINE m == Approver(t)
  <1>0. /\ TypeOK /\ RequestInv(t) /\ pc[t] = "miss" /\ Needs(t)
        /\ holder[m] = t /\ credentials[m].until <= asked[t] /\ m \in Members
        /\ asked[t] \in Nat
    <2>1. TypeOK /\ RequestInv(t) /\ pc[t] = "miss" /\ cmd[t] \in Commands
      BY DEF IInv, CountMiss, TypeOK
    <2>2. Needs(t) /\ holder[m] = t /\ credentials[m].until <= asked[t]
      BY <2>1 DEF RequestInv, ApprovalHolds
    <2> QED
      BY <2>1, <2>2, ApproverIsMember DEF Needs, Approver, TypeOK
  <1>1. /\ credentials' =
             IF m \in Admins THEN [credentials EXCEPT ![m] = Missed(@, asked[t])]
             ELSE credentials
        /\ guesses' = [guesses EXCEPT ![m] = Append(@, asked[t])]
        /\ Release(t)
        /\ UNCHANGED <<catalog, rate, clock, books, cmd>>
    BY DEF CountMiss, Approver
  <1>2. PICK o \in {"pin_invalid", "unavailable"} : Tell(t, o, NoSale)
    BY DEF CountMiss
  <1>3. /\ credentials[m] \in Credential
        /\ Missed(credentials[m], asked[t]) \in Credential
        /\ Missed(credentials[m], asked[t]).failures = credentials[m].failures + 1
        /\ Missed(credentials[m], asked[t]).until =
             IF credentials[m].failures + 1 >= PinLimit THEN asked[t] + PinLock ELSE 0
    <2>1. credentials[m] \in Credential
      BY <1>0 DEF TypeOK
    <2> QED
      BY <1>0, <2>1, MissedRow
  <1>4. /\ credentials' \in [Members -> Credential]
        /\ guesses' \in [Members -> Seq(Nat)]
        /\ \A n \in Members \ {m} : credentials'[n] = credentials[n] /\ guesses'[n] = guesses[n]
    <2>1. Append(guesses[m], asked[t]) \in Seq(Nat)
      BY <1>0 DEF TypeOK
    <2> QED
      BY <1>0, <1>1, <1>3, <2>1 DEF TypeOK
  <1>5. TypeOK'
    <2>1. answer' \in [Requests -> Answer] /\ pc' \in [Requests -> Steps]
      BY <1>0, <1>2 DEF TypeOK, Tell, Answer, Outcomes, Steps
    <2> QED
      BY <1>0, <1>1, <1>4, <2>1, ReleaseType DEF TypeOK, catalog, books
  <1>6. pc'[t] = "done" /\ \A u \in Requests \ {t} : pc'[u] = pc[u] /\ answer'[u] = answer[u]
    BY <1>0, <1>2 DEF TypeOK, Tell
  <1>7. Keeps(t)
    <2>1. \A u \in Requests \ {t}, n \in Members : holder[n] = u => n # m
      BY <1>0
    <2> QED
      BY <1>0, <1>1, <1>4, <1>6, <2>1, ReleaseKeeps DEF Keeps, books, InFlight
  <1>8. RequestInv(t)'
    BY <1>0, <1>1, <1>6, ReleaseKeeps, AtRest
  <1>9. ASSUME NEW n \in Admins
        PROVE  GuessInv(n)'
    <2>1. GuessInv(n) /\ n \in Members
      BY PartyAssumption DEF IInv
    <2>2. CASE n = m
      <3> DEFINE g == guesses[m]
                 k == Len(g)
      <3>1. /\ g \in Seq(Nat) /\ k \in Nat
            /\ credentials[m].failures \in Nat /\ credentials[m].until \in Nat
        BY <1>0, <1>3 DEF TypeOK, Credential
      <3>2. /\ guesses'[m] = Append(g, asked[t])
            /\ credentials'[m] = Missed(credentials[m], asked[t])
        BY <1>0, <1>1, <2>2 DEF TypeOK
      <3>3. /\ k <= credentials[m].failures
            /\ k >= PinLimit => credentials[m].until = g[k] + PinLock
            /\ \A i \in DOMAIN g : i > PinLimit => g[i] >= g[i - 1] + PinLock
        BY <2>1, <2>2 DEF GuessInv
      <3>4. /\ Len(guesses'[m]) = k + 1
            /\ DOMAIN guesses'[m] = 1 .. k + 1
            /\ guesses'[m][k + 1] = asked[t]
            /\ \A i \in 1 .. k : guesses'[m][i] = g[i] /\ i \in DOMAIN g
        BY <1>0, <3>1, <3>2
      <3>5. /\ credentials'[m].failures = credentials[m].failures + 1
            /\ credentials'[m].until =
                 IF credentials[m].failures + 1 >= PinLimit THEN asked[t] + PinLock ELSE 0
        BY <1>3, <3>2
      <3>6. ASSUME NEW i \in 1 .. k + 1, i > PinLimit
            PROVE  guesses'[m][i] >= guesses'[m][i - 1] + PinLock
        <4>1. CASE i = k + 1
          <5>1. k >= PinLimit /\ k \in 1 .. k
            BY <3>1, <3>6, <4>1, NumberAssumption
          <5> QED
            BY <1>0, <3>3, <3>4, <4>1, <5>1
        <4>2. CASE i \in 1 .. k
          <5>1. i - 1 \in 1 .. k
            BY <3>1, <3>6, <4>2, NumberAssumption
          <5> QED
            BY <3>3, <3>4, <3>6, <4>2, <5>1
        <4> QED
          BY <3>1, <4>1, <4>2
      <3>7. k + 1 >= PinLimit => credentials'[m].until = guesses'[m][k + 1] + PinLock
        BY <3>1, <3>3, <3>4, <3>5, NumberAssumption
      <3> QED
        BY <2>2, <3>1, <3>3, <3>4, <3>5, <3>6, <3>7 DEF GuessInv
    <2>3. CASE n # m
      BY <1>4, <2>1, <2>3 DEF GuessInv
    <2> QED
      BY <2>2, <2>3
  <1> QED
    BY <1>5, <1>7, <1>8, <1>9, OthersKeep

\* The statements that lock rows.

\* A row is taken from nobody else.
LEMMA TakeRow ==
  ASSUME TypeOK, NEW t \in Requests, NEW x \in Cell,
         \/ UNCHANGED owner
         \/ Free(t, x) /\ owner' = [owner EXCEPT ![x] = t]
  PROVE  /\ owner' \in [Cell -> Requests \cup {Nobody}]
         /\ \A u \in Requests \ {t}, y \in Cell : owner'[y] = u <=> owner[y] = u
         /\ \A y \in Cell : owner[y] = t => owner'[y] = t
         /\ \A y \in Cell : owner'[y] = t => owner[y] = t \/ (y = x /\ owner' # owner)
         /\ owner' # owner => owner'[x] = t
  <1>1. owner \in [Cell -> Requests \cup {Nobody}] /\ Nobody \notin Requests
    BY PartyAssumption DEF TypeOK
  <1>2. CASE UNCHANGED owner
    BY <1>1, <1>2
  <1>3. CASE owner[x] \in {t, Nobody} /\ owner' = [owner EXCEPT ![x] = t]
    BY <1>1, <1>3
  <1> QED
    BY <1>2, <1>3 DEF Free

\* The row that comes next is the first of those that are left.
LEMMA NextRow ==
  ASSUME TypeOK, NEW t \in Requests, RequestInv(t), pc[t] \in {"seed", "lock"},
         NEW p \in Foremost(todo[t])
  PROVE  /\ p \in Sold(cmd[t]) /\ p \in Products /\ CellOf(cmd[t], p) \in Cell
         /\ \A q \in todo[t] \ {p} : p < q
         /\ \A q \in Sold(cmd[t]) \ todo[t] : q < p
  <1>1. cmd[t] \in Commands /\ p \in todo[t] /\ todo[t] \subseteq Sold(cmd[t])
    BY DEF TypeOK, Foremost, RequestInv, RowsHeld
  <1>2. Sold(cmd[t]) \subseteq Products /\ Products \subseteq Nat
    BY <1>1, CommandParts, PartyAssumption
  <1>3. ASSUME NEW q \in todo[t] \ {p}
        PROVE  p < q
    <2>1. p <= q /\ p \in Nat /\ q \in Nat
      BY <1>1, <1>2 DEF Foremost
    <2> QED
      BY <2>1
  <1>4. \A q \in Sold(cmd[t]) \ todo[t] : q < p
    BY <1>1 DEF RequestInv, InOrder
  <1> QED
    BY <1>1, <1>2, <1>3, <1>4, CommandParts

\* What a visit leaves to do.
LEMMA VisitedType ==
  ASSUME TypeOK, NEW t \in Requests, NEW ps \in SUBSET Products,
         todo' = [todo EXCEPT ![t] = ps]
  PROVE  /\ todo' \in [Requests -> SUBSET Products]
         /\ todo'[t] = ps
         /\ \A u \in Requests \ {t} : todo'[u] = todo[u]
  BY DEF TypeOK

LEMMA SeedRowInv ==
  ASSUME IInv, NEW t \in Requests, SeedRow(t)
  PROVE  IInv'
  <1> DEFINE c == cmd[t]
  <1>0. /\ TypeOK /\ RequestInv(t) /\ pc[t] = "seed"
        /\ c \in Commands /\ Sold(c) \subseteq Products /\ todo[t] \subseteq Sold(c)
        /\ UNCHANGED <<terms, shares, holder, asked, written, guesses>>
    <2>1. TypeOK /\ RequestInv(t) /\ pc[t] = "seed" /\ c \in Commands
      BY DEF IInv, SeedRow, TypeOK
    <2> QED
      BY <2>1, CommandParts DEF SeedRow, RequestInv, RowsHeld
  <1>1. PICK p \in Foremost(todo[t]) :
          /\ \/ CellOf(c, p) \in rows /\ UNCHANGED owner
             \/ /\ CellOf(c, p) \notin rows /\ Free(t, CellOf(c, p))
                /\ owner' = [owner EXCEPT ![CellOf(c, p)] = t]
          /\ Visited(t, p, "seed", "lock", Sold(c))
    BY DEF SeedRow
  <1> DEFINE x == CellOf(c, p)
  <1>2. /\ p \in Sold(c) /\ p \in Products /\ x \in Cell /\ p \in todo[t]
        /\ \A q \in todo[t] \ {p} : p < q
        /\ \A q \in Sold(c) \ todo[t] : q < p
        /\ x[1] = p
    BY <1>0, NextRow DEF Foremost, CellOf
  <1>3. /\ owner' \in [Cell -> Requests \cup {Nobody}]
        /\ \A u \in Requests \ {t}, y \in Cell : owner'[y] = u <=> owner[y] = u
        /\ \A y \in Cell : owner[y] = t => owner'[y] = t
        /\ \A y \in Cell : owner'[y] = t => owner[y] = t \/ (y = x /\ owner' # owner)
        /\ owner' # owner => owner'[x] = t
    BY <1>0, <1>1, <1>2, TakeRow
  <1>4. \A y \in Cell : owner'[y] = t =>
          y[1] \in Sold(c) /\ y = CellOf(c, y[1]) /\ y \notin rows
            /\ y[1] \in (Sold(c) \ todo[t]) \cup {p}
    BY <1>0, <1>1, <1>2, <1>3 DEF RequestInv, InOrder
  <1>5. \A q \in (Sold(c) \ todo[t]) \cup {p} : CellOf(c, q) \in rows \/ owner'[CellOf(c, q)] = t
    <2>1. \A q \in Sold(c) \ todo[t] :
            /\ CellOf(c, q) \in Cell
            /\ CellOf(c, q) \in rows \/ owner[CellOf(c, q)] = t
      BY <1>0, CommandParts DEF RequestInv, InOrder
    <2>2. x \in rows \/ owner'[x] = t
      BY <1>0, <1>1, <1>2 DEF TypeOK
    <2> QED
      BY <1>3, <2>1, <2>2
  <1>6. ASSUME NEW next \in {"seed", "lock"}, NEW ps \in SUBSET Sold(c), Goto(t, next),
               todo' = [todo EXCEPT ![t] = ps],
               next = "seed" => ps = todo[t] \ {p},
               next = "lock" => ps = Sold(c) /\ todo[t] = {p}
        PROVE  IInv'
    <2>1. /\ todo' \in [Requests -> SUBSET Products] /\ todo'[t] = ps
          /\ \A u \in Requests \ {t} : todo'[u] = todo[u]
      BY <1>0, <1>6, VisitedType
    <2>2. TypeOK'
      <3>1. next \in Steps
        BY <1>6 DEF Steps
      <3>2. /\ terms' \in [Requests -> [rate : 0 .. Whole, tags : [Products -> Tag]]]
            /\ shares' \in [Requests -> SUBSET (Entities \cup {Org})]
            /\ holder' \in [Members -> Requests \cup {Nobody}]
            /\ asked' \in [Requests -> Nat]
            /\ written' \in [Requests -> [Products -> Nat]]
            /\ guesses' \in [Members -> Seq(Nat)]
        BY <1>0 DEF TypeOK
      <3> QED
        BY <1>0, <1>3, <1>6, <2>1, <3>1, <3>2, GotoType
    <2>3. /\ Keeps(t) /\ pc'[t] = next /\ answer'[t] = answer[t] /\ cmd' = cmd
          /\ UNCHANGED <<status, tags, rate, credentials, clock, rows>>
      BY <1>0, <1>3, <1>6, <2>1, GotoKeeps DEF Steps, InFlight
    <2>4. TermsHold(t)' /\ ApprovalHolds(t)'
      BY <1>0, <1>6, <2>3
      DEF RequestInv, TermsHold, ApprovalHolds, Needs, Approver, Reading, Priced, Approved
    <2>5. RowsHeld(t)'
      BY <1>6, <2>1, <2>3 DEF RowsHeld, Locked
    <2>6. InOrder(t)'
      <3>1. CASE next = "seed"
        <4>1. Sold(c) \ todo'[t] = (Sold(c) \ todo[t]) \cup {p}
          BY <1>2, <1>6, <2>1, <3>1
        <4>2. \A q \in (Sold(c) \ todo[t]) \cup {p}, r \in todo[t] \ {p} : q < r
          <5>1. \A q \in Sold(c) \ todo[t], r \in todo[t] : q < r
            BY <1>0 DEF RequestInv, InOrder
          <5> QED
            BY <1>2, <5>1
        <4> QED
          BY <1>4, <1>5, <1>6, <2>1, <2>3, <3>1, <4>1, <4>2 DEF InOrder
      <3>2. CASE next = "lock"
        <4>1. (Sold(c) \ todo[t]) \cup {p} = Sold(c) /\ Sold(c) \ todo'[t] = {}
          BY <1>2, <1>6, <2>1, <3>2
        <4> QED
          BY <1>4, <1>5, <2>3, <3>2, <4>1 DEF InOrder
      <3> QED
        BY <1>6, <3>1, <3>2
    <2>7. RequestInv(t)'
      BY <1>0, <1>6, <2>3, <2>4, <2>5, <2>6 DEF RequestInv, InFlight
    <2>8. \A m \in Admins : GuessInv(m)'
      BY <1>0, <2>3 DEF IInv, GuessInv
    <2> QED
      BY <2>2, <2>3, <2>7, <2>8, OthersKeep
  <1>7. CASE todo[t] = {p}
    BY <1>1, <1>6, <1>7 DEF Visited
  <1>8. CASE todo[t] # {p}
    <2>1. todo' = [todo EXCEPT ![t] = todo[t] \ {p}]
      BY <1>0, <1>1, <1>8 DEF Visited, TypeOK
    <2> QED
      BY <1>0, <1>1, <1>6, <1>8, <2>1 DEF Visited
  <1> QED
    BY <1>7, <1>8

LEMMA LockRowInv ==
  ASSUME IInv, NEW t \in Requests, LockRow(t)
  PROVE  IInv'
  <1> DEFINE c == cmd[t]
  <1>0. /\ TypeOK /\ RequestInv(t) /\ pc[t] = "lock"
        /\ c \in Commands /\ Sold(c) \subseteq Products /\ todo[t] \subseteq Sold(c)
        /\ UNCHANGED <<terms, shares, holder, asked, written, guesses>>
    <2>1. TypeOK /\ RequestInv(t) /\ pc[t] = "lock" /\ c \in Commands
      BY DEF IInv, LockRow, TypeOK
    <2> QED
      BY <2>1, CommandParts DEF LockRow, RequestInv, RowsHeld
  <1>1. PICK p \in Foremost(todo[t]) :
          /\ Free(t, CellOf(c, p))
          /\ owner' = [owner EXCEPT ![CellOf(c, p)] = t]
          /\ Visited(t, p, "lock", "insert", {})
    BY DEF LockRow
  <1> DEFINE x == CellOf(c, p)
  <1>2. /\ p \in Sold(c) /\ p \in Products /\ x \in Cell /\ p \in todo[t]
        /\ \A q \in todo[t] \ {p} : p < q
        /\ \A q \in Sold(c) \ todo[t] : q < p
        /\ x[1] = p
    BY <1>0, NextRow DEF Foremost, CellOf
  <1>3. /\ owner' \in [Cell -> Requests \cup {Nobody}]
        /\ \A u \in Requests \ {t}, y \in Cell : owner'[y] = u <=> owner[y] = u
        /\ \A y \in Cell : owner[y] = t => owner'[y] = t
        /\ \A y \in Cell : owner'[y] = t => owner[y] = t \/ y = x
        /\ owner'[x] = t
    <2>1. owner'[x] = t
      BY <1>0, <1>1, <1>2 DEF TypeOK
    <2> QED
      BY <1>0, <1>1, <1>2, <2>1, TakeRow
  <1>4. \A y \in Cell : owner'[y] = t =>
          /\ y[1] \in Sold(c) /\ y = CellOf(c, y[1])
          /\ y \in rows => y[1] \in (Sold(c) \ todo[t]) \cup {p}
    BY <1>0, <1>2, <1>3 DEF RequestInv, InOrder
  <1>5. /\ \A q \in Sold(c) : CellOf(c, q) \in rows \/ owner'[CellOf(c, q)] = t
        /\ \A q \in (Sold(c) \ todo[t]) \cup {p} : owner'[CellOf(c, q)] = t
    <2>1. \A q \in Sold(c) : /\ CellOf(c, q) \in Cell
                             /\ CellOf(c, q) \in rows \/ owner[CellOf(c, q)] = t
      BY <1>0, CommandParts DEF RequestInv, InOrder
    <2>2. \A q \in Sold(c) \ todo[t] : owner[CellOf(c, q)] = t
      BY <1>0 DEF RequestInv, RowsHeld
    <2> QED
      BY <1>3, <2>1, <2>2
  <1>6. ASSUME NEW next \in {"lock", "insert"}, NEW ps \in SUBSET Sold(c), Goto(t, next),
               todo' = [todo EXCEPT ![t] = ps],
               next = "lock" => ps = todo[t] \ {p},
               next = "insert" => todo[t] = {p}
        PROVE  IInv'
    <2>1. /\ todo' \in [Requests -> SUBSET Products] /\ todo'[t] = ps
          /\ \A u \in Requests \ {t} : todo'[u] = todo[u]
      BY <1>0, <1>6, VisitedType
    <2>2. TypeOK'
      <3>1. next \in Steps
        BY <1>6 DEF Steps
      <3>2. /\ terms' \in [Requests -> [rate : 0 .. Whole, tags : [Products -> Tag]]]
            /\ shares' \in [Requests -> SUBSET (Entities \cup {Org})]
            /\ holder' \in [Members -> Requests \cup {Nobody}]
            /\ asked' \in [Requests -> Nat]
            /\ written' \in [Requests -> [Products -> Nat]]
            /\ guesses' \in [Members -> Seq(Nat)]
        BY <1>0 DEF TypeOK
      <3> QED
        BY <1>0, <1>3, <1>6, <2>1, <3>1, <3>2, GotoType
    <2>3. /\ Keeps(t) /\ pc'[t] = next /\ answer'[t] = answer[t] /\ cmd' = cmd
          /\ UNCHANGED <<status, tags, rate, credentials, clock, stock, rows>>
      BY <1>0, <1>3, <1>6, <2>1, GotoKeeps DEF Steps, InFlight
    <2>4. TermsHold(t)' /\ ApprovalHolds(t)'
      BY <1>0, <1>6, <2>3
      DEF RequestInv, TermsHold, ApprovalHolds, Needs, Approver, Reading, Priced, Approved
    <2>5. RowsHeld(t)' /\ InOrder(t)'
      <3>1. CASE next = "lock"
        <4>1. Sold(c) \ todo'[t] = (Sold(c) \ todo[t]) \cup {p}
          BY <1>2, <1>6, <2>1, <3>1
        <4>2. \A q \in (Sold(c) \ todo[t]) \cup {p}, r \in todo[t] \ {p} : q < r
          <5>1. \A q \in Sold(c) \ todo[t], r \in todo[t] : q < r
            BY <1>0 DEF RequestInv, InOrder
          <5> QED
            BY <1>2, <5>1
        <4>3. InOrder(t)'
          BY <1>4, <1>5, <1>6, <2>1, <2>3, <3>1, <4>1, <4>2 DEF InOrder
        <4>4. RowsHeld(t)'
          BY <1>5, <1>6, <2>1, <2>3, <3>1, <4>1 DEF RowsHeld, Locked
        <4> QED
          BY <4>3, <4>4
      <3>2. CASE next = "insert"
        <4>1. (Sold(c) \ todo[t]) \cup {p} = Sold(c)
          BY <1>2, <1>6, <3>2
        <4> QED
          BY <1>4, <1>5, <2>3, <3>2, <4>1 DEF RowsHeld, InOrder, Locked
      <3> QED
        BY <1>6, <3>1, <3>2
    <2>7. RequestInv(t)'
      BY <1>0, <1>6, <2>3, <2>4, <2>5 DEF RequestInv, InFlight
    <2>8. \A m \in Admins : GuessInv(m)'
      BY <1>0, <2>3 DEF IInv, GuessInv
    <2> QED
      BY <2>2, <2>3, <2>7, <2>8, OthersKeep
  <1>7. CASE todo[t] = {p}
    BY <1>1, <1>6, <1>7 DEF Visited
  <1>8. CASE todo[t] # {p}
    <2>1. todo' = [todo EXCEPT ![t] = todo[t] \ {p}]
      BY <1>0, <1>1, <1>8 DEF Visited, TypeOK
    <2> QED
      BY <1>0, <1>1, <1>6, <1>8, <2>1 DEF Visited
  <1> QED
    BY <1>7, <1>8

\* The statements that write.

\* A request that keeps all its locks when it goes on to a statement after them.
LEMMA LockedGoto ==
  ASSUME IInv, NEW t \in Requests, pc[t] \in Locked,
         NEW next \in {"reference", "debit", "commit"}, Goto(t, next),
         UNCHANGED <<terms, shares, holder, asked, todo, owner, guesses>>,
         written' \in [Requests -> [Products -> Nat]],
         \A u \in Requests \ {t} : written'[u] = written[u],
         Recorded(cmd[t], sales) = {}, Rivals(t) = {},
         next = "commit" => \A p \in Sold(cmd[t]) :
           LET x == CellOf(cmd[t], p)
               q == LineOf(cmd[t], p).quantity
           IN  stock[x] >= q /\ written'[t][p] = stock[x] - q
  PROVE  IInv'
  <1>0. TypeOK /\ RequestInv(t)
    BY DEF IInv
  <1>1. TypeOK'
    BY <1>0, GotoType DEF TypeOK, Steps
  <1>2. /\ Keeps(t) /\ pc'[t] = next /\ answer'[t] = answer[t] /\ cmd' = cmd
        /\ UNCHANGED <<status, tags, rate, credentials, clock, stock, sales, rows>>
    BY <1>0, GotoKeeps DEF Steps
  <1>3. TermsHold(t)' /\ ApprovalHolds(t)'
    BY <1>0, <1>2
    DEF RequestInv, TermsHold, ApprovalHolds, Needs, Approver, Reading, Priced, Approved, Locked
  <1>4. RowsHeld(t)' /\ InOrder(t)'
    BY <1>0, <1>2 DEF RequestInv, RowsHeld, InOrder, Locked
  <1>5. Rivals(t)' = {}
    BY <1>2 DEF Rivals, Keeps
  <1>6. RequestInv(t)'
    BY <1>0, <1>2, <1>3, <1>4, <1>5 DEF RequestInv, Locked
  <1>7. \A m \in Admins : GuessInv(m)'
    BY <1>2 DEF IInv, GuessInv
  <1> QED
    BY <1>1, <1>2, <1>6, <1>7, OthersKeep

\* The unique index lets one request at a time past the insert of a key.
LEMMA InsertSaleInv ==
  ASSUME IInv, NEW t \in Requests, InsertSale(t)
  PROVE  IInv'
  <1>0. TypeOK /\ RequestInv(t) /\ pc[t] = "insert" /\ Rivals(t) = {} /\ guesses' = guesses
    BY DEF IInv, InsertSale
  <1>1. CASE Recorded(cmd[t], sales) = {} /\ Goto(t, "reference") /\ UNCHANGED locks
    BY <1>0, <1>1, LockedGoto DEF locks, Locked, TypeOK
  <1>2. CASE Goto(t, "reread") /\ Release(t)
    <2>1. TypeOK'
      BY <1>0, <1>2, ReleaseType, GotoType DEF TypeOK, Steps
    <2>2. Keeps(t) /\ pc'[t] = "reread" /\ answer'[t] = answer[t] /\ cmd' = cmd
      BY <1>0, <1>2, ReleaseKeeps, GotoKeeps DEF Steps, InFlight
    <2>3. RequestInv(t)'
      BY <1>0, <1>2, <2>2, ReleaseKeeps, AtRest DEF RequestInv
    <2>4. \A m \in Admins : GuessInv(m)'
      BY <1>0, <1>2 DEF IInv, GuessInv, Goto
    <2> QED
      BY <2>1, <2>2, <2>3, <2>4, OthersKeep
  <1> QED
    BY <1>1, <1>2 DEF InsertSale

LEMMA ReferenceInv ==
  ASSUME IInv, NEW t \in Requests, Reference(t)
  PROVE  IInv'
  BY LockedGoto DEF Reference, IInv, TypeOK, RequestInv, locks, Locked, InFlight

LEMMA DebitLinesInv ==
  ASSUME IInv, NEW t \in Requests, DebitLines(t)
  PROVE  IInv'
  <1> DEFINE c == cmd[t]
  <1>0. /\ TypeOK /\ RequestInv(t) /\ pc[t] = "debit" /\ c \in Commands
        /\ Recorded(c, sales) = {} /\ Rivals(t) = {}
    BY DEF IInv, DebitLines, TypeOK, RequestInv, InFlight
  <1>1. CASE Finish(t, "insufficient", NoSale)
    BY <1>1, FinishInv DEF Outcomes
  <1>2. CASE /\ \A p \in Sold(c) : ~Short(c, p)
             /\ written' = [written EXCEPT ![t] =
                  [p \in Products |->
                     IF p \in Sold(c) THEN stock[CellOf(c, p)] - LineOf(c, p).quantity ELSE 0]]
             /\ Goto(t, "commit")
             /\ UNCHANGED <<terms, shares, holder, asked, todo, owner, guesses>>
    <2> DEFINE w == [p \in Products |->
                       IF p \in Sold(c) THEN stock[CellOf(c, p)] - LineOf(c, p).quantity ELSE 0]
    <2>1. \A p \in Sold(c) :
            /\ p \in Products /\ stock[CellOf(c, p)] >= LineOf(c, p).quantity
            /\ stock[CellOf(c, p)] - LineOf(c, p).quantity \in Nat
      <3> SUFFICES ASSUME NEW p \in Sold(c)
                   PROVE  /\ p \in Products /\ stock[CellOf(c, p)] >= LineOf(c, p).quantity
                          /\ stock[CellOf(c, p)] - LineOf(c, p).quantity \in Nat
        OBVIOUS
      <3>1. stock[CellOf(c, p)] \in Nat /\ LineOf(c, p).quantity \in Nat /\ p \in Products
        BY <1>0, CommandParts DEF TypeOK
      <3> QED
        BY <1>2, <3>1 DEF Short
    <2>2. w \in [Products -> Nat]
      BY <2>1
    <2>3. /\ written' \in [Requests -> [Products -> Nat]]
          /\ written'[t] = w
          /\ \A u \in Requests \ {t} : written'[u] = written[u]
      BY <1>0, <1>2, <2>2 DEF TypeOK
    <2>4. \A p \in Sold(c) : written'[t][p] = stock[CellOf(c, p)] - LineOf(c, p).quantity
      BY <2>1, <2>3
    <2> QED
      BY <1>0, <1>2, <2>1, <2>3, <2>4, LockedGoto DEF Locked
  <1> QED
    BY <1>1, <1>2 DEF DebitLines

\* What a committing request knows: the lines it debits, and that it may.
LEMMA CommitKnows ==
  ASSUME IInv, NEW t \in Requests, pc[t] = "commit"
  PROVE  LET c == cmd[t] IN
         /\ c \in Commands /\ Sold(c) \subseteq Products /\ Valid(c)
         /\ terms[t].rate = rate /\ terms[t].rate \in 0 .. Whole
         /\ terms[t].tags \in [Products -> Tag]
         /\ \A p \in Sold(c) : terms[t].tags[p] = tags[p]
         /\ PriceError(c, terms[t].tags, terms[t].rate) = "none"
         /\ \A e \in Context(c) : status[e] = "active"
         /\ Needs(t) => /\ Approver(t) \in Members /\ holder[Approver(t)] = t
                        /\ Accepts(c.approval, credentials)
                        /\ credentials[Approver(t)].until <= clock
                        /\ guesses[Approver(t)] = << >>
         /\ Recorded(c, sales) = {} /\ Rivals(t) = {}
         /\ \A p \in Sold(c) :
              /\ CellOf(c, p) \in Cell /\ owner[CellOf(c, p)] = t
              /\ LineOf(c, p).quantity \in Nat
              /\ stock[CellOf(c, p)] >= LineOf(c, p).quantity
              /\ written[t][p] = stock[CellOf(c, p)] - LineOf(c, p).quantity
  <1> DEFINE c == cmd[t]
  <1>0. TypeOK /\ RequestInv(t) /\ c \in Commands
    BY DEF IInv, TypeOK
  <1>1. /\ Valid(c) /\ TermsHold(t) /\ ApprovalHolds(t) /\ RowsHeld(t)
        /\ Recorded(c, sales) = {} /\ Rivals(t) = {}
    BY <1>0 DEF RequestInv, InFlight
  <1>2. /\ terms[t].rate = rate /\ terms[t].rate \in 0 .. Whole
        /\ terms[t].tags \in [Products -> Tag]
        /\ \A p \in Sold(c) : terms[t].tags[p] = tags[p]
        /\ PriceError(c, terms[t].tags, terms[t].rate) = "none"
        /\ \A e \in Context(c) : status[e] = "active"
    BY <1>0, <1>1 DEF TermsHold, Reading, Priced, TypeOK
  <1>3. Needs(t) => /\ Approver(t) \in Members /\ holder[Approver(t)] = t
                    /\ Accepts(c.approval, credentials)
                    /\ credentials[Approver(t)].until <= clock
                    /\ guesses[Approver(t)] = << >>
    BY <1>0, <1>1, ApproverIsMember DEF ApprovalHolds, Approved, Needs, Approver
  <1>4. \A p \in Sold(c) :
          /\ CellOf(c, p) \in Cell /\ owner[CellOf(c, p)] = t
          /\ LineOf(c, p).quantity \in Nat
          /\ stock[CellOf(c, p)] >= LineOf(c, p).quantity
          /\ written[t][p] = stock[CellOf(c, p)] - LineOf(c, p).quantity
    BY <1>0, <1>1, CommandParts DEF RowsHeld, Locked
  <1> QED
    BY <1>0, <1>1, <1>2, <1>3, <1>4, CommandParts

LEMMA SaleType ==
  ASSUME NEW c \in Commands, NEW tg \in [Products -> Tag], NEW r
  PROVE  PriceError(c, tg, r) = "none" => SaleOf(c, tg, r) \in Sale
  <1>1. LinesOf(c, tg) \subseteq SaleLine
    BY CommandParts DEF LinesOf, SaleLine
  <1>2. ASSUME PriceError(c, tg, r) = "none"
        PROVE  ApprovedBy(c, tg, r) \in Members \cup {Nobody}
    <2>1. Exceptional(c, tg, r) /\ c.seller \notin Admins => c.approval \in Approval
      BY <1>2, NoPriceError, CommandParts
    <2> QED
      BY <2>1, CommandParts DEF ApprovedBy, Approval
  <1> QED
    BY <1>1, <1>2 DEF SaleOf, Sale

\* The columns of an approver after a sale.
LEMMA CredentialsAfterParts ==
  ASSUME NEW c \in Commands, NEW tg, NEW r, NEW cr \in [Members -> Credential],
         NEW m \in Members
  PROVE  /\ CredentialsAfter(c, tg, r, cr) \in [Members -> Credential]
         /\ NeedsPin(c, tg, r) /\ m = c.approval.approver =>
              /\ CredentialsAfter(c, tg, r, cr)[m].failures = 0
              /\ CredentialsAfter(c, tg, r, cr)[m].until = 0
         /\ ~NeedsPin(c, tg, r) \/ m # c.approval.approver =>
              CredentialsAfter(c, tg, r, cr)[m] = cr[m]
  <1>1. CASE ~NeedsPin(c, tg, r)
    BY <1>1 DEF CredentialsAfter
  <1>2. CASE NeedsPin(c, tg, r)
    <2> DEFINE a == c.approval.approver
               unset == [cr[a] EXCEPT !.failures = 0]
               row == [unset EXCEPT !.until = 0]
               first == [cr EXCEPT ![a] = unset]
               after == [first EXCEPT ![a] = row]
    <2>1. a \in Members
      BY <1>2, ApproverIsMember
    <2>2. row \in Credential /\ row.failures = 0 /\ row.until = 0
      <3>1. cr[a] \in Credential
        BY <2>1
      <3>2. unset \in Credential /\ unset.failures = 0
        BY <3>1 DEF Credential
      <3> HIDE DEF unset
      <3> QED
        BY <3>2 DEF Credential
    <2>3. CredentialsAfter(c, tg, r, cr) = after
      <3>1. first[a] = unset
        BY <2>1
      <3>2. after = [first EXCEPT ![a].until = 0]
        BY <2>1, <3>1
      <3> QED
        BY <1>2, <3>2 DEF CredentialsAfter
    <2> HIDE DEF row, unset
    <2>4. /\ after \in [Members -> Credential]
          /\ after[a] = row /\ \A n \in Members \ {a} : after[n] = cr[n]
      BY <2>1, <2>2
    <2> HIDE DEF after
    <2> QED
      BY <1>2, <2>1, <2>2, <2>3, <2>4
  <1> QED
    BY <1>1, <1>2

\* A commit is what StockAfter and IssuesAfter say.
LEMMA CommitBooks ==
  ASSUME IInv, NEW t \in Requests, Commit(t)
  PROVE  /\ stock' = StockAfter(cmd[t], stock)
         /\ issues' = IssuesAfter(cmd[t], stock, issues)
         /\ \A x \in Cell : owner[x] # t => stock'[x] = stock[x]
  <1> DEFINE c == cmd[t]
             cells == {CellOf(c, p) : p \in Sold(c)}
  <1>0. pc[t] = "commit" /\ c \in Commands
    BY CommitKnows DEF Commit
  <1>1. \A x \in Cell : x \in cells <=> x[2] = c.shop /\ x[1] \in Sold(c)
    BY <1>0, CommandParts DEF CellOf, Cell
  <1>2. \A x \in Cell : x \in cells =>
          /\ written[t][x[1]] = stock[x] - LineOf(c, x[1]).quantity
          /\ owner[x] = t
    BY <1>0, CommitKnows DEF CellOf
  <1>3. stock' = [x \in Cell |-> IF x \in cells THEN written[t][x[1]] ELSE stock[x]]
    BY DEF Commit
  <1>4. issues' = [x \in Cell |->
           IF x \in cells
           THEN Append(issues[x], [key |-> c.key, quantity |-> LineOf(c, x[1]).quantity,
                                   after |-> written[t][x[1]]])
           ELSE issues[x]]
    BY DEF Commit
  <1> HIDE DEF cells, c
  <1>5. stock' = [x \in Cell |->
           IF x[2] = c.shop /\ x[1] \in Sold(c) THEN stock[x] - LineOf(c, x[1]).quantity
           ELSE stock[x]]
    BY <1>1, <1>2, <1>3
  <1>6. issues' = [x \in Cell |->
           IF x[2] = c.shop /\ x[1] \in Sold(c)
           THEN Append(issues[x], [key |-> c.key, quantity |-> LineOf(c, x[1]).quantity,
                                   after |-> stock'[x]])
           ELSE issues[x]]
    BY <1>1, <1>3, <1>4
  <1>7. \A x \in Cell : owner[x] # t => stock'[x] = stock[x]
    BY <1>2, <1>3
  <1>8. stock' = StockAfter(c, stock)
    BY <1>5 DEF StockAfter
  <1>9. issues' = IssuesAfter(c, stock, issues)
    BY <1>6, <1>8 DEF IssuesAfter
  <1> QED
    BY <1>7, <1>8, <1>9 DEF c

LEMMA CommitType ==
  ASSUME IInv, NEW t \in Requests, Commit(t)
  PROVE  TypeOK'
  <1> DEFINE c == cmd[t]
             s == SaleOf(c, terms[t].tags, terms[t].rate)
             cells == {CellOf(c, p) : p \in Sold(c)}
  <1>0. TypeOK /\ pc[t] = "commit" /\ c \in Commands /\ Release(t)
    BY CommitKnows DEF IInv, Commit
  <1>1. \A x \in Cell : x \in cells =>
          written[t][x[1]] \in Nat /\ LineOf(c, x[1]).quantity \in Nat
    BY <1>0, CommitKnows DEF CellOf, TypeOK
  <1>2. stock' \in [Cell -> Nat]
    <2>1. stock' = [x \in Cell |-> IF x \in cells THEN written[t][x[1]] ELSE stock[x]]
      BY DEF Commit
    <2>2. \A x \in Cell : stock[x] \in Nat
      BY <1>0 DEF TypeOK
    <2> HIDE DEF cells
    <2> QED
      BY <1>1, <2>1, <2>2
  <1>3. issues' \in [Cell -> Seq(Issue)]
    <2> DEFINE row(x) == [key |-> c.key, quantity |-> LineOf(c, x[1]).quantity,
                          after |-> written[t][x[1]]]
    <2>1. issues' = [x \in Cell |-> IF x \in cells THEN Append(issues[x], row(x)) ELSE issues[x]]
      BY DEF Commit
    <2>2. \A x \in Cell : x \in cells => row(x) \in Issue
      BY <1>0, <1>1, CommandParts DEF Issue
    <2>3. \A x \in Cell : issues[x] \in Seq(Issue)
      BY <1>0 DEF TypeOK
    <2>4. ASSUME NEW x \in Cell, x \in cells
          PROVE  Append(issues[x], row(x)) \in Seq(Issue)
      <3> HIDE DEF row
      <3> QED
        BY <2>2, <2>3, <2>4
    <2> HIDE DEF cells, row
    <2> QED
      BY <2>1, <2>3, <2>4
  <1>4. s \in Sale
    BY <1>0, CommitKnows, SaleType
  <1>5. credentials' \in [Members -> Credential]
    <2>1. credentials' = CredentialsAfter(c, terms[t].tags, terms[t].rate, credentials)
      BY DEF Commit
    <2> QED
      BY <1>0, <2>1, CredentialsAfterParts DEF TypeOK, CredentialsAfter
  <1>6. answer' \in [Requests -> Answer] /\ pc' \in [Requests -> Steps]
    <2>1. PICK o \in Outcomes, z \in Sale \cup {NoSale} : Tell(t, o, z)
      BY <1>4 DEF Commit, Outcomes
    <2> QED
      BY <1>0, <2>1 DEF TypeOK, Tell, Answer, Steps
  <1>7. sales' \subseteq Sale /\ rows' \subseteq Cell
    BY <1>0, <1>4 DEF Commit, TypeOK
  <1>8. UNCHANGED <<status, tags, rate, clock, cmd, guesses>>
    BY DEF Commit, catalog
  <1> QED
    BY <1>0, <1>2, <1>3, <1>5, <1>6, <1>7, <1>8, ReleaseType DEF TypeOK

\* A commit changes no balance, approver or key that another request relies on.
LEMMA CommitInv ==
  ASSUME IInv, NEW t \in Requests, Commit(t)
  PROVE  IInv'
  <1> DEFINE c == cmd[t]
             s == SaleOf(c, terms[t].tags, terms[t].rate)
  <1>0. /\ TypeOK /\ RequestInv(t) /\ pc[t] = "commit" /\ c \in Commands /\ Rivals(t) = {}
        /\ Release(t)
        /\ UNCHANGED <<catalog, rate, clock, cmd, guesses>>
        /\ sales' = sales \cup {s}
        /\ rows' = rows \cup {x \in Cell : owner[x] = t}
        /\ credentials' = CredentialsAfter(c, terms[t].tags, terms[t].rate, credentials)
    BY CommitKnows DEF IInv, Commit
  <1>1. pc'[t] = "done" /\ \A u \in Requests \ {t} : pc'[u] = pc[u] /\ answer'[u] = answer[u]
    BY <1>0 DEF Commit, Tell, TypeOK
  <1>2. \A x \in Cell : owner[x] # t => stock'[x] = stock[x]
    BY CommitBooks
  <1>3. ASSUME NEW m \in Members
        PROVE  /\ Needs(t) /\ m = Approver(t) => credentials'[m].failures = 0
               /\ ~(Needs(t) /\ m = Approver(t)) => credentials'[m] = credentials[m]
               /\ holder[m] # t => credentials'[m] = credentials[m]
    <2>1. credentials \in [Members -> Credential]
      BY <1>0 DEF TypeOK
    <2>2. /\ Needs(t) <=> NeedsPin(c, terms[t].tags, terms[t].rate)
          /\ Approver(t) = c.approval.approver
      BY DEF Needs, Approver
    <2>3. Needs(t) => holder[Approver(t)] = t
      BY <1>0, CommitKnows
    <2> HIDE DEF c
    <2> QED
      BY <1>0, <2>1, <2>2, <2>3, CredentialsAfterParts
  <1>4. ASSUME NEW u \in Requests \ {t}, pc[u] \in InFlight
        PROVE  Recorded(cmd[u], sales') = Recorded(cmd[u], sales)
    <2>1. s.command = c
      BY DEF SaleOf
    <2>2. cmd[u].key # c.key
      BY <1>0, <1>4 DEF Rivals, InFlight
    <2> QED
      BY <1>0, <2>1, <2>2 DEF Recorded
  <1>5. Keeps(t)
    <2>1. /\ UNCHANGED <<catalog, rate, clock, cmd>> /\ rows \subseteq rows'
          /\ pc'[t] \notin InFlight
      BY <1>0, <1>1 DEF InFlight
    <2>2. ASSUME NEW u \in Requests \ {t}
          PROVE  /\ pc'[u] = pc[u] /\ answer'[u] = answer[u]
                 /\ terms'[u] = terms[u] /\ shares'[u] = shares[u] /\ asked'[u] = asked[u]
                 /\ todo'[u] = todo[u] /\ written'[u] = written[u]
                 /\ \A m \in Members : holder[m] = u =>
                      /\ holder'[m] = u /\ credentials'[m] = credentials[m]
                      /\ guesses'[m] = guesses[m]
                 /\ \A x \in Cell :
                      /\ owner'[x] = u <=> owner[x] = u
                      /\ owner[x] = u => stock'[x] = stock[x] /\ (x \in rows' <=> x \in rows)
                 /\ pc[u] \in InFlight => Recorded(cmd[u], sales') = Recorded(cmd[u], sales)
      <3>1. /\ terms'[u] = terms[u] /\ shares'[u] = shares[u] /\ asked'[u] = asked[u]
            /\ todo'[u] = todo[u] /\ written'[u] = written[u]
            /\ \A m \in Members : holder[m] = u => holder'[m] = u
            /\ \A x \in Cell : owner'[x] = u <=> owner[x] = u
        BY <1>0, ReleaseKeeps
      <3>2. \A m \in Members : holder[m] = u => credentials'[m] = credentials[m]
        BY <1>3
      <3>3. \A x \in Cell : owner[x] = u => stock'[x] = stock[x] /\ (x \in rows' <=> x \in rows)
        BY <1>0, <1>2
      <3>4. guesses' = guesses
        BY <1>0
      <3> QED
        BY <1>1, <1>4, <3>1, <3>2, <3>3, <3>4
    <2> QED
      BY <2>1, <2>2 DEF Keeps
  <1>6. RequestInv(t)'
    BY <1>0, <1>1, ReleaseKeeps, AtRest
  <1>7. ASSUME NEW m \in Admins
        PROVE  GuessInv(m)'
    <2>1. GuessInv(m) /\ m \in Members /\ guesses'[m] = guesses[m]
      BY <1>0, PartyAssumption DEF IInv
    <2>2. CASE Needs(t) /\ m = Approver(t)
      <3>1. guesses[m] = << >> /\ credentials'[m].failures = 0
        BY <1>0, <1>3, <2>1, <2>2, CommitKnows
      <3>2. Len(guesses'[m]) = 0 /\ DOMAIN guesses'[m] = {}
        BY <2>1, <3>1
      <3> QED
        BY <3>1, <3>2, NumberAssumption DEF GuessInv
    <2>3. CASE ~(Needs(t) /\ m = Approver(t))
      <3>1. credentials'[m] = credentials[m]
        BY <1>3, <2>1, <2>3
      <3> QED
        BY <2>1, <3>1 DEF GuessInv
    <2> QED
      BY <2>2, <2>3
  <1> QED
    BY <1>5, <1>6, <1>7, CommitType, OthersKeep

\* A transaction that is ended, or answered from a committed sale.
LEMMA EndsInv ==
  ASSUME IInv, NEW t \in Requests, Reread(t) \/ DeadlockVictim(t) \/ Fail(t)
  PROVE  IInv'
  <1>1. CASE Reread(t)
    BY <1>1, AnsweredInv DEF Reread
  <1>2. CASE Finish(t, "unavailable", NoSale)
    BY <1>2, FinishInv DEF Outcomes
  <1> QED
    BY <1>1, <1>2 DEF DeadlockVictim, Fail

LEMMA StatementInv ==
  ASSUME IInv, NEW t \in Requests, Statement(t) \/ DeadlockVictim(t) \/ Fail(t)
  PROVE  IInv'
  BY LookupInv, ReadPolicyInv, ReadContextInv, ApproveInv, CountMissInv, SeedRowInv,
     LockRowInv, InsertSaleInv, ReferenceInv, DebitLinesInv, CommitInv, EndsInv
  DEF Statement

\* What goes on beside the requests leaves them what they have shared and hold.
LEMMA AroundInv ==
  ASSUME IInv, TypeOK', UNCHANGED Around, clock' >= clock,
         \A t \in Requests : TermsHold(t)',
         \A t \in Requests : Needs(t) /\ holder[Approver(t)] = t =>
           credentials'[Approver(t)] = credentials[Approver(t)]
             /\ guesses'[Approver(t)] = guesses[Approver(t)],
         \A m \in Admins : GuessInv(m)'
  PROVE  IInv'
  <1>1. ASSUME NEW t \in Requests
        PROVE  RequestInv(t)'
    <2>1. /\ RequestInv(t) /\ TypeOK
          /\ UNCHANGED <<stock, sales, rows, pc, terms, shares, holder, asked, todo, owner,
                         written, cmd, answer>>
      BY DEF IInv, Around, books, locks
    <2>2. (Needs(t)' <=> Needs(t)) /\ Approver(t)' = Approver(t)
      BY <2>1 DEF Needs, Approver
    <2>3. Rivals(t)' = Rivals(t)
      BY <2>1 DEF Rivals
    <2>4. ApprovalHolds(t)'
      <3>1. ApprovalHolds(t)
        BY <2>1 DEF RequestInv
      <3>2. clock \in Nat /\ clock' \in Nat /\ asked[t] \in Nat
        BY <2>1 DEF TypeOK
      <3>3. pc[t] \in {"miss"} \cup Approved /\ Needs(t) =>
              /\ credentials'[Approver(t)] = credentials[Approver(t)]
              /\ guesses'[Approver(t)] = guesses[Approver(t)]
              /\ credentials[Approver(t)].until \in Nat
        <4>1. pc[t] \in {"miss"} \cup Approved /\ Needs(t) => holder[Approver(t)] = t
          BY <3>1 DEF ApprovalHolds
        <4>2. Needs(t) => Approver(t) \in Members
          BY <2>1, ApproverIsMember DEF Needs, Approver, TypeOK
        <4> QED
          BY <2>1, <4>1, <4>2 DEF TypeOK, Credential
      <3>4. pc[t] \in {"approve", "miss"} => Needs(t)
        BY <3>1 DEF ApprovalHolds
      <3>5. pc[t] \in {"miss"} \cup Approved /\ Needs(t) =>
              (Accepts(cmd[t].approval, credentials)' <=> Accepts(cmd[t].approval, credentials))
        BY <2>1, <3>3 DEF Accepts, Approver
      <3> QED
        BY <2>1, <2>2, <3>1, <3>2, <3>3, <3>4, <3>5 DEF ApprovalHolds
    <2>5. RowsHeld(t)' /\ InOrder(t)'
      <3>1. RowsHeld(t) /\ InOrder(t)
        BY <2>1 DEF RequestInv
      <3> QED
        BY <2>1, <3>1 DEF RowsHeld, InOrder
    <2> QED
      BY <2>1, <2>3, <2>4, <2>5 DEF RequestInv
  <1> QED
    BY <1>1 DEF IInv

\* A row that is shared is not updated, so what was read of it stays true.
LEMMA UpdateCatalogInv ==
  ASSUME IInv, NEW e \in Updated, UpdateCatalog(e)
  PROVE  IInv'
  <1>0. /\ TypeOK /\ Unshared(e) /\ e \in Entities
        /\ UNCHANGED <<rate, credentials, clock, Around, guesses>>
    BY ActorAssumption DEF IInv, UpdateCatalog, Entities
  <1>1. PICK st \in StatusAfter(e, status[e], stock) : status' = [status EXCEPT ![e] = st]
    BY DEF UpdateCatalog
  <1>2. st \in Statuses
    BY <1>0, <1>1 DEF StatusAfter, Statuses, TypeOK
  <1>3. /\ tags' \in [Products -> Tag]
        /\ \A p \in Products \ {e} : tags'[p] = tags[p]
    <2>1. Tags \subseteq Tag /\ tags \in [Products -> Tag]
      BY <1>0, TradeAssumption DEF Tag, TypeOK
    <2>2. tags' = tags \/ \E p \in {e} \cap Products, tag \in Tags :
                             tags' = [tags EXCEPT ![p] = tag]
      BY DEF UpdateCatalog, TagsAfter
    <2> QED
      BY <2>1, <2>2
  <1>4. TypeOK'
    BY <1>0, <1>1, <1>2, <1>3 DEF TypeOK, Around, books, locks
  <1>5. ASSUME NEW t \in Requests
        PROVE  TermsHold(t)'
    <2>1. /\ TermsHold(t) /\ cmd[t] \in Commands
          /\ UNCHANGED <<pc, terms, shares, cmd, rate>>
      BY <1>0 DEF IInv, RequestInv, TypeOK, Around, locks
    <2>2. Sold(cmd[t]) \subseteq Products /\ Context(cmd[t]) \subseteq Entities
          /\ Sold(cmd[t]) \subseteq Context(cmd[t])
      BY <2>1, CommandParts DEF Context
    <2>3. pc[t] \in Priced => e \notin Context(cmd[t])
      BY <1>0, <2>1 DEF TermsHold, Unshared
    <2>4. pc[t] \in Priced =>
            /\ \A p \in Sold(cmd[t]) : tags'[p] = tags[p]
            /\ \A d \in Context(cmd[t]) : status'[d] = status[d]
      BY <1>0, <1>1, <1>3, <2>2, <2>3 DEF TypeOK
    <2> QED
      BY <2>1, <2>4 DEF TermsHold
  <1>6. \A m \in Admins : GuessInv(m)'
    BY <1>0 DEF IInv, GuessInv
  <1> QED
    BY <1>0, <1>4, <1>5, <1>6, AroundInv DEF TypeOK

LEMMA UpdatePolicyInv ==
  ASSUME IInv, UpdatePolicy
  PROVE  IInv'
  <1>0. /\ TypeOK /\ Unshared(Org) /\ rate' \in 0 .. Whole
        /\ UNCHANGED <<catalog, credentials, clock, Around, guesses>>
    BY TradeAssumption DEF IInv, UpdatePolicy
  <1>1. TypeOK'
    BY <1>0 DEF TypeOK, Around, books, locks, catalog
  <1>2. ASSUME NEW t \in Requests
        PROVE  TermsHold(t)'
    <2>1. TermsHold(t) /\ UNCHANGED <<pc, terms, shares, cmd, status, tags>>
      BY <1>0 DEF IInv, RequestInv, Around, locks, catalog
    <2>2. pc[t] \notin Reading
      BY <1>0, <2>1 DEF TermsHold, Unshared
    <2> QED
      BY <2>1, <2>2 DEF TermsHold, Reading, Priced
  <1>3. \A m \in Admins : GuessInv(m)'
    BY <1>0 DEF IInv, GuessInv
  <1> QED
    BY <1>0, <1>1, <1>2, <1>3, AroundInv DEF TypeOK

\* A PIN that a sale was approved with is not set before the sale ends.
LEMMA SetPinInv ==
  ASSUME IInv, NEW m \in Changing, SetPin(m)
  PROVE  IInv'
  <1>1. PICK p \in Pins :
          credentials' = [credentials EXCEPT ![m] = [pin |-> p, failures |-> 0, until |-> 0]]
    BY DEF SetPin
  <1>0. /\ TypeOK /\ m \in Members /\ holder[m] = Nobody
        /\ guesses' = [guesses EXCEPT ![m] = << >>]
        /\ UNCHANGED <<catalog, rate, clock, Around>>
    BY ActorAssumption, PartyAssumption DEF IInv, SetPin
  <1>2. /\ credentials' \in [Members -> Credential] /\ guesses' \in [Members -> Seq(Nat)]
        /\ credentials'[m].failures = 0 /\ guesses'[m] = << >>
        /\ \A n \in Members \ {m} : credentials'[n] = credentials[n] /\ guesses'[n] = guesses[n]
    <2>1. [pin |-> p, failures |-> 0, until |-> 0] \in Credential
      BY DEF Credential
    <2> QED
      BY <1>0, <1>1, <2>1 DEF TypeOK
  <1>3. TypeOK'
    BY <1>0, <1>2 DEF TypeOK, Around, books, locks, catalog
  <1>4. ASSUME NEW t \in Requests
        PROVE  /\ TermsHold(t)'
               /\ Needs(t) /\ holder[Approver(t)] = t =>
                    credentials'[Approver(t)] = credentials[Approver(t)]
                      /\ guesses'[Approver(t)] = guesses[Approver(t)]
    <2>1. TermsHold(t) /\ UNCHANGED <<pc, terms, shares, cmd, status, tags, rate>>
      BY <1>0 DEF IInv, RequestInv, Around, locks, catalog
    <2>2. Needs(t) => Approver(t) \in Members
      BY <1>0, ApproverIsMember DEF Needs, Approver, TypeOK
    <2>3. holder[Approver(t)] = t => Approver(t) # m
      BY <1>0, PartyAssumption
    <2> QED
      BY <1>2, <2>1, <2>2, <2>3 DEF TermsHold
  <1>5. ASSUME NEW n \in Admins
        PROVE  GuessInv(n)'
    <2>1. GuessInv(n) /\ n \in Members
      BY PartyAssumption DEF IInv
    <2>2. CASE n = m
      <3>1. Len(guesses'[n]) = 0 /\ DOMAIN guesses'[n] = {}
        BY <1>2, <2>2
      <3> QED
        BY <1>2, <2>2, <3>1, NumberAssumption DEF GuessInv
    <2>3. CASE n # m
      BY <1>2, <2>1, <2>3 DEF GuessInv
    <2> QED
      BY <2>2, <2>3
  <1> QED
    BY <1>0, <1>3, <1>4, <1>5, AroundInv DEF TypeOK

LEMMA TickInv ==
  ASSUME IInv, Tick
  PROVE  IInv'
  <1>1. TypeOK /\ TypeOK' /\ clock' >= clock
        /\ UNCHANGED <<catalog, rate, credentials, Around, guesses>>
    BY DEF IInv, TypeOK, Tick, Around, books, locks, catalog
  <1>2. \A t \in Requests : TermsHold(t)'
    BY <1>1 DEF IInv, RequestInv, TermsHold, Around, locks, catalog
  <1>3. \A m \in Admins : GuessInv(m)'
    BY <1>1 DEF IInv, GuessInv
  <1> QED
    BY <1>1, <1>2, <1>3, AroundInv

LEMMA InitInv == Init => IInv
  <1> SUFFICES ASSUME Init PROVE IInv
    OBVIOUS
  <1>1. TypeOK
    <2>1. NoTerms \in [rate : 0 .. Whole, tags : [Products -> Tag]] /\ Nothing \in [Products -> Nat]
      BY TradeAssumption DEF NoTerms, Tag, Nothing
    <2>2. \A m \in Members :
            [pin |-> OpeningPins[m], failures |-> 0, until |-> 0] \in Credential
      BY TradeAssumption DEF Credential
    <2>3. answer \in [Requests -> Answer]
      BY DEF Init, Answer, Outcomes
    <2>4. status \in [Entities -> Statuses]
      BY DEF Init, Statuses
    <2>5. tags \in [Products -> Tag] /\ stock \in [Cell -> Nat] /\ rows \subseteq Cell
          /\ rate \in 0 .. Whole
      BY TradeAssumption DEF Init, Tag, Cell
    <2> QED
      BY <2>1, <2>2, <2>3, <2>4, <2>5 DEF Init, TypeOK, Steps
  <1>2. ASSUME NEW t \in Requests
        PROVE  RequestInv(t)
    <2>1. pc[t] = "lookup" /\ answer[t].outcome = "pending" /\ \A x \in Cell : owner[x] # t
      BY PartyAssumption DEF Init
    <2> QED
      BY <2>1
      DEF RequestInv, TermsHold, ApprovalHolds, RowsHeld, InOrder, Reading, Priced,
          Approved, Locked, InFlight
  <1>3. ASSUME NEW m \in Admins
        PROVE  GuessInv(m)
    <2>1. guesses[m] = << >> /\ credentials[m].failures = 0
      BY PartyAssumption DEF Init
    <2>2. Len(guesses[m]) = 0 /\ DOMAIN guesses[m] = {}
      BY <2>1
    <2> QED
      BY <2>1, <2>2, NumberAssumption DEF GuessInv
  <1> QED
    BY <1>1, <1>2, <1>3 DEF IInv

LEMMA NextInv == IInv /\ [Next]_vars => IInv'
  <1> SUFFICES ASSUME IInv, [Next]_vars PROVE IInv'
    OBVIOUS
  <1>1. CASE UNCHANGED vars
    <2>1. /\ TypeOK /\ TypeOK' /\ UNCHANGED Around /\ clock' >= clock
          /\ UNCHANGED <<catalog, rate, credentials, clock, guesses>>
      BY <1>1 DEF IInv, TypeOK, vars, Around, catalog, books, locks
    <2>2. \A t \in Requests : TermsHold(t)'
      BY <2>1 DEF IInv, RequestInv, TermsHold, Around, locks, catalog
    <2>3. \A m \in Admins : GuessInv(m)'
      BY <2>1 DEF IInv, GuessInv
    <2> QED
      BY <2>1, <2>2, <2>3, AroundInv
  <1> QED
    BY <1>1, StatementInv, UpdateCatalogInv, UpdatePolicyInv, SetPinInv, TickInv DEF Next

\* The variables of Sales hold what TypeOK says, whatever the instance.
THEOREM TypeCorrect == Spec => []TypeOK
  <1>1. IInv => TypeOK
    BY DEF IInv
  <1> QED
    BY <1>1, InitInv, NextInv, PTL DEF Spec

\* No number of calls that guess at once gets past the lock of a PIN.
THEOREM GuessesAreBounded == Spec => []GuessesBounded
  <1>1. IInv => GuessesBounded
    BY DEF IInv, GuessInv, GuessesBounded
  <1> QED
    BY <1>1, InitInv, NextInv, PTL DEF Spec

-------------------------------------------------------------------------------
(* Sales implements SaleLedger *)

\* A call that ends without having changed anything is answered as the ledger answers.
LEMMA FinishIsAnswer ==
  ASSUME IInv, NEW t \in Requests, pc[t] # "done",
         NEW o, NEW s, Finish(t, o, s),
         \/ /\ o = "replayed" /\ s \in Recorded(cmd[t], sales)
            /\ Digest(s.command) = Digest(cmd[t])
         \/ /\ s = NoSale
            /\ \/ o = "invalid" /\ ~Valid(cmd[t])
               \/ /\ o = "conflict"
                  /\ \E r \in Recorded(cmd[t], sales) : Digest(r.command) # Digest(cmd[t])
               \/ o = "inactive" /\ \E e \in Context(cmd[t]) : status[e] = "inactive"
               \/ o # "none" /\ o = PriceError(cmd[t], tags, rate)
               \/ /\ o = "pin_locked" /\ NeedsPin(cmd[t], tags, rate)
                  /\ credentials[cmd[t].approval.approver].until > clock
               \/ /\ o = "insufficient"
                  /\ \E p \in Sold(cmd[t]) :
                       stock[CellOf(cmd[t], p)] < LineOf(cmd[t], p).quantity
               \/ o \in {"not_found", "unavailable"}
  PROVE  Ledger!Next
  <1> DEFINE c == cmd[t]
  <1>1. Ledger!Tell(t, o, s)
    BY DEF IInv, RequestInv, Finish, Tell, Ledger!Tell
  <1>2. UNCHANGED <<status, tags, rate, credentials, clock, stock, issues, sales, cmd>>
    BY DEF Finish, catalog, books
  <1>3. CASE o = "replayed" /\ s \in Recorded(c, sales) /\ Digest(s.command) = Digest(c)
    <2>1. /\ s \in Ledger!Recorded(c, sales)
          /\ Ledger!Digest(s.command) = Ledger!Digest(c)
      BY <1>3, SameWords
    <2>2. Ledger!Replay(t)
      BY <1>1, <1>2, <1>3, <2>1 DEF Ledger!Replay, Ledger!terms, Ledger!ledger
    <2> QED
      BY <2>2 DEF Ledger!Next
  <1>4. CASE s = NoSale /\ ~(o = "replayed")
    <2>1. \/ o = "invalid" /\ ~Ledger!Valid(c)
          \/ /\ o = "conflict"
             /\ \E r \in Ledger!Recorded(c, sales) : Ledger!Digest(r.command) # Ledger!Digest(c)
          \/ o = "inactive" /\ \E e \in Ledger!Context(c) : status[e] = "inactive"
          \/ Ledger!PriceError(c, tags, rate) # "none" /\ o = Ledger!PriceError(c, tags, rate)
          \/ /\ o = "pin_locked" /\ Ledger!NeedsPin(c, tags, rate)
             /\ credentials[c.approval.approver].until > clock
          \/ /\ o = "insufficient"
             /\ \E p \in Ledger!Sold(c) :
                  stock[Ledger!CellOf(c, p)] < Ledger!LineOf(c, p).quantity
          \/ o \in {"not_found", "unavailable"}
      BY <1>4, SameWords
    <2>2. Ledger!Refuse(t)
      BY <1>1, <1>2, <1>4, <2>1 DEF Ledger!Refuse, Ledger!terms, Ledger!ledger
    <2> QED
      BY <2>2 DEF Ledger!Next
  <1>5. CASE s = NoSale /\ o = "replayed"
    <2>1. PriceError(c, tags, rate) # "replayed"
      BY DEF PriceError
    <2> QED
      BY <1>3, <1>5, <2>1
  <1> QED
    BY <1>3, <1>4, <1>5

\* A statement that goes on changes nothing SaleLedger sees.
LEMMA GotoIsStutter ==
  ASSUME NEW t, NEW next, Goto(t, next)
  PROVE  UNCHANGED Ledger!ledgerVars
  BY DEF Goto, catalog, books, Ledger!ledgerVars, Ledger!terms, Ledger!ledger

LEMMA AnsweredIsAnswer ==
  ASSUME IInv, NEW t \in Requests, pc[t] # "done", Answered(t)
  PROVE  Ledger!Next
  <1>1. PICK s \in Recorded(cmd[t], sales) :
          \/ SameSale(s, cmd[t]) /\ Finish(t, "replayed", s)
          \/ ~SameSale(s, cmd[t]) /\ Finish(t, "conflict", NoSale)
    BY DEF Answered
  <1>2. CASE SameSale(s, cmd[t]) /\ Finish(t, "replayed", s)
    BY <1>2, FinishIsAnswer DEF SameSale
  <1>3. CASE ~SameSale(s, cmd[t]) /\ Finish(t, "conflict", NoSale)
    BY <1>3, FinishIsAnswer DEF SameSale
  <1> QED
    BY <1>1, <1>2, <1>3

\* A commit is the instant at which a sale takes effect: what it read of the catalog,
\* the policy, the PIN and the balances, several statements earlier, still holds.
LEMMA CommitIsSell ==
  ASSUME IInv, NEW t \in Requests, Commit(t)
  PROVE  Ledger!Sell(t)
  <1> DEFINE c == cmd[t]
             mine == terms[t].tags
             s == SaleOf(c, tags, rate)
  <1>1. /\ pc[t] = "commit" /\ answer[t].outcome = "pending"
        /\ terms[t].rate = rate
    BY CommitKnows DEF IInv, RequestInv, Commit
  <1>2. /\ \A p \in Sold(c) : mine[p] = tags[p]
        /\ Valid(c) /\ Recorded(c, sales) = {}
        /\ \A e \in Context(c) : status[e] = "active"
        /\ \A p \in Sold(c) : stock[CellOf(c, p)] >= LineOf(c, p).quantity
        /\ PriceError(c, mine, rate) = "none"
    BY <1>1, CommitKnows
  <1>3. /\ PriceError(c, tags, rate) = "none"
        /\ NeedsPin(c, tags, rate) <=> NeedsPin(c, mine, rate)
        /\ SaleOf(c, mine, rate) = s
        /\ CredentialsAfter(c, mine, rate, credentials)
             = CredentialsAfter(c, tags, rate, credentials)
    BY <1>2, SameTags
  <1>4. NeedsPin(c, tags, rate) =>
          credentials[c.approval.approver].until <= clock /\ Accepts(c.approval, credentials)
    BY <1>1, <1>3, CommitKnows DEF Needs, Approver
  <1>5. stock' = StockAfter(c, stock) /\ issues' = IssuesAfter(c, stock, issues)
    BY CommitBooks
  <1>6. /\ sales' = sales \cup {s}
        /\ credentials' = CredentialsAfter(c, tags, rate, credentials)
        /\ Tell(t, "created", s) \/ Tell(t, "unavailable", NoSale)
        /\ UNCHANGED <<status, tags, rate, clock, cmd>>
    <2>1. SaleOf(c, terms[t].tags, terms[t].rate) = s
      BY <1>1, <1>3
    <2>2. CredentialsAfter(c, terms[t].tags, terms[t].rate, credentials)
             = CredentialsAfter(c, tags, rate, credentials)
      BY <1>1, <1>3
    <2> HIDE DEF s, c
    <2> QED
      BY <2>1, <2>2 DEF Commit, catalog, c
  <1> HIDE DEF s, c, mine
  <1>7. /\ Ledger!Valid(c) /\ Ledger!Recorded(c, sales) = {}
        /\ \A e \in Ledger!Context(c) : status[e] = "active"
        /\ Ledger!PriceError(c, tags, rate) = "none"
        /\ \A p \in Ledger!Sold(c) : stock[Ledger!CellOf(c, p)] >= Ledger!LineOf(c, p).quantity
    BY <1>2, <1>3, SameWords
  <1>8. Ledger!NeedsPin(c, tags, rate) => Ledger!Asked(c) /\ Ledger!Accepts(c.approval, credentials)
    BY <1>4, SameWords DEF Ledger!Asked
  <1>9. /\ stock' = Ledger!StockAfter(c, stock)
        /\ issues' = Ledger!IssuesAfter(c, stock, issues)
    BY <1>5, SameWords DEF StockAfter, IssuesAfter, Ledger!StockAfter, Ledger!IssuesAfter
  <1>10. s = Ledger!SaleOf(c, tags, rate)
    BY SameWords DEF s
  <1>11. credentials' = Ledger!CredentialsAfter(c, tags, rate, credentials)
    BY <1>6, SameWords
  <1>12. Ledger!Tell(t, "created", s) \/ Ledger!Tell(t, "unavailable", NoSale)
    BY <1>1, <1>6 DEF Tell, Ledger!Tell
  <1> QED
    BY <1>6, <1>7, <1>8, <1>9, <1>10, <1>11, <1>12 DEF Ledger!Sell, Ledger!terms, c

\* An approver is asked as the current prices and policy have it.
LEMMA AskedOnCurrentTerms ==
  ASSUME IInv, NEW t \in Requests, pc[t] \in {"approve", "miss"}
  PROVE  NeedsPin(cmd[t], tags, rate) /\ Approver(t) \in Members
  <1> DEFINE c == cmd[t]
             mine == terms[t].tags
  <1>1. /\ terms[t].rate = rate /\ \A p \in Sold(c) : mine[p] = tags[p]
        /\ Needs(t) /\ c \in Commands
    BY DEF IInv, TypeOK, RequestInv, TermsHold, ApprovalHolds, Reading, Priced
  <1>2. NeedsPin(c, mine, rate)
    BY <1>1 DEF Needs
  <1>3. NeedsPin(c, tags, rate)
    <2> HIDE DEF c, mine
    <2>1. NeedsPin(c, mine, rate) <=> NeedsPin(c, tags, rate)
      BY <1>1, SameTags
    <2> QED
      BY <1>2, <2>1
  <1> QED
    BY <1>1, <1>3, ApproverIsMember DEF Approver

\* A wrong PIN is counted from the columns that it was compared with.
LEMMA CountMissIsMiss ==
  ASSUME IInv, NEW t \in Requests, CountMiss(t)
  PROVE  Ledger!Miss(t)
  <1> DEFINE c == cmd[t]
             m == c.approval.approver
  <1>1. pc[t] = "miss" /\ answer[t].outcome = "pending" /\ m = Approver(t)
    BY DEF IInv, RequestInv, CountMiss, Approver
  <1>2. /\ ~Accepts(c.approval, credentials)
        /\ credentials[m].until <= asked[t] /\ asked[t] <= clock
        /\ m \in Members /\ NeedsPin(c, tags, rate)
    <2>1. ApprovalHolds(t)
      BY DEF IInv, RequestInv
    <2> QED
      BY <1>1, <2>1, AskedOnCurrentTerms DEF ApprovalHolds
  <1>3. credentials[m].until \in Nat /\ asked[t] \in Nat /\ clock \in Nat
    BY <1>2 DEF IInv, TypeOK, Credential
  <1>4. /\ credentials' =
             IF m \in Admins THEN [credentials EXCEPT ![m] = Missed(@, asked[t])]
             ELSE credentials
        /\ Tell(t, "pin_invalid", NoSale) \/ Tell(t, "unavailable", NoSale)
        /\ UNCHANGED <<status, tags, rate, clock, stock, issues, sales, cmd>>
    BY DEF CountMiss, catalog, books
  <1> HIDE DEF c, m
  <1>5. asked[t] \in credentials[m].until .. clock /\ credentials[m].until <= clock
    BY <1>2, <1>3
  <1>6. Ledger!Asked(c) /\ ~Ledger!Accepts(c.approval, credentials)
    BY <1>2, <1>5, SameWords DEF Ledger!Asked, m
  <1>7. credentials' =
          IF m \in Admins THEN [credentials EXCEPT ![m] = Ledger!Missed(@, asked[t])]
          ELSE credentials
    BY <1>4, SameWords
  <1>8. Ledger!Tell(t, "pin_invalid", NoSale) \/ Ledger!Tell(t, "unavailable", NoSale)
    BY <1>1, <1>4 DEF Tell, Ledger!Tell
  <1> QED
    BY <1>4, <1>5, <1>6, <1>7, <1>8 DEF Ledger!Miss, Ledger!terms, Ledger!ledger, c, m

LEMMA StatementIsStep ==
  ASSUME IInv, NEW t \in Requests, Statement(t) \/ DeadlockVictim(t) \/ Fail(t)
  PROVE  [Ledger!Next]_(Ledger!ledgerVars)
  <1> DEFINE c == cmd[t]
  <1>1. CASE Commit(t)
    BY <1>1, CommitIsSell DEF Ledger!Next
  <1>2. CASE CountMiss(t)
    BY <1>2, CountMissIsMiss DEF Ledger!Next
  <1>3. CASE ReadPolicy(t) \/ SeedRow(t) \/ LockRow(t) \/ InsertSale(t) \/ Reference(t)
    <2>1. \E next : Goto(t, next)
      BY <1>3 DEF ReadPolicy, SeedRow, LockRow, InsertSale, Reference, Visited
    <2> QED
      BY <2>1, GotoIsStutter
  <1>4. CASE Lookup(t)
    BY <1>4, GotoIsStutter, AnsweredIsAnswer, FinishIsAnswer DEF Lookup
  <1>5. CASE Reread(t)
    BY <1>5, AnsweredIsAnswer DEF Reread
  <1>6. CASE ReadContext(t)
    <2>1. terms[t].rate = rate /\ pc[t] # "done"
      BY <1>6 DEF IInv, RequestInv, TermsHold, Reading, ReadContext
    <2>2. CASE Finish(t, "not_found", NoSale)
      BY <2>1, <2>2, FinishIsAnswer
    <2>3. CASE (\E e \in Context(c) : status[e] = "inactive") /\ Finish(t, "inactive", NoSale)
      BY <2>1, <2>3, FinishIsAnswer
    <2>4. CASE PriceError(c, tags, rate) # "none" /\ Finish(t, PriceError(c, tags, rate), NoSale)
      BY <2>1, <2>4, FinishIsAnswer
    <2> QED
      BY <1>6, <2>1, <2>2, <2>3, <2>4, GotoIsStutter DEF ReadContext
  <1>7. CASE Approve(t)
    <2>1. pc[t] = "approve" /\ NeedsPin(c, tags, rate)
      BY <1>7, AskedOnCurrentTerms DEF Approve
    <2>2. CASE credentials[c.approval.approver].until > clock /\ Finish(t, "pin_locked", NoSale)
      BY <2>1, <2>2, FinishIsAnswer
    <2> QED
      BY <1>7, <2>2, GotoIsStutter DEF Approve
  <1>8. CASE DebitLines(t)
    <2>1. CASE (\E p \in Sold(c) : Short(c, p)) /\ Finish(t, "insufficient", NoSale)
      BY <1>8, <2>1, FinishIsAnswer DEF DebitLines, Short
    <2> QED
      BY <1>8, <2>1, GotoIsStutter DEF DebitLines
  <1>9. CASE Fail(t)
    BY <1>9, FinishIsAnswer DEF Fail
  <1>10. CASE DeadlockVictim(t)
    <2>1. PICK ts \in SUBSET Requests : t \in ts /\ Deadlock(ts)
      BY <1>10 DEF DeadlockVictim
    <2>2. pc[t] # "done"
      BY <2>1 DEF Deadlock, WaitsFor
    <2> QED
      BY <1>10, <2>2, FinishIsAnswer DEF DeadlockVictim
  <1> QED
    BY <1>1, <1>2, <1>3, <1>4, <1>5, <1>6, <1>7, <1>8, <1>9, <1>10 DEF Statement

\* The catalog, the policy, the PINs and the time go on as in the ledger.
LEMMA AroundIsStep ==
  ASSUME (\E e \in Updated : UpdateCatalog(e)) \/ UpdatePolicy
           \/ (\E m \in Changing : SetPin(m)) \/ Tick,
         IInv
  PROVE  Ledger!Next
  <1>1. ASSUME NEW e \in Updated, UpdateCatalog(e)
        PROVE  Ledger!UpdateCatalog(e) /\ e \in Ledger!Entities
    BY <1>1, SameWords, ActorAssumption
    DEF UpdateCatalog, Ledger!UpdateCatalog, Around, books, Ledger!ledger, Entities
  <1>2. CASE UpdatePolicy
    BY <1>2 DEF UpdatePolicy, Ledger!UpdatePolicy, Around, books, catalog, Ledger!ledger,
                Ledger!Next
  <1>3. ASSUME NEW m \in Changing, SetPin(m)
        PROVE  Ledger!SetPin(m) /\ m \in Admins
    BY <1>3, ActorAssumption
    DEF SetPin, Ledger!SetPin, Around, books, catalog, Ledger!ledger, Ledger!terms
  <1>4. CASE Tick
    <2>1. clock' > clock
      BY <1>4 DEF IInv, TypeOK, Tick
    <2> QED
      BY <1>4, <2>1
      DEF Tick, Ledger!Tick, Around, books, catalog, Ledger!ledger, Ledger!terms, Ledger!Next
  <1> QED
    BY <1>1, <1>2, <1>3, <1>4 DEF Ledger!Next

LEMMA InitIsInit == Init => Ledger!Init
  BY SameWords DEF Init, Ledger!Init

LEMMA NextIsStep == IInv /\ [Next]_vars => [Ledger!Next]_(Ledger!ledgerVars)
  <1>1. CASE UNCHANGED vars
    BY <1>1 DEF vars, catalog, books, Ledger!ledgerVars, Ledger!terms, Ledger!ledger
  <1> QED
    BY <1>1, StatementIsStep, AroundIsStep DEF Next

\* Statement by statement, under every interleaving, create_sale is the atomic sale
\* of SaleLedger.
THEOREM Implementation == Spec => ImplementsSaleLedger
  BY InitIsInit, NextIsStep, InitInv, NextInv, PTL
  DEF Spec, ImplementsSaleLedger, Ledger!Spec

-------------------------------------------------------------------------------
(* What is recorded, and what is told *)

\* Only a commit changes the books.
LEMMA BooksChange ==
  ASSUME [Next]_vars
  PROVE  \/ \E t \in Requests : Commit(t)
         \/ UNCHANGED <<stock, issues, sales>>
  <1>1. ASSUME NEW t \in Requests, Statement(t) \/ DeadlockVictim(t) \/ Fail(t), ~Commit(t)
        PROVE  UNCHANGED <<stock, issues, sales>>
    <2>1. CASE \E next : Goto(t, next)
      BY <2>1 DEF Goto, books
    <2>2. CASE \E o, s : Finish(t, o, s)
      BY <2>2 DEF Finish, books
    <2>3. CASE Lookup(t) \/ ReadPolicy(t) \/ ReadContext(t) \/ Approve(t) \/ Reread(t)
      BY <2>1, <2>2, <2>3 DEF Lookup, ReadPolicy, ReadContext, Approve, Reread, Answered
    <2>4. CASE SeedRow(t) \/ LockRow(t) \/ InsertSale(t) \/ Reference(t) \/ DebitLines(t)
      BY <2>1, <2>2, <2>4
      DEF SeedRow, LockRow, Visited, InsertSale, Reference, DebitLines
    <2>5. CASE CountMiss(t)
      BY <2>5 DEF CountMiss, books
    <2>6. CASE DeadlockVictim(t) \/ Fail(t)
      BY <2>2, <2>6 DEF DeadlockVictim, Fail
    <2> QED
      BY <1>1, <2>3, <2>4, <2>5, <2>6 DEF Statement
  <1>2. ASSUME (\E e \in Updated : UpdateCatalog(e)) \/ UpdatePolicy
                 \/ (\E m \in Changing : SetPin(m)) \/ Tick
        PROVE  UNCHANGED <<stock, issues, sales>>
    BY <1>2 DEF UpdateCatalog, UpdatePolicy, SetPin, Tick, Around, books
  <1>3. CASE UNCHANGED vars
    BY <1>3 DEF vars, books
  <1> QED
    BY <1>1, <1>2, <1>3 DEF Next

\* What a commit adds to the books.
LEMMA CommitAdds ==
  ASSUME IInv, NEW t \in Requests, Commit(t)
  PROVE  LET c == cmd[t]
             issue(x) == [key |-> c.key, quantity |-> LineOf(c, x[1]).quantity,
                          after |-> stock'[x]]
         IN
         /\ \A x \in Cell :
              IF \E p \in Sold(c) : x = CellOf(c, p)
              THEN /\ stock'[x] = stock[x] - LineOf(c, x[1]).quantity
                   /\ issues'[x] = Append(issues[x], issue(x))
              ELSE stock'[x] = stock[x] /\ issues'[x] = issues[x]
         /\ \E s : s.command = c /\ sales' = sales \cup {s}
         /\ \A p \in Sold(c) : CellOf(c, p) \in Cell /\ CellOf(c, p)[1] = p
         /\ Recorded(c, sales) = {}
  <1> DEFINE c == cmd[t]
  <1>1. pc[t] = "commit" /\ c \in Commands
    BY CommitKnows DEF Commit
  <1>2. \A p \in Sold(c) : CellOf(c, p) \in Cell /\ CellOf(c, p)[1] = p
    BY <1>1, CommandParts DEF CellOf
  <1>3. \A x \in Cell : (\E p \in Sold(c) : x = CellOf(c, p)) <=> x[2] = c.shop /\ x[1] \in Sold(c)
    BY <1>1, CommandParts DEF CellOf, Cell
  <1>4. /\ stock' = [x \in Cell |->
             IF x[2] = c.shop /\ x[1] \in Sold(c) THEN stock[x] - LineOf(c, x[1]).quantity
             ELSE stock[x]]
        /\ stock' = StockAfter(c, stock) /\ issues' = IssuesAfter(c, stock, issues)
    BY CommitBooks DEF StockAfter
  <1>5. issues' = [x \in Cell |->
           IF x[2] = c.shop /\ x[1] \in Sold(c)
           THEN Append(issues[x], [key |-> c.key, quantity |-> LineOf(c, x[1]).quantity,
                                   after |-> stock'[x]])
           ELSE issues[x]]
    BY <1>4 DEF IssuesAfter
  <1>6. /\ SaleOf(c, terms[t].tags, terms[t].rate).command = c
        /\ sales' = sales \cup {SaleOf(c, terms[t].tags, terms[t].rate)}
    BY DEF Commit, SaleOf
  <1>7. Recorded(c, sales) = {}
    BY <1>1, CommitKnows
  <1> HIDE DEF c
  <1>8. \E s : s.command = c /\ sales' = sales \cup {s}
    BY <1>6
  <1>9. ASSUME NEW x \in Cell
        PROVE  IF \E p \in Sold(c) : x = CellOf(c, p)
               THEN /\ stock'[x] = stock[x] - LineOf(c, x[1]).quantity
                    /\ issues'[x] = Append(issues[x],
                         [key |-> c.key, quantity |-> LineOf(c, x[1]).quantity,
                          after |-> stock'[x]])
               ELSE stock'[x] = stock[x] /\ issues'[x] = issues[x]
    BY <1>3, <1>4, <1>5
  <1> QED
    BY <1>2, <1>7, <1>8, <1>9 DEF c

\* Where issue j of cell x starts from, where the issues of x are those of g.
Before(g, x, j) == IF j = 1 THEN Opening[x] ELSE g[j - 1].after

LEMMA ChainStep == IInv /\ [Next]_vars /\ IssueChain => IssueChain'
  <1> SUFFICES ASSUME IInv, [Next]_vars, IssueChain
               PROVE  IssueChain'
    OBVIOUS
  <1>1. CASE UNCHANGED <<stock, issues, sales>>
    BY <1>1 DEF IssueChain, Ledger!IssueChain
  <1>2. ASSUME NEW t \in Requests, Commit(t)
        PROVE  IssueChain'
    <2>1. SUFFICES ASSUME NEW x \in Cell
                   PROVE  /\ \A j \in DOMAIN issues'[x] :
                               issues'[x][j].after
                                 = Before(issues'[x], x, j) - issues'[x][j].quantity
                          /\ stock'[x] = Before(issues'[x], x, Len(issues'[x]) + 1)
      BY SameWords DEF IssueChain, Ledger!IssueChain, Before
    <2> DEFINE g == issues[x]
               k == Len(g)
    <2>2. /\ \A j \in DOMAIN g : g[j].after = Before(g, x, j) - g[j].quantity
          /\ stock[x] = Before(g, x, k + 1)
      BY SameWords DEF IssueChain, Ledger!IssueChain, Before
    <2>3. g \in Seq(Issue) /\ k \in Nat /\ DOMAIN g = 1 .. k
      BY DEF IInv, TypeOK
    <2>4. CASE stock'[x] = stock[x] /\ issues'[x] = issues[x]
      BY <2>2, <2>4 DEF Before
    <2>5. ASSUME NEW q, NEW key, stock'[x] = stock[x] - q,
                 issues'[x] = Append(g, [key |-> key, quantity |-> q, after |-> stock'[x]])
          PROVE  /\ \A j \in DOMAIN issues'[x] :
                      issues'[x][j].after = Before(issues'[x], x, j) - issues'[x][j].quantity
                 /\ stock'[x] = Before(issues'[x], x, Len(issues'[x]) + 1)
      <3> DEFINE new == [key |-> key, quantity |-> q, after |-> stock'[x]]
                 h == issues'[x]
      <3>1. new.after = stock'[x] /\ new.quantity = q
        OBVIOUS
      <3> HIDE DEF new
      <3>2. /\ DOMAIN h = 1 .. k + 1 /\ Len(h) = k + 1 /\ h[k + 1] = new
            /\ \A j \in 1 .. k : h[j] = g[j]
        BY <2>3, <2>5 DEF new
      <3>3. \A j \in 1 .. k + 1 : Before(h, x, j) = Before(g, x, j)
        <4>1. \A j \in 1 .. k + 1 : j # 1 => j - 1 \in 1 .. k
          BY <2>3
        <4> HIDE DEF g, k, h
        <4> QED
          BY <3>2, <4>1 DEF Before
      <3>4. Before(g, x, k + 1) = stock[x]
        BY <2>2
      <3>5. Before(h, x, k + 2) = h[k + 1].after
        <4>1. k + 2 # 1 /\ (k + 2) - 1 = k + 1
          BY <2>3
        <4> HIDE DEF g, k, h
        <4> QED
          BY <4>1 DEF Before
      <3>6. ASSUME NEW j \in 1 .. k + 1
            PROVE  h[j].after = Before(h, x, j) - h[j].quantity
        <4>1. CASE j \in 1 .. k
          BY <2>2, <2>3, <3>2, <3>3, <4>1
        <4>2. CASE j = k + 1
          BY <2>5, <3>1, <3>2, <3>3, <3>4, <4>2
        <4> QED
          BY <2>3, <4>1, <4>2
      <3>7. stock'[x] = Before(h, x, Len(h) + 1)
        <4>1. Len(h) + 1 = k + 2
          BY <2>3, <3>2
        <4> QED
          BY <3>1, <3>2, <3>5, <4>1
      <3> QED
        BY <3>2, <3>6, <3>7
    <2>6. \/ stock'[x] = stock[x] /\ issues'[x] = issues[x]
          \/ /\ stock'[x] = stock[x] - LineOf(cmd[t], x[1]).quantity
             /\ issues'[x] = Append(issues[x],
                  [key |-> cmd[t].key, quantity |-> LineOf(cmd[t], x[1]).quantity,
                   after |-> stock'[x]])
      <3>1. IF \E p \in Sold(cmd[t]) : x = CellOf(cmd[t], p)
            THEN /\ stock'[x] = stock[x] - LineOf(cmd[t], x[1]).quantity
                 /\ issues'[x] = Append(issues[x],
                      [key |-> cmd[t].key, quantity |-> LineOf(cmd[t], x[1]).quantity,
                       after |-> stock'[x]])
            ELSE stock'[x] = stock[x] /\ issues'[x] = issues[x]
        BY <1>2, <2>1, CommitAdds
      <3> QED
        BY <3>1
    <2> QED
      BY <2>4, <2>5, <2>6
  <1> QED
    BY <1>1, <1>2, BooksChange

\* No sale loses what another has debited.
THEOREM NoLostDebit == Spec => []IssueChain
  <1>1. Init => IssueChain
    <2> SUFFICES ASSUME Init, NEW x \in Cell
                 PROVE  /\ DOMAIN issues[x] = {}
                        /\ stock[x] = Opening[x] /\ Len(issues[x]) + 1 = 1
      BY SameWords DEF IssueChain, Ledger!IssueChain
    <2> QED
      BY DEF Init
  <1> QED
    BY <1>1, ChainStep, InitInv, NextInv, PTL DEF Spec

\* SoldOnce for the sales ss and the movements is.
KeysOnce(ss) == \A r, s \in ss : r.command.key = s.command.key => r = s
AllIssued(ss, is) ==
  \A s \in ss : \A p \in Ledger!Sold(s.command) :
    \E j \in DOMAIN is[Ledger!CellOf(s.command, p)] :
      /\ is[Ledger!CellOf(s.command, p)][j].key = s.command.key
      /\ is[Ledger!CellOf(s.command, p)][j].quantity = Ledger!LineOf(s.command, p).quantity
Due(ss, x, key) ==
  \E s \in ss : /\ s.command.key = key
                /\ \E p \in Ledger!Sold(s.command) : x = Ledger!CellOf(s.command, p)
NoneBeside(ss, is) ==
  \A x \in Ledger!Cell : \A j \in DOMAIN is[x] :
    /\ Due(ss, x, is[x][j].key)
    /\ \A k \in DOMAIN is[x] : is[x][j].key = is[x][k].key => j = k
OnceIn(ss, is) == KeysOnce(ss) /\ AllIssued(ss, is) /\ NoneBeside(ss, is)

LEMMA SoldOnceParts ==
  /\ SoldOnce <=> OnceIn(sales, issues)
  /\ SoldOnce' <=> OnceIn(sales', issues')
  BY DEF SoldOnce, Ledger!SoldOnce, OnceIn, KeysOnce, AllIssued, NoneBeside, Due

LEMMA SoldOnceStep == IInv /\ [Next]_vars /\ SoldOnce => SoldOnce'
  <1> SUFFICES ASSUME IInv, [Next]_vars, SoldOnce
               PROVE  SoldOnce'
    OBVIOUS
  <1>0. KeysOnce(sales) /\ AllIssued(sales, issues) /\ NoneBeside(sales, issues)
    BY SoldOnceParts DEF OnceIn
  <1>1. CASE UNCHANGED <<stock, issues, sales>>
    BY <1>0, <1>1, SoldOnceParts DEF OnceIn
  <1>2. ASSUME NEW t \in Requests, Commit(t)
        PROVE  SoldOnce'
    <2> DEFINE c == cmd[t]
    <2>1. PICK new : new.command = c /\ sales' = sales \cup {new}
      BY <1>2, CommitAdds
    <2>2. \A s \in sales : s.command.key # c.key
      BY <1>2, CommitAdds DEF Recorded
    <2>3. \A p \in Sold(c) : CellOf(c, p) \in Cell /\ CellOf(c, p)[1] = p
      BY <1>2, CommitAdds
    <2>4. \A s \in sales : s.command \in Commands
      BY DEF IInv, TypeOK, Sale
    <2>5. ASSUME NEW x \in Cell
          PROVE  /\ issues[x] \in Seq(Issue)
                 /\ \/ issues'[x] = issues[x] /\ ~\E p \in Sold(c) : x = CellOf(c, p)
                    \/ /\ \E p \in Sold(c) : x = CellOf(c, p)
                       /\ \E a : issues'[x] = Append(issues[x],
                            [key |-> c.key, quantity |-> LineOf(c, x[1]).quantity, after |-> a])
      <3>1. issues[x] \in Seq(Issue)
        BY DEF IInv, TypeOK
      <3>2. IF \E p \in Sold(c) : x = CellOf(c, p)
            THEN issues'[x] = Append(issues[x],
                   [key |-> c.key, quantity |-> LineOf(c, x[1]).quantity, after |-> stock'[x]])
            ELSE issues'[x] = issues[x]
        BY <1>2, <2>5, CommitAdds
      <3> HIDE DEF c
      <3> QED
        BY <3>1, <3>2
    <2> HIDE DEF c
    <2>6. ASSUME NEW x \in Cell, \E p \in Sold(c) : x = CellOf(c, p)
          PROVE  LET n == Len(issues[x]) IN
                 /\ n \in Nat /\ DOMAIN issues[x] = 1 .. n /\ DOMAIN issues'[x] = 1 .. n + 1
                 /\ \A j \in 1 .. n : issues'[x][j] = issues[x][j]
                 /\ issues'[x][n + 1].key = c.key
                 /\ issues'[x][n + 1].quantity = LineOf(c, x[1]).quantity
      <3>1. PICK a : issues'[x] = Append(issues[x],
               [key |-> c.key, quantity |-> LineOf(c, x[1]).quantity, after |-> a])
        BY <2>5, <2>6
      <3> DEFINE e == [key |-> c.key, quantity |-> LineOf(c, x[1]).quantity, after |-> a]
      <3>2. e.key = c.key /\ e.quantity = LineOf(c, x[1]).quantity
        OBVIOUS
      <3>3. issues'[x] = Append(issues[x], e) /\ issues[x] \in Seq(Issue)
        BY <2>5, <3>1
      <3> HIDE DEF e
      <3> QED
        BY <3>2, <3>3
    <2>7. \A x \in Cell : \A j \in DOMAIN issues[x] :
            j \in DOMAIN issues'[x] /\ issues'[x][j] = issues[x][j]
      BY <2>5, <2>6
    <2>8. \A r, s \in sales' : r.command.key = s.command.key => r = s
      BY <1>0, <2>1, <2>2 DEF KeysOnce
    <2>9. ASSUME NEW s \in sales', NEW p \in Sold(s.command)
          PROVE  \E j \in DOMAIN issues'[CellOf(s.command, p)] :
                   /\ issues'[CellOf(s.command, p)][j].key = s.command.key
                   /\ issues'[CellOf(s.command, p)][j].quantity = LineOf(s.command, p).quantity
      <3>1. CASE s \in sales
        <4>1. CellOf(s.command, p) \in Cell
          BY <2>4, <2>9, <3>1, CommandParts
        <4> QED
          BY <1>0, <2>7, <2>9, <3>1, <4>1, SameWords DEF AllIssued
      <3>2. CASE s = new
        <4> DEFINE x == CellOf(c, p)
        <4>1. x \in Cell /\ x[1] = p /\ (\E q \in Sold(c) : x = CellOf(c, q)) /\ s.command = c
          BY <2>1, <2>3, <2>9, <3>2
        <4> HIDE DEF x
        <4>2. Len(issues[x]) + 1 \in DOMAIN issues'[x]
          BY <2>6, <4>1
        <4>3. \E j \in DOMAIN issues'[x] :
                issues'[x][j].key = c.key /\ issues'[x][j].quantity = LineOf(c, p).quantity
          BY <2>6, <4>1, <4>2
        <4> QED
          BY <4>1, <4>3 DEF x
      <3> QED
        BY <2>1, <2>9, <3>1, <3>2
    <2>10. ASSUME NEW x \in Cell, NEW j \in DOMAIN issues'[x]
           PROVE  /\ Due(sales', x, issues'[x][j].key)
                  /\ \A k \in DOMAIN issues'[x] :
                       issues'[x][j].key = issues'[x][k].key => j = k
      <3>1. \A key : Due(sales, x, key) => Due(sales', x, key) /\ key # c.key
        BY <2>1, <2>2 DEF Due
      <3>2. \A i \in DOMAIN issues[x] :
              /\ Due(sales, x, issues[x][i].key)
              /\ \A k \in DOMAIN issues[x] : issues[x][i].key = issues[x][k].key => i = k
        BY <1>0, SameWords DEF NoneBeside
      <3>3. CASE issues'[x] = issues[x]
        BY <2>10, <3>1, <3>2, <3>3
      <3>4. CASE \E p \in Sold(c) : x = CellOf(c, p)
        <4> DEFINE n == Len(issues[x])
        <4>1. /\ n \in Nat /\ DOMAIN issues[x] = 1 .. n /\ DOMAIN issues'[x] = 1 .. n + 1
              /\ \A i \in 1 .. n : issues'[x][i] = issues[x][i]
              /\ issues'[x][n + 1].key = c.key
          BY <2>6, <2>10, <3>4
        <4> HIDE DEF n
        <4>2. \A i \in 1 .. n : /\ issues'[x][i].key # c.key
                                /\ Due(sales', x, issues'[x][i].key)
          BY <3>1, <3>2, <4>1
        <4>3. Due(sales', x, c.key)
          BY <2>1, <3>4, SameWords DEF Due
        <4>4. CASE j \in 1 .. n
          <5>1. /\ Due(sales', x, issues'[x][j].key)
                /\ issues'[x][j].key # issues'[x][n + 1].key
            BY <4>1, <4>2, <4>4
          <5>2. \A k \in 1 .. n : issues'[x][j].key = issues'[x][k].key => j = k
            BY <3>2, <4>1, <4>4
          <5> QED
            BY <4>1, <5>1, <5>2
        <4>5. CASE j = n + 1
          BY <4>1, <4>2, <4>3, <4>5
        <4> QED
          BY <2>10, <4>1, <4>4, <4>5
      <3> QED
        BY <2>5, <3>3, <3>4
    <2> QED
      BY <2>8, <2>9, <2>10, SoldOnceParts, SameWords DEF OnceIn, KeysOnce, AllIssued, NoneBeside
  <1> QED
    BY <1>1, <1>2, BooksChange

\* A key sells once, and the movements are those of the lines of recorded sales, none
\* missing and none twice.
THEOREM OncePerKey == Spec => []SoldOnce
  <1>1. Init => SoldOnce
    <2> SUFFICES ASSUME Init PROVE OnceIn(sales, issues)
      BY SoldOnceParts
    <2>1. sales = {} /\ \A x \in Ledger!Cell : DOMAIN issues[x] = {}
      BY SameWords DEF Init
    <2> QED
      BY <2>1 DEF OnceIn, KeysOnce, AllIssued, NoneBeside
  <1> QED
    BY <1>1, SoldOnceStep, InitInv, NextInv, PTL DEF Spec

\* What a step tells request t, and how it leaves what the others were told.
LEMMA AnswersChange ==
  ASSUME IInv, [Next]_vars, NEW t \in Requests, answer'[t] # answer[t]
  PROVE  /\ answer[t].outcome = "pending"
         /\ \A u \in Requests \ {t} : answer'[u] = answer[u]
         /\ \/ Commit(t) /\ answer'[t].outcome = "created"
               /\ answer'[t].sale = SaleOf(cmd[t], terms[t].tags, terms[t].rate)
            \/ /\ answer'[t].outcome = "replayed"
               /\ answer'[t].sale \in Recorded(cmd[t], sales)
               /\ Digest(answer'[t].sale.command) = Digest(cmd[t])
            \/ DebitLines(t) /\ answer'[t].outcome = "insufficient"
            \/ answer'[t].outcome \notin {"created", "replayed", "insufficient"}
  <1>0. TypeOK
    BY DEF IInv
  <1>1. PICK u \in Requests : Statement(u) \/ DeadlockVictim(u) \/ Fail(u)
    BY DEF Next, vars, UpdateCatalog, UpdatePolicy, SetPin, Tick, Around
  <1>2. CASE \E next : Goto(u, next)
    BY <1>2 DEF Goto
  <1>3. ASSUME NEW o, NEW s, Tell(u, o, s), pc[u] # "done"
        PROVE  /\ u = t /\ answer'[t].outcome = o /\ answer'[t].sale = s
               /\ answer[t].outcome = "pending"
               /\ \A w \in Requests \ {t} : answer'[w] = answer[w]
    <2>1. u = t
      BY <1>0, <1>3 DEF Tell, TypeOK
    <2>2. answer[t].outcome = "pending"
      BY <1>3, <2>1 DEF IInv, RequestInv
    <2>3. answer'[t] = [outcome |-> o, sale |-> s]
      BY <1>0, <1>3, <2>1 DEF Tell, TypeOK
    <2> QED
      BY <1>0, <1>3, <2>1, <2>2, <2>3 DEF Tell, TypeOK
  <1>4. ASSUME NEW o, NEW s, Finish(u, o, s), pc[u] # "done",
               o \notin {"created", "replayed", "insufficient"}
        PROVE  /\ u = t /\ answer'[t].outcome = o
               /\ answer[t].outcome = "pending"
               /\ \A w \in Requests \ {t} : answer'[w] = answer[w]
    BY <1>3, <1>4 DEF Finish
  <1>5. CASE pc[u] # "done" /\ Answered(u)
    <2>1. PICK s \in Recorded(cmd[u], sales) :
            \/ Digest(s.command) = Digest(cmd[u]) /\ Finish(u, "replayed", s)
            \/ Finish(u, "conflict", NoSale)
      BY <1>5 DEF Answered, SameSale
    <2>2. CASE Finish(u, "conflict", NoSale)
      BY <1>4, <1>5, <2>2
    <2>3. CASE Digest(s.command) = Digest(cmd[u]) /\ Finish(u, "replayed", s)
      BY <1>3, <1>5, <2>3 DEF Finish
    <2> QED
      BY <2>1, <2>2, <2>3
  <1>6. CASE Commit(u)
    <2>1. PICK o, s : /\ Tell(u, o, s)
                      /\ \/ o = "created" /\ s = SaleOf(cmd[u], terms[u].tags, terms[u].rate)
                         \/ o = "unavailable"
      BY <1>6 DEF Commit
    <2>2. pc[u] # "done"
      BY <1>6 DEF Commit
    <2> QED
      BY <1>3, <1>6, <2>1, <2>2
  <1>7. CASE CountMiss(u)
    <2>1. PICK o \in {"pin_invalid", "unavailable"} : Tell(u, o, NoSale)
      BY <1>7 DEF CountMiss
    <2>2. pc[u] # "done"
      BY <1>7 DEF CountMiss
    <2> QED
      BY <1>3, <2>1, <2>2
  <1>8. CASE Lookup(u) \/ Reread(u)
    <2>1. pc[u] # "done"
      BY <1>8 DEF Lookup, Reread
    <2>2. CASE Finish(u, "invalid", NoSale)
      BY <1>4, <2>1, <2>2
    <2> QED
      BY <1>2, <1>5, <1>8, <2>1, <2>2 DEF Lookup, Reread
  <1>9. CASE ReadContext(u)
    <2>1. PriceError(cmd[u], tags, terms[u].rate) \notin {"created", "replayed", "insufficient"}
      BY DEF PriceError
    <2>2. pc[u] # "done"
      BY <1>9 DEF ReadContext
    <2>3. CASE \E o : o \notin {"created", "replayed", "insufficient"} /\ Finish(u, o, NoSale)
      BY <1>4, <2>2, <2>3
    <2> QED
      BY <1>2, <1>9, <2>1, <2>3 DEF ReadContext
  <1>10. CASE Approve(u)
    <2>1. pc[u] # "done"
      BY <1>10 DEF Approve
    <2>2. CASE Finish(u, "pin_locked", NoSale)
      BY <1>4, <2>1, <2>2
    <2> QED
      BY <1>2, <1>10, <2>2 DEF Approve
  <1>11. CASE DebitLines(u)
    <2>1. pc[u] # "done"
      BY <1>11 DEF DebitLines
    <2>2. CASE Finish(u, "insufficient", NoSale)
      BY <1>3, <1>11, <2>1, <2>2 DEF Finish
    <2> QED
      BY <1>2, <1>11, <2>2 DEF DebitLines
  <1>12. CASE DeadlockVictim(u) \/ Fail(u)
    <2>1. pc[u] # "done"
      BY <1>12 DEF DeadlockVictim, Deadlock, WaitsFor, Fail
    <2>2. Finish(u, "unavailable", NoSale)
      BY <1>12 DEF DeadlockVictim, Fail
    <2> QED
      BY <1>4, <2>1, <2>2
  <1>13. CASE ReadPolicy(u) \/ SeedRow(u) \/ LockRow(u) \/ InsertSale(u) \/ Reference(u)
    <2>1. \E next : Goto(u, next)
      BY <1>13 DEF ReadPolicy, SeedRow, LockRow, InsertSale, Reference, Visited
    <2> QED
      BY <1>2, <2>1
  <1> QED
    BY <1>1, <1>6, <1>7, <1>8, <1>9, <1>10, <1>11, <1>12, <1>13 DEF Statement

\* A step changes no command and forgets no sale.
LEMMA SalesGrow ==
  ASSUME IInv, [Next]_vars
  PROVE  cmd' = cmd /\ sales \subseteq sales'
  <1>1. sales \subseteq sales'
    BY BooksChange DEF Commit
  <1>2. [Ledger!Next]_(Ledger!ledgerVars)
    BY NextIsStep
  <1>3. cmd' = cmd
    BY <1>2
    DEF Ledger!Next, Ledger!ledgerVars, Ledger!Sell, Ledger!Miss, Ledger!Replay,
        Ledger!Refuse, Ledger!UpdateCatalog, Ledger!UpdatePolicy, Ledger!SetPin, Ledger!Tick
  <1> QED
    BY <1>1, <1>3

\* What was told of a sale holds of the sales ss and the answers told.
ToldTruly(ss, told, t) ==
  told[t].outcome \in {"created", "replayed"} =>
    told[t].sale \in Recorded(cmd[t], ss) /\ Digest(told[t].sale.command) = Digest(cmd[t])
FirstOnce(told, t, u) ==
  told[t].outcome = "created" /\ told[u].outcome = "created" /\ cmd[t].key = cmd[u].key => t = u

LEMMA DurableParts ==
  ASSUME cmd' = cmd
  PROVE  /\ SalesDurable <=> \A t \in Requests : /\ ToldTruly(sales, answer, t)
                                                 /\ \A u \in Requests : FirstOnce(answer, t, u)
         /\ SalesDurable' <=> \A t \in Requests :
              /\ ToldTruly(sales', answer', t)
              /\ \A u \in Requests : FirstOnce(answer', t, u)
  BY SameWords DEF SalesDurable, Ledger!SalesDurable, ToldTruly, FirstOnce

LEMMA DurableStep == IInv /\ [Next]_vars /\ SalesDurable => SalesDurable'
  <1> SUFFICES ASSUME IInv, [Next]_vars, SalesDurable
               PROVE  SalesDurable'
    OBVIOUS
  <1>1. cmd' = cmd /\ sales \subseteq sales'
    BY SalesGrow
  <1>2. \A t \in Requests : /\ ToldTruly(sales, answer, t)
                            /\ \A u \in Requests : FirstOnce(answer, t, u)
    BY <1>1, DurableParts
  <1>3. ASSUME NEW t \in Requests, Commit(t), answer'[t].outcome = "created",
               answer'[t].sale = SaleOf(cmd[t], terms[t].tags, terms[t].rate)
        PROVE  /\ answer'[t].sale \in Recorded(cmd[t], sales')
               /\ answer'[t].sale.command = cmd[t]
               /\ Recorded(cmd[t], sales) = {}
    <2>1. sales' = sales \cup {answer'[t].sale} /\ answer'[t].sale.command = cmd[t]
      BY <1>3 DEF Commit, SaleOf
    <2>2. Recorded(cmd[t], sales) = {}
      BY <1>3, CommitKnows DEF Commit
    <2> QED
      BY <2>1, <2>2 DEF Recorded
  <1>4. ASSUME NEW t \in Requests
        PROVE  ToldTruly(sales', answer', t)
    <2>1. CASE answer'[t] = answer[t]
      BY <1>1, <1>2, <2>1 DEF ToldTruly, Recorded
    <2>2. CASE answer'[t] # answer[t]
      BY <1>1, <1>3, <2>2, AnswersChange DEF ToldTruly, Recorded
    <2> QED
      BY <2>1, <2>2
  <1>5. ASSUME NEW t \in Requests, NEW u \in Requests, t # u,
               answer'[t].outcome = "created", answer'[u].outcome = "created",
               cmd[t].key = cmd[u].key, answer'[t] # answer[t]
        PROVE  FALSE
    <2>1. answer'[u] = answer[u] /\ Recorded(cmd[t], sales) = {}
      BY <1>3, <1>5, AnswersChange
    <2>2. answer[u].sale \in Recorded(cmd[u], sales)
      BY <1>2, <1>5, <2>1 DEF ToldTruly
    <2> QED
      BY <1>5, <2>1, <2>2 DEF Recorded
  <1>6. ASSUME NEW t \in Requests, NEW u \in Requests
        PROVE  FirstOnce(answer', t, u)
    <2>1. CASE answer'[t] = answer[t] /\ answer'[u] = answer[u]
      BY <1>2, <2>1 DEF FirstOnce
    <2>2. CASE answer'[t] # answer[t] \/ answer'[u] # answer[u]
      BY <1>5, <2>2 DEF FirstOnce
    <2> QED
      BY <2>1, <2>2
  <1> QED
    BY <1>1, <1>4, <1>6, DurableParts

\* A caller told that its sale was made can rely on it, and is alone with its key.
THEOREM NoFalseAnswer == Spec => []SalesDurable
  <1>1. Init => SalesDurable
    BY DEF Init, SalesDurable, Ledger!SalesDurable
  <1> QED
    BY <1>1, DurableStep, InitInv, NextInv, PTL DEF Spec

\* A repeated call is not refused for want of the stock that its first call sold.
THEOREM RepeatsAreReplayed == Spec => RepeatsNotShort
  <1>1. IInv /\ [Next]_vars =>
          \A t \in Requests :
            answer'[t] # answer[t] /\ answer'[t].outcome = "insufficient"
              => Recorded(cmd[t], sales) = {}
    <2> SUFFICES ASSUME IInv, [Next]_vars, NEW t \in Requests, answer'[t] # answer[t],
                        answer'[t].outcome = "insufficient"
                 PROVE  Recorded(cmd[t], sales) = {}
      OBVIOUS
    <2>1. DebitLines(t)
      BY AnswersChange
    <2> QED
      BY <2>1 DEF IInv, RequestInv, DebitLines, InFlight
  <1>2. IInv /\ [Next]_vars =>
          [\A t \in Requests :
             answer'[t] # answer[t] /\ answer'[t].outcome = "insufficient"
               => Recorded(cmd[t], sales) = {}]_vars
    BY <1>1
  <1> QED
    BY <1>2, InitInv, NextInv, PTL DEF Spec, RepeatsNotShort

\* What a sale may rely on at the instant it is recorded.
OnTerms(s) ==
  LET c == s.command IN
  /\ s.lines = LinesOf(c, tags)
  /\ \A e \in Context(c) : status[e] = "active"
  /\ PriceError(c, tags, rate) = "none"
  /\ Exceptional(c, tags, rate) =>
       /\ s.approver \in Admins
       /\ s.approver # c.seller =>
            /\ credentials[s.approver].pin = c.approval.pin
            /\ credentials[s.approver].until <= clock

LEMMA CommitOnTerms ==
  ASSUME IInv, NEW t \in Requests, Commit(t), NEW s \in sales' \ sales
  PROVE  OnTerms(s)
  <1> DEFINE c == cmd[t]
             mine == terms[t].tags
  <1>1. pc[t] = "commit" /\ terms[t].rate = rate /\ \A p \in Sold(c) : mine[p] = tags[p]
    BY CommitKnows DEF Commit
  <1>2. /\ PriceError(c, mine, rate) = "none"
        /\ \A e \in Context(c) : status[e] = "active"
    BY <1>1, CommitKnows
  <1>3. /\ PriceError(c, tags, rate) = "none"
        /\ NeedsPin(c, mine, rate) <=> NeedsPin(c, tags, rate)
        /\ SaleOf(c, mine, rate) = SaleOf(c, tags, rate)
    BY <1>1, <1>2, SameTags
  <1>4. NeedsPin(c, tags, rate) =>
          credentials[c.approval.approver].until <= clock /\ Accepts(c.approval, credentials)
    BY <1>1, <1>3, CommitKnows DEF Needs, Approver
  <1>5. s = SaleOf(c, tags, rate)
    BY <1>1, <1>3 DEF Commit
  <1> HIDE DEF c
  <1>6. s.command = c /\ s.lines = LinesOf(c, tags) /\ s.approver = ApprovedBy(c, tags, rate)
    BY <1>5 DEF SaleOf
  <1>7. Exceptional(c, tags, rate) =>
          \/ c.seller \in Admins /\ s.approver = c.seller
          \/ NeedsPin(c, tags, rate) /\ s.approver = c.approval.approver
    BY <1>3, <1>6, NoPriceError DEF ApprovedBy, NeedsPin
  <1>8. PriceError(c, tags, rate) = "none" /\ \A e \in Context(c) : status[e] = "active"
    BY <1>2, <1>3 DEF c
  <1> QED
    BY <1>4, <1>6, <1>7, <1>8 DEF OnTerms, Accepts

\* A sale is made on the prices, the policy and the approval of the instant it commits.
THEOREM OnCurrentTerms == Spec => SoldOnCurrentTerms
  <1>1. IInv /\ [Next]_vars => \A s \in sales' \ sales : OnTerms(s)
    BY BooksChange, CommitOnTerms
  <1>2. IInv /\ [Next]_vars =>
          [\A s \in sales' \ sales :
             LET c == s.command IN
             /\ s.lines = LinesOf(c, tags)
             /\ \A e \in Context(c) : status[e] = "active"
             /\ PriceError(c, tags, rate) = "none"
             /\ Exceptional(c, tags, rate) =>
                  /\ s.approver \in Admins
                  /\ s.approver # c.seller =>
                       /\ credentials[s.approver].pin = c.approval.pin
                       /\ credentials[s.approver].until <= clock]_vars
    BY <1>1 DEF OnTerms
  <1> QED
    BY <1>2, InitInv, NextInv, PTL DEF Spec, SoldOnCurrentTerms

-------------------------------------------------------------------------------
(* Deadlocks *)

\* Whom a request waits for in its statements on balances has come further in the
\* order of the products, or has seeded its rows already.
LEMMA RowsWaited ==
  ASSUME IInv, NEW t \in Requests, NEW u \in WaitsFor(t), u \in Requests,
         pc[t] \in {"seed", "lock"}, pc[u] \in {"seed", "lock"}
  PROVE  /\ pc[t] = "lock" => pc[u] = "lock"
         /\ \E p \in Foremost(todo[t]) :
              pc[u] = pc[t] => \A q \in Foremost(todo[u]) : p < q
  <1> DEFINE at(p) == CellOf(cmd[t], p)
  <1>0. /\ TypeOK /\ InOrder(t) /\ InOrder(u) /\ RowsHeld(t) /\ RowsHeld(u)
        /\ cmd[t] \in Commands /\ cmd[u] \in Commands
    BY DEF IInv, RequestInv, TypeOK
  <1>1. u # t
    BY DEF WaitsFor, Rivals
  <1>2. PICK p \in Foremost(todo[t]) :
          owner[at(p)] = u /\ (pc[t] = "seed" => at(p) \notin rows)
    BY DEF WaitsFor
  <1>3. p \in Sold(cmd[t]) /\ at(p) \in Cell /\ at(p)[1] = p
    <2>1. p \in todo[t] /\ todo[t] \subseteq Sold(cmd[t])
      BY <1>0, <1>2 DEF Foremost, RowsHeld
    <2> QED
      BY <1>0, <2>1, CommandParts DEF CellOf
  <1>4. pc[t] = "lock" => at(p) \in rows
    BY <1>0, <1>1, <1>2, <1>3 DEF InOrder
  <1>5. pc[t] = "lock" => pc[u] = "lock"
    BY <1>0, <1>2, <1>3, <1>4 DEF InOrder
  <1>6. ASSUME pc[u] = pc[t], NEW q \in Foremost(todo[u])
        PROVE  p < q
    <2>1. p \in Sold(cmd[u]) \ todo[u]
      BY <1>0, <1>2, <1>3, <1>4, <1>6 DEF InOrder
    <2>2. q \in todo[u]
      BY <1>6 DEF Foremost
    <2> QED
      BY <1>0, <2>1, <2>2 DEF InOrder
  <1> QED
    BY <1>2, <1>5, <1>6

\* No circle in the order of the products.
LEMMA NoCircle ==
  ASSUME IInv, NEW us \in SUBSET Requests, NEW step \in {"seed", "lock"},
         \A t \in us : pc[t] = step /\ WaitsFor(t) \cap us # {}
  PROVE  us = {}
  <1> SUFFICES ASSUME us # {} PROVE FALSE
    OBVIOUS
  <1> DEFINE fronts == {p \in Products : \E t \in us : p \in Foremost(todo[t])}
  <1>1. ASSUME NEW t \in us
        PROVE  \E u \in us : \E p \in Foremost(todo[t]) : \A q \in Foremost(todo[u]) : p < q
    <2>1. PICK u \in us : u \in WaitsFor(t)
      OBVIOUS
    <2>2. t \in Requests /\ u \in Requests /\ pc[t] = step /\ pc[u] = step
      OBVIOUS
    <2>3. \E p \in Foremost(todo[t]) : pc[u] = pc[t] => \A q \in Foremost(todo[u]) : p < q
      BY <2>1, <2>2, RowsWaited
    <2> QED
      BY <2>2, <2>3
  <1>2. ASSUME NEW t \in us
        PROVE  /\ Foremost(todo[t]) \subseteq Products
               /\ \A p, q \in Foremost(todo[t]) : p = q
    <2>1. todo[t] \subseteq Products /\ todo[t] \subseteq Nat
      BY PartyAssumption DEF IInv, TypeOK
    <2> QED
      BY <2>1 DEF Foremost
  <1>3. fronts # {} /\ fronts \in SUBSET Products
    <2>1. PICK t \in us : TRUE
      OBVIOUS
    <2>2. PICK p \in Foremost(todo[t]) : TRUE
      BY <1>1, <2>1
    <2>3. p \in fronts
      BY <1>2, <2>1, <2>2
    <2> QED
      BY <2>3
  <1>4. PICK p \in fronts : \A q \in fronts : q <= p
    <2> HIDE DEF fronts
    <2> QED
      BY <1>3, CatalogAssumption
  <1>5. PICK t \in us : p \in Foremost(todo[t])
    OBVIOUS
  <1>6. PICK u \in us : \A q \in Foremost(todo[u]) : p < q
    <2>1. PICK u \in us, r \in Foremost(todo[t]) : \A q \in Foremost(todo[u]) : r < q
      BY <1>1, <1>5
    <2>2. r = p
      BY <1>2, <1>5, <2>1
    <2> QED
      BY <2>1, <2>2
  <1>7. PICK q \in Foremost(todo[u]) : TRUE
    BY <1>1, <1>6
  <1>8. q \in fronts /\ p < q /\ q \in Nat /\ p \in Nat
    BY <1>2, <1>4, <1>6, <1>7, PartyAssumption
  <1>9. q <= p
    BY <1>4, <1>8
  <1> QED
    BY <1>8, <1>9

\* Sales that lock no approver never wait for one another in a circle.
THEOREM DeadlockFree == Spec => []NoDeadlock
  <1>1. IInv => NoDeadlock
    <2> SUFFICES ASSUME IInv, NEW ts \in SUBSET Requests,
                        \A m \in Members : holder[m] \notin ts, Deadlock(ts)
                 PROVE  FALSE
      BY DEF NoDeadlock
    <2>1. ts # {} /\ \A t \in ts : WaitsFor(t) \cap ts # {}
      BY DEF Deadlock
    <2>2. \A t \in ts : pc[t] \notin {"debit", "commit"}
      BY <2>1 DEF WaitsFor
    <2>3. ASSUME NEW t \in ts, pc[t] = "approve"
          PROVE  FALSE
      <3>1. Approver(t) \in Members
        BY <2>3, AskedOnCurrentTerms
      <3>2. WaitsFor(t) \cap ts \subseteq SalesOf(Approver(t))
        BY <2>3, <3>1 DEF WaitsFor, Approver
      <3> QED
        BY <2>1, <2>2, <3>2 DEF SalesOf
    <2>4. ASSUME NEW t \in ts, pc[t] = "reference"
          PROVE  FALSE
      <3>1. cmd[t].seller \in Members
        BY CommandParts DEF IInv, TypeOK
      <3> QED
        BY <2>1, <2>4, <3>1 DEF WaitsFor
    <2>5. \A t \in ts : pc[t] # "insert"
      BY <2>1, <2>2, <2>4 DEF WaitsFor, Rivals
    <2>6. \A t \in ts : pc[t] \in {"seed", "lock"}
      BY <2>1, <2>2, <2>3, <2>4, <2>5 DEF WaitsFor
    <2> DEFINE us == {t \in ts : pc[t] = "lock"}
    <2>7. \A t \in us : WaitsFor(t) \cap us # {}
      BY <2>1, <2>6, RowsWaited
    <2>8. us = {}
      BY <2>7, NoCircle
    <2>9. \A t \in ts : pc[t] = "seed"
      BY <2>6, <2>8
    <2> QED
      BY <2>1, <2>9, NoCircle
  <1> QED
    BY <1>1, InitInv, NextInv, PTL DEF Spec
================================================================================
