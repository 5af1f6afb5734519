--------------------------- MODULE SaleReturnsProofs ---------------------------
(***************************************************************************)
(* SaleReturns keeps its types and implements ReturnLedger, for all sales, *)
(* commands and numbers of concurrent requests.                            *)
(*                                                                         *)
(* The inductive invariant says what the locks buy: while a request holds  *)
(* its sale no other adjusts it, so what it has checked stays true; the    *)
(* balances it has credited stay what it credited them from; and once its  *)
(* row is inserted its key is its own.                                     *)
(*                                                                         *)
(* What is proved of ReturnLedger comes with the receipts that are read    *)
(* from it, and so do the calls of get_sale_receipt beside SaleReturns.    *)
(***************************************************************************)
EXTENDS SaleReturns, TLAPS

CONSTANT Readers   \* calls of get_sale_receipt
VARIABLE receipt   \* what each of them has read

Receipts == INSTANCE ReturnLedgerProofs

\* The steps of a request that holds its sale, that has checked it, and that has
\* inserted its row.
Holding == {"check", "insert", "credit", "post", "commit"}
Checked == {"insert", "credit", "post", "commit"}
InFlight == {"credit", "post", "commit"}

\* Each credited balance is locked, and is what the committed one makes it.
CreditsHeld(t) ==
  LET c == cmd[t] IN
  \A i \in DOMAIN written[t] :
    /\ i \in DOMAIN EffectiveLines(c)
    /\ owner[CellOf(c, i)] = t
    /\ written[t][i] = stock[CellOf(c, i)] + QuantityOf(c, i)

\* What holds of a request wherever it is.
RequestInv(t) ==
  LET c == cmd[t] IN
  /\ pc[t] # "done" => answer[t].outcome = "pending"
  /\ pc[t] \notin {"lookup", "done"} => Valid(c)
  /\ pc[t] \in Holding => c.sale \in Sales /\ holder[c.sale] = t
  /\ pc[t] \in Checked => ~Adjusted(c, returns) /\ ~Exceeds(c, returned)
  /\ pc[t] \in InFlight => Recorded(c, returns) = {} /\ Rivals(t) = {} /\ CreditsHeld(t)
  /\ pc[t] \notin InFlight => written[t] = << >>
  /\ pc[t] = "credit" => Line(t) \in DOMAIN EffectiveLines(c)
  /\ pc[t] = "post" => Len(written[t]) \in DOMAIN EffectiveLines(c)
  /\ pc[t] = "commit" => DOMAIN EffectiveLines(c) \subseteq DOMAIN written[t]

IInv ==
  /\ TypeOK
  /\ \A t \in Requests : RequestInv(t)

-------------------------------------------------------------------------------
(* Words and types *)

\* ReturnLedger reads the commands as SaleReturns does.
LEMMA SameWords ==
  /\ Ledger!Cell = Cell /\ Ledger!Command = Command /\ Ledger!Priced = Priced
  /\ Ledger!Amounts = Amounts /\ Ledger!Outcomes = Outcomes
  /\ \A c : Ledger!Valid(c) <=> Valid(c)
  /\ \A c : Ledger!EffectiveLines(c) = EffectiveLines(c)
  /\ \A c, i : Ledger!CellOf(c, i) = CellOf(c, i)
  /\ \A c, i : Ledger!QuantityOf(c, i) = QuantityOf(c, i)
  /\ \A c, p : Ledger!Given(c, p) = Given(c, p)
  /\ \A c, rs : Ledger!Adjusted(c, rs) <=> Adjusted(c, rs)
  /\ \A c, rs : Ledger!Recorded(c, rs) = Recorded(c, rs)
  /\ \A c, rs : Ledger!Repeated(c, rs) = Repeated(c, rs)
  /\ \A c, back : Ledger!Exceeds(c, back) <=> Exceeds(c, back)
  /\ \A c : Ledger!ToldFirst(c) = ToldFirst(c)
  /\ \A c : Ledger!ToldAgain(c) = ToldAgain(c)
  /\ \A c, v : Ledger!Refund(c, v) = Refund(c, v)
  /\ \A c, x : Ledger!LinesAt(c, x) = LinesAt(c, x)
  <1>1. Ledger!Cell = Cell /\ Ledger!Outcomes = Outcomes /\ Ledger!Priced = Priced
    BY DEF Cell, Ledger!Cell, Outcomes, Ledger!Outcomes, Priced, Ledger!Priced
  <1>2. Ledger!Command = Command
    BY DEF Command, Ledger!Command, ReturnLine, Ledger!ReturnLine
  <1>3. \A c : Ledger!Valid(c) <=> Valid(c)
    BY DEF Valid, Ledger!Valid
  <1>4. \A c : Ledger!EffectiveLines(c) = EffectiveLines(c)
    BY DEF EffectiveLines, Ledger!EffectiveLines
  <1>5. /\ \A c, i : Ledger!CellOf(c, i) = CellOf(c, i)
        /\ \A c, i : Ledger!QuantityOf(c, i) = QuantityOf(c, i)
    BY <1>4 DEF CellOf, Ledger!CellOf, QuantityOf, Ledger!QuantityOf
  <1>6. \A c, p : Ledger!Given(c, p) = Given(c, p)
    BY DEF Given, Ledger!Given, GivenLines, Ledger!GivenLines, QuantityOf, Ledger!QuantityOf,
           EffectiveLines, Ledger!EffectiveLines
  <1>7. /\ \A s, p : Ledger!Sold(s, p) = Sold(s, p)
        /\ \A s, p : Ledger!Price(s, p) = Price(s, p)
    BY DEF Sold, Ledger!Sold, Price, Ledger!Price, SoldLines, Ledger!SoldLines
  <1>8. \A c, rs : Ledger!Adjusted(c, rs) <=> Adjusted(c, rs)
    BY DEF Adjusted, Ledger!Adjusted, AdjustmentsOf, Ledger!AdjustmentsOf, VoidsOf,
           Ledger!VoidsOf
  <1>9. \A c, rs : Ledger!Recorded(c, rs) = Recorded(c, rs)
    BY DEF Recorded, Ledger!Recorded
  <1>10. \A c, back : Ledger!Exceeds(c, back) <=> Exceeds(c, back)
    BY <1>4, <1>5, <1>7 DEF Exceeds, Ledger!Exceeds
  <1>11. \A c : Ledger!Worth(c) = Worth(c)
    BY DEF Worth, Ledger!Worth, SumFunction, Ledger!SumFunction, SumFunctionOnSet,
       Ledger!SumFunctionOnSet, FoldFunctionOnSet, Ledger!FoldFunctionOnSet, MapThenFoldSet, Ledger!MapThenFoldSet,
       EffectiveLines, Ledger!EffectiveLines, QuantityOf, Ledger!QuantityOf,
       Price, Ledger!Price, SoldLines, Ledger!SoldLines
  <1>12. /\ \A c : Ledger!ToldFirst(c) = ToldFirst(c)
         /\ \A c : Ledger!ToldAgain(c) = ToldAgain(c)
         /\ \A c, v : Ledger!Refund(c, v) = Refund(c, v)
    BY <1>11 DEF ToldFirst, Ledger!ToldFirst, ToldAgain, Ledger!ToldAgain, Stored,
       Ledger!Stored, Refund, Ledger!Refund
  <1>13. Ledger!Amounts = Amounts
    BY <1>1, <1>12 DEF Amounts, Ledger!Amounts
  <1>14. \A c, x : Ledger!LinesAt(c, x) = LinesAt(c, x)
    BY <1>4, <1>5 DEF LinesAt, Ledger!LinesAt
  <1>15. \A c, rs : Ledger!Repeated(c, rs) = Repeated(c, rs)
    BY DEF Repeated, Ledger!Repeated, Recorded, Ledger!Recorded, Digest, Ledger!Digest,
       Range, Ledger!Range
  <1> QED
    BY <1>1, <1>2, <1>3, <1>4, <1>5, <1>6, <1>7, <1>8, <1>9, <1>10, <1>12, <1>13, <1>14,
       <1>15

\* The assumptions on the constants are those of ReturnLedgerProofs.
LEMMA SameAssumptions ==
  /\ Receipts!IsFiniteSet(Products)
  /\ Commands \subseteq Receipts!Command
  /\ \A c \in Commands : c.kind = "VOID" => c.lines = << >>
  /\ Opening \in [Products \X Warehouses \X {"AVAILABLE", "DAMAGED"} -> Nat]
  /\ SaleLines \in [Sales -> Seq(Receipts!SaleLine)]
  <1>1. Receipts!Command = Command /\ Receipts!SaleLine = SaleLine
    BY DEF Command, Receipts!Command, ReturnLine, Receipts!ReturnLine, SaleLine,
           Receipts!SaleLine
  <1>2. Receipts!IsFiniteSet(Products) <=> IsFiniteSet(Products)
    BY DEF IsFiniteSet, Receipts!IsFiniteSet
  <1> QED
    BY <1>1, <1>2, SaleAssumption, ReturnAssumption

LEMMA LinesType ==
  ASSUME NEW c \in Commands, c.sale \in Sales
  PROVE  /\ EffectiveLines(c) \in Seq(ReturnLine)
         /\ DOMAIN EffectiveLines(c) = 1 .. Len(EffectiveLines(c))
         /\ Len(EffectiveLines(c)) \in Nat
         /\ \A i \in DOMAIN EffectiveLines(c) : QuantityOf(c, i) \in Nat /\ CellOf(c, i) \in Cell
  <1>1. /\ Receipts!EffectiveLines(c) \in Seq(Receipts!ReturnLine)
        /\ \A i \in DOMAIN Receipts!EffectiveLines(c) :
             Receipts!QuantityOf(c, i) \in Nat /\ Receipts!CellOf(c, i) \in Receipts!Cell
    BY SameAssumptions, SaleAssumption, ReturnAssumption, Receipts!LinesType
  <1>2. Receipts!ReturnLine = ReturnLine /\ Receipts!Cell = Cell
    BY DEF ReturnLine, Receipts!ReturnLine, Cell, Receipts!Cell
  <1>3. Receipts!EffectiveLines(c) = EffectiveLines(c)
    BY DEF EffectiveLines, Receipts!EffectiveLines
  <1>4. \A i : /\ Receipts!QuantityOf(c, i) = QuantityOf(c, i)
               /\ Receipts!CellOf(c, i) = CellOf(c, i)
    BY <1>3 DEF QuantityOf, Receipts!QuantityOf, CellOf, Receipts!CellOf
  <1> QED
    BY <1>1, <1>2, <1>3, <1>4

LEMMA GivenType ==
  ASSUME NEW c \in Commands, c.sale \in Sales, NEW p \in Products
  PROVE  Given(c, p) \in Nat
  BY LinesType DEF Given, GivenLines

LEMMA AnswerType ==
  ASSUME NEW c, NEW o \in Outcomes, NEW v \in Amounts
  PROVE  [outcome |-> o, value |-> v, refunded |-> Refund(c, v)] \in Answer
  <1>1. 0 \in Amounts
    BY DEF Amounts
  <1>2. Refund(c, v) \in Amounts
    BY <1>1 DEF Refund
  <1> QED
    BY <1>1, <1>2 DEF Answer

\* An ended transaction leaves the locks and the private writes in their types.
LEMMA ReleaseType ==
  ASSUME TypeOK, NEW t \in Requests, Release(t)
  PROVE  /\ holder' \in [Sales -> Requests \cup {Nobody}]
         /\ owner' \in [Cell -> Requests \cup {Nobody}]
         /\ written' \in [Requests -> Seq(Nat)]
         /\ shares' \in [Requests -> SUBSET Entities]
  <1>1. << >> \in Seq(Nat)
    OBVIOUS
  <1> QED
    BY <1>1 DEF TypeOK, Release

LEMMA FinishType ==
  ASSUME TypeOK, NEW t \in Requests, NEW o \in Outcomes, NEW v \in Amounts, Finish(t, o, v)
  PROVE  TypeOK'
  <1>1. [outcome |-> o, value |-> v, refunded |-> Refund(cmd[t], v)] \in Answer
    BY AnswerType
  <1>2. answer' \in [Requests -> Answer] /\ pc' \in [Requests -> Steps]
    BY <1>1 DEF TypeOK, Finish, Tell, Steps
  <1> QED
    BY <1>2, ReleaseType DEF TypeOK, Finish, committed

LEMMA GotoType ==
  ASSUME TypeOK, NEW t \in Requests, NEW next \in Steps, Goto(t, next),
         holder' \in [Sales -> Requests \cup {Nobody}],
         owner' \in [Cell -> Requests \cup {Nobody}],
         written' \in [Requests -> Seq(Nat)],
         shares' \in [Requests -> SUBSET Entities]
  PROVE  TypeOK'
  BY DEF TypeOK, Goto, committed

-------------------------------------------------------------------------------
(* The inductive invariant *)

\* What a step of request t that does not commit leaves alone: what is committed,
\* and all that belongs to another request.
Local(t) ==
  /\ UNCHANGED <<committed, latch, cmd>>
  /\ \A u \in Requests \ {t} :
       /\ pc'[u] = pc[u] /\ answer'[u] = answer[u] /\ written'[u] = written[u]
       /\ \A s \in Sales : holder[s] = u => holder'[s] = u
       /\ \A x \in Cell : owner[x] = u => owner'[x] = u

LEMMA LocalStep ==
  ASSUME IInv, TypeOK', NEW t \in Requests, Local(t), RequestInv(t)',
         pc'[t] \in InFlight => pc[t] \in InFlight \/ Rivals(t) = {}
  PROVE  IInv'
  <1>1. ASSUME NEW u \in Requests, u # t
        PROVE  RequestInv(u)'
    <2>1. /\ RequestInv(u)
          /\ pc'[u] = pc[u] /\ answer'[u] = answer[u] /\ cmd'[u] = cmd[u]
          /\ written'[u] = written[u]
          /\ \A s \in Sales : holder[s] = u => holder'[s] = u
          /\ \A x \in Cell : owner[x] = u => owner'[x] = u
          /\ stock' = stock /\ returns' = returns /\ returned' = returned
      BY <1>1 DEF IInv, Local, committed
    <2>2. pc[u] \in InFlight => Rivals(u)' = {}
      <3> SUFFICES ASSUME pc[u] \in InFlight, NEW w \in Requests \ {u},
                          pc'[w] \in InFlight, cmd[w].key = cmd[u].key
                   PROVE  FALSE
        BY DEF Rivals, Local, InFlight
      <3>1. CASE pc[w] \in InFlight
        BY <2>1, <3>1 DEF RequestInv, Rivals, InFlight
      <3>2. CASE pc[w] \notin InFlight
        <4>1. w = t /\ Rivals(t) = {}
          BY <3>2 DEF Local
        <4> QED
          BY <1>1, <4>1 DEF Rivals, InFlight
      <3> QED
        BY <3>1, <3>2
    <2>3. pc[u] \in InFlight => CreditsHeld(u)'
      <3> SUFFICES ASSUME pc[u] \in InFlight, NEW i \in DOMAIN written[u]
                   PROVE  /\ i \in DOMAIN EffectiveLines(cmd[u])
                          /\ owner'[CellOf(cmd[u], i)] = u
                          /\ written[u][i] = stock[CellOf(cmd[u], i)] + QuantityOf(cmd[u], i)
        BY <2>1 DEF CreditsHeld
      <3>1. /\ i \in DOMAIN EffectiveLines(cmd[u])
            /\ owner[CellOf(cmd[u], i)] = u
            /\ written[u][i] = stock[CellOf(cmd[u], i)] + QuantityOf(cmd[u], i)
        BY <2>1 DEF RequestInv, CreditsHeld
      <3>2. CellOf(cmd[u], i) \in Cell
        BY <2>1, <3>1, LinesType DEF RequestInv, Holding, InFlight, IInv, TypeOK
      <3> QED
        BY <2>1, <3>1, <3>2
    <2> QED
      BY <2>1, <2>2, <2>3 DEF RequestInv, Line
  <1> QED
    BY <1>1 DEF IInv

LEMMA FinishInv ==
  ASSUME IInv, NEW t \in Requests, NEW o \in Outcomes, NEW v \in Amounts, Finish(t, o, v)
  PROVE  IInv'
  <1>1. TypeOK'
    BY FinishType DEF IInv
  <1>2. Local(t)
    BY DEF Local, Finish, Tell, Release, IInv, TypeOK
  <1>3. pc'[t] = "done" /\ written'[t] = << >>
    BY DEF Finish, Tell, Release, IInv, TypeOK
  <1>4. RequestInv(t)'
    BY <1>3 DEF RequestInv, Holding, Checked, InFlight
  <1> QED
    BY <1>1, <1>2, <1>3, <1>4, LocalStep DEF InFlight

\* The statements that look a key up.
LEMMA AnsweredInv ==
  ASSUME IInv, NEW t \in Requests, Answered(t)
  PROVE  IInv'
  <1>1. PICK r \in Recorded(cmd[t], returns) :
          Finish(t, "replayed", ToldAgain(r)) \/ Finish(t, "conflict", 0)
    BY DEF Answered
  <1>2. ToldAgain(r) \in Amounts /\ 0 \in Amounts
    BY <1>1 DEF IInv, TypeOK, Recorded, Amounts
  <1> QED
    BY <1>1, <1>2, FinishInv DEF Outcomes

\* A request that goes on without letting go of a lock keeps to itself.
LEMMA GotoLocal ==
  ASSUME TypeOK, NEW t \in Requests, NEW next \in Steps, Goto(t, next),
         \A u \in Requests \ {t} : written'[u] = written[u],
         \A u \in Requests \ {t}, s \in Sales : holder[s] = u => holder'[s] = u,
         \A u \in Requests \ {t}, x \in Cell : owner[x] = u => owner'[x] = u
  PROVE  /\ Local(t)
         /\ pc'[t] = next /\ answer'[t] = answer[t] /\ cmd'[t] = cmd[t]
         /\ stock' = stock /\ returns' = returns /\ returned' = returned
  BY DEF TypeOK, Goto, Local, committed

LEMMA LookupInv ==
  ASSUME IInv, NEW t \in Requests, Lookup(t)
  PROVE  IInv'
  <1>0. TypeOK /\ RequestInv(t)
    BY DEF IInv
  <1>1. CASE Finish(t, "invalid", 0)
    BY <1>1, FinishInv DEF Outcomes, Amounts
  <1>2. CASE Answered(t)
    BY <1>2, AnsweredInv
  <1>3. CASE Valid(cmd[t]) /\ Goto(t, "lock") /\ UNCHANGED locks
    <2>1. pc[t] = "lookup"
      BY DEF Lookup
    <2>2. TypeOK'
      BY <1>0, <1>3, GotoType DEF TypeOK, locks, Steps
    <2>3. Local(t) /\ pc'[t] = "lock" /\ answer'[t] = answer[t] /\ cmd'[t] = cmd[t]
      BY <1>0, <1>3, GotoLocal DEF locks, Steps
    <2>4. RequestInv(t)'
      BY <1>0, <1>3, <2>1, <2>3 DEF RequestInv, Holding, Checked, InFlight, locks
    <2> QED
      BY <2>2, <2>3, <2>4, LocalStep DEF InFlight
  <1> QED
    BY <1>1, <1>2, <1>3 DEF Lookup

\* A sale is taken from nobody else, so every holder keeps what it holds.
LEMMA LockSaleInv ==
  ASSUME IInv, NEW t \in Requests, LockSale(t)
  PROVE  IInv'
  <1> DEFINE s == cmd[t].sale
  <1>0. TypeOK /\ RequestInv(t) /\ pc[t] = "lock"
    BY DEF IInv, LockSale
  <1>1. CASE Finish(t, "not_found", 0)
    BY <1>1, FinishInv DEF Outcomes, Amounts
  <1>2. CASE /\ s \in Sales /\ Idle(s)
             /\ holder' = [holder EXCEPT ![s] = t]
             /\ Goto(t, "check")
             /\ UNCHANGED <<owner, written, shares>>
    <2>1. /\ holder' \in [Sales -> Requests \cup {Nobody}]
          /\ holder'[s] = t
          /\ \A u \in Requests \ {t}, r \in Sales : holder[r] = u => holder'[r] = u
      BY <1>0, <1>2, ActorAssumption DEF TypeOK, Idle
    <2>2. TypeOK'
      BY <1>0, <1>2, <2>1, GotoType DEF TypeOK, Steps
    <2>3. Local(t) /\ pc'[t] = "check" /\ answer'[t] = answer[t] /\ cmd'[t] = cmd[t]
      BY <1>0, <1>2, <2>1, GotoLocal DEF Steps
    <2>4. RequestInv(t)'
      BY <1>0, <1>2, <2>1, <2>3 DEF RequestInv, Holding, Checked, InFlight
    <2> QED
      BY <2>2, <2>3, <2>4, LocalStep DEF InFlight
  <1> QED
    BY <1>1, <1>2 DEF LockSale

LEMMA CheckInv ==
  ASSUME IInv, NEW t \in Requests, CheckReturn(t)
  PROVE  IInv'
  <1> DEFINE c == cmd[t]
  <1>0. TypeOK /\ RequestInv(t) /\ pc[t] = "check"
    BY DEF IInv, CheckReturn
  <1>1. CASE Answered(t)
    BY <1>1, AnsweredInv
  <1>2. CASE Finish(t, "adjusted", 0) \/ Finish(t, "exceeded", 0)
    BY <1>2, FinishInv DEF Outcomes, Amounts
  <1>3. CASE /\ ~Adjusted(c, returns) /\ ~Exceeds(c, returned)
             /\ Goto(t, "insert") /\ UNCHANGED locks
    <2>1. TypeOK'
      BY <1>0, <1>3, GotoType DEF TypeOK, locks, Steps
    <2>2. /\ Local(t) /\ pc'[t] = "insert" /\ answer'[t] = answer[t] /\ cmd'[t] = cmd[t]
          /\ returns' = returns /\ returned' = returned
      BY <1>0, <1>3, GotoLocal DEF locks, Steps
    <2>3. RequestInv(t)'
      BY <1>0, <1>3, <2>2 DEF RequestInv, Holding, Checked, InFlight, locks
    <2> QED
      BY <2>1, <2>2, <2>3, LocalStep DEF InFlight
  <1> QED
    BY <1>1, <1>2, <1>3 DEF CheckReturn

\* The unique index lets one request at a time past the insert of a key.
LEMMA InsertInv ==
  ASSUME IInv, NEW t \in Requests, InsertReturn(t)
  PROVE  IInv'
  <1> DEFINE c == cmd[t]
             next == IF EffectiveLines(c) = << >> THEN "commit" ELSE "credit"
  <1>0. /\ TypeOK /\ RequestInv(t) /\ pc[t] = "insert" /\ Rivals(t) = {}
        /\ c \in Commands /\ written[t] = << >>
    BY DEF IInv, InsertReturn, TypeOK, RequestInv, InFlight
  <1>1. CASE Recorded(c, returns) = {} /\ Goto(t, next) /\ UNCHANGED locks
    <2>1. next \in {"credit", "commit"}
      OBVIOUS
    <2>2. /\ TypeOK'
          /\ Local(t) /\ pc'[t] = next /\ answer'[t] = answer[t] /\ cmd'[t] = cmd[t]
          /\ returns' = returns /\ returned' = returned /\ stock' = stock
      BY <1>0, <1>1, <2>1, GotoType, GotoLocal DEF TypeOK, locks, Steps
    <2>3. Rivals(t)' = {}
      BY <1>0, <2>2 DEF Rivals, Local
    <2>4. CreditsHeld(t)'
      BY <1>0, <1>1, <2>2 DEF CreditsHeld, locks
    <2>5. c.sale \in Sales
      BY <1>0 DEF RequestInv, Holding
    <2>6. /\ next = "credit" => Line(t)' \in DOMAIN EffectiveLines(c)
          /\ next = "commit" => DOMAIN EffectiveLines(c) \subseteq DOMAIN written'[t]
      <3>1. /\ EffectiveLines(c) \in Seq(ReturnLine)
            /\ DOMAIN EffectiveLines(c) = 1 .. Len(EffectiveLines(c))
        BY <1>0, <2>5, LinesType
      <3>2. EffectiveLines(c) # << >> => 1 \in DOMAIN EffectiveLines(c)
        BY <3>1
      <3> QED
        BY <1>0, <1>1, <3>1, <3>2 DEF Line, locks
    <2>7. RequestInv(t)'
      BY <1>0, <1>1, <2>1, <2>2, <2>3, <2>4, <2>6
      DEF RequestInv, Holding, Checked, InFlight, locks
    <2> QED
      BY <1>0, <2>2, <2>7, LocalStep
  <1>2. CASE Goto(t, "reread") /\ Release(t)
    <2>1. TypeOK'
      BY <1>0, <1>2, ReleaseType, GotoType DEF Steps
    <2>2. /\ Local(t) /\ pc'[t] = "reread" /\ answer'[t] = answer[t] /\ cmd'[t] = cmd[t]
          /\ written'[t] = << >>
      BY <1>0, <1>2, GotoLocal DEF Release, TypeOK, Steps
    <2>3. RequestInv(t)'
      BY <1>0, <2>2 DEF RequestInv, Holding, Checked, InFlight
    <2> QED
      BY <2>1, <2>2, <2>3, LocalStep DEF InFlight
  <1> QED
    BY <1>1, <1>2 DEF InsertReturn

\* A credit starts from a committed balance that stays what it is.
LEMMA CreditInv ==
  ASSUME IInv, NEW t \in Requests, CreditLine(t)
  PROVE  IInv'
  <1> DEFINE c == cmd[t]
             n == Len(written[t])
             x == CellOf(c, n + 1)
             q == QuantityOf(c, n + 1)
  <1>0. /\ TypeOK /\ RequestInv(t) /\ pc[t] = "credit"
        /\ c \in Commands /\ c.sale \in Sales
        /\ written[t] \in Seq(Nat) /\ n \in Nat
        /\ n + 1 \in DOMAIN EffectiveLines(c)
        /\ CreditsHeld(t)
    BY DEF IInv, CreditLine, TypeOK, RequestInv, Holding, InFlight, Line
  <1>1. x \in Cell /\ q \in Nat /\ stock[x] \in Nat
    BY <1>0, LinesType DEF TypeOK
  <1>2. /\ Free(t, x)
        /\ owner' = [owner EXCEPT ![x] = t]
        /\ written' = [written EXCEPT ![t] = Append(@, stock[x] + q)]
        /\ Goto(t, "post")
        /\ UNCHANGED <<holder, shares>>
    BY DEF CreditLine, Credited, Line
  <1>3. /\ owner' \in [Cell -> Requests \cup {Nobody}]
        /\ owner'[x] = t
        /\ \A u \in Requests, y \in Cell : owner[y] = u => owner'[y] = u
    BY <1>0, <1>1, <1>2, ActorAssumption DEF TypeOK, Free
  <1>4. /\ written' \in [Requests -> Seq(Nat)]
        /\ written'[t] = Append(written[t], stock[x] + q)
        /\ \A u \in Requests \ {t} : written'[u] = written[u]
    <2>1. Append(written[t], stock[x] + q) \in Seq(Nat)
      BY <1>0, <1>1
    <2> QED
      BY <1>0, <1>2, <2>1 DEF TypeOK
  <1>5. TypeOK'
    BY <1>0, <1>2, <1>3, <1>4, GotoType DEF TypeOK, Steps
  <1>6. /\ Local(t) /\ pc'[t] = "post" /\ answer'[t] = answer[t] /\ cmd'[t] = cmd[t]
        /\ returns' = returns /\ returned' = returned /\ stock' = stock
    BY <1>0, <1>2, <1>3, <1>4, GotoLocal DEF Steps
  <1>7. /\ DOMAIN written'[t] = 1 .. n + 1 /\ Len(written'[t]) = n + 1
        /\ written'[t][n + 1] = stock[x] + q
        /\ \A i \in 1 .. n : i \in DOMAIN written[t] /\ written'[t][i] = written[t][i]
    BY <1>0, <1>1, <1>4
  <1>8. ASSUME NEW i \in DOMAIN written'[t]
        PROVE  /\ i \in DOMAIN EffectiveLines(c)
               /\ owner'[CellOf(c, i)] = t
               /\ written'[t][i] = stock[CellOf(c, i)] + QuantityOf(c, i)
    <2>1. CASE i = n + 1
      BY <1>0, <1>3, <1>7, <2>1
    <2>2. CASE i \in 1 .. n
      <3>1. /\ i \in DOMAIN EffectiveLines(c) /\ owner[CellOf(c, i)] = t
            /\ written'[t][i] = stock[CellOf(c, i)] + QuantityOf(c, i)
        BY <1>0, <1>7, <2>2 DEF CreditsHeld
      <3>2. CellOf(c, i) \in Cell
        BY <1>0, <3>1, LinesType
      <3> QED
        BY <1>3, <3>1, <3>2
    <2> QED
      BY <1>0, <1>7, <2>1, <2>2
  <1>9. CreditsHeld(t)'
    BY <1>6, <1>8 DEF CreditsHeld
  <1>10. Rivals(t)' = {}
    BY <1>0, <1>6 DEF Rivals, Local, RequestInv, InFlight
  <1>11. RequestInv(t)'
    BY <1>0, <1>2, <1>6, <1>7, <1>9, <1>10 DEF RequestInv, Holding, Checked, InFlight
  <1> QED
    BY <1>0, <1>5, <1>6, <1>11, LocalStep DEF InFlight

LEMMA PostInv ==
  ASSUME IInv, NEW t \in Requests, PostLine(t)
  PROVE  IInv'
  <1> DEFINE c == cmd[t]
             n == Len(written[t])
             x == CellOf(c, n)
             next == IF n + 1 \in DOMAIN EffectiveLines(c) THEN "credit" ELSE "commit"
  <1>0. /\ TypeOK /\ RequestInv(t) /\ pc[t] = "post"
        /\ c \in Commands /\ c.sale \in Sales
        /\ written[t] \in Seq(Nat) /\ n \in Nat
        /\ n \in DOMAIN EffectiveLines(c)
        /\ CreditsHeld(t)
    BY DEF IInv, PostLine, TypeOK, RequestInv, Holding, InFlight
  <1>1. /\ Goto(t, next) /\ UNCHANGED <<holder, owner, written>>
        /\ shares' = [shares EXCEPT ![t] = @ \cup {x[1], x[2]}]
    BY DEF PostLine, Line
  <1>2. shares' \in [Requests -> SUBSET Entities]
    <2>1. x \in Cell
      BY <1>0, LinesType
    <2> QED
      BY <1>0, <1>1, <2>1 DEF TypeOK, Cell, Entities
  <1>3. next \in {"credit", "commit"}
    OBVIOUS
  <1>4. TypeOK'
    BY <1>0, <1>1, <1>2, <1>3, GotoType DEF TypeOK, Steps
  <1>5. /\ Local(t) /\ pc'[t] = next /\ answer'[t] = answer[t] /\ cmd'[t] = cmd[t]
        /\ returns' = returns /\ returned' = returned /\ stock' = stock
    BY <1>0, <1>1, <1>3, GotoLocal DEF Steps
  <1>6. CreditsHeld(t)'
    BY <1>0, <1>1, <1>5 DEF CreditsHeld
  <1>7. Rivals(t)' = {}
    BY <1>0, <1>5 DEF Rivals, Local, RequestInv, InFlight
  <1>8. next = "commit" => DOMAIN EffectiveLines(c) \subseteq DOMAIN written[t]
    <2>1. /\ DOMAIN EffectiveLines(c) = 1 .. Len(EffectiveLines(c))
          /\ Len(EffectiveLines(c)) \in Nat
          /\ DOMAIN written[t] = 1 .. n
      BY <1>0, LinesType
    <2> QED
      BY <1>0, <2>1
  <1>9. RequestInv(t)'
    BY <1>0, <1>1, <1>3, <1>5, <1>6, <1>7, <1>8
    DEF RequestInv, Holding, Checked, InFlight, Line
  <1> QED
    BY <1>0, <1>4, <1>5, <1>9, LocalStep DEF InFlight

\* The statements that can only end the call.
LEMMA EndsInv ==
  ASSUME IInv, NEW t \in Requests, Reread(t) \/ DeadlockVictim(t) \/ Fail(t)
  PROVE  IInv'
  BY AnsweredInv, FinishInv DEF Reread, DeadlockVictim, Fail, Outcomes, Amounts

\* What a committing request knows of the cells it credits.
LEMMA CommitKnows ==
  ASSUME IInv, NEW t \in Requests, pc[t] = "commit"
  PROVE  /\ cmd[t] \in Commands /\ cmd[t].sale \in Sales /\ holder[cmd[t].sale] = t
         /\ \A x \in Cell : \A i \in LinesAt(cmd[t], x) :
              /\ owner[x] = t
              /\ written[t][i] = stock[x] + QuantityOf(cmd[t], i)
              /\ written[t][i] \in Nat /\ QuantityOf(cmd[t], i) \in Nat
  <1>1. /\ TypeOK /\ RequestInv(t) /\ CreditsHeld(t)
        /\ cmd[t] \in Commands /\ cmd[t].sale \in Sales /\ holder[cmd[t].sale] = t
        /\ DOMAIN EffectiveLines(cmd[t]) \subseteq DOMAIN written[t]
    BY DEF IInv, TypeOK, RequestInv, Holding, InFlight
  <1>2. ASSUME NEW x \in Cell, NEW i \in LinesAt(cmd[t], x)
        PROVE  /\ owner[x] = t
               /\ written[t][i] = stock[x] + QuantityOf(cmd[t], i)
               /\ written[t][i] \in Nat /\ QuantityOf(cmd[t], i) \in Nat
    <2>1. i \in DOMAIN EffectiveLines(cmd[t]) /\ x = CellOf(cmd[t], i)
      BY DEF LinesAt
    <2>2. QuantityOf(cmd[t], i) \in Nat
      BY <1>1, <2>1, LinesType
    <2>3. owner[x] = t /\ written[t][i] = stock[x] + QuantityOf(cmd[t], i)
      BY <1>1, <2>1 DEF CreditsHeld
    <2> QED
      BY <1>1, <2>2, <2>3 DEF TypeOK
  <1> QED
    BY <1>1, <1>2

LEMMA CommitType ==
  ASSUME IInv, NEW t \in Requests, Commit(t)
  PROVE  TypeOK'
  <1> DEFINE c == cmd[t]
             at(x) == CHOOSE i \in LinesAt(c, x) : TRUE
             row(x) == [return |-> c, quantity |-> QuantityOf(c, at(x)),
                        after |-> written[t][at(x)]]
  <1>0. TypeOK /\ c \in Commands /\ c.sale \in Sales /\ pc[t] = "commit"
    BY CommitKnows DEF IInv, Commit
  <1>1. ASSUME NEW x \in Cell, LinesAt(c, x) # {}
        PROVE  row(x) \in Movement /\ written[t][at(x)] \in Nat
    <2>1. at(x) \in LinesAt(c, x)
      BY <1>1
    <2>2. written[t][at(x)] \in Nat /\ QuantityOf(c, at(x)) \in Nat
      BY <1>0, <2>1, CommitKnows
    <2> QED
      BY <1>0, <2>2 DEF Movement
  <1>2. stock' \in [Cell -> Nat]
    <2>1. stock' = [x \in Cell |->
                      IF LinesAt(c, x) = {} THEN stock[x] ELSE written[t][at(x)]]
      BY DEF Commit
    <2>2. \A x \in Cell : stock[x] \in Nat
      BY <1>0 DEF TypeOK
    <2> HIDE DEF at, c
    <2> QED
      BY <1>1, <2>1, <2>2
  <1>3. movements' \in [Cell -> Seq(Movement)]
    <2>1. movements' = [x \in Cell |->
                          IF LinesAt(c, x) = {} THEN movements[x] ELSE Append(movements[x], row(x))]
      BY DEF Commit
    <2>2. \A x \in Cell : movements[x] \in Seq(Movement)
      BY <1>0 DEF TypeOK
    <2> HIDE DEF row, c
    <2>3. \A x \in Cell : LinesAt(c, x) # {} => Append(movements[x], row(x)) \in Seq(Movement)
      BY <1>1, <2>2
    <2> QED
      BY <2>1, <2>2, <2>3
  <1>4. returns' \subseteq Priced
    BY <1>0 DEF Commit, TypeOK, Priced
  <1>5. returned' \in [Sales -> [Products -> Nat]]
    <2>1. \A p \in Products : Given(c, p) \in Nat
      BY <1>0, GivenType
    <2>2. [p \in Products |-> returned[c.sale][p] + Given(c, p)] \in [Products -> Nat]
      BY <1>0, <2>1 DEF TypeOK
    <2>3. returned' = [returned EXCEPT ![c.sale] =
                         [p \in Products |-> returned[c.sale][p] + Given(c, p)]]
      BY <1>0 DEF Commit, TypeOK
    <2> QED
      BY <1>0, <2>2, <2>3 DEF TypeOK
  <1>6. answer' \in [Requests -> Answer] /\ pc' \in [Requests -> Steps]
    <2>1. PICK o \in {"created", "unavailable"}, v \in {0, ToldFirst(c)} : Tell(t, o, v)
      BY DEF Commit
    <2>2. [outcome |-> o, value |-> v, refunded |-> Refund(c, v)] \in Answer
      <3>1. v \in Amounts
        BY <1>0, <2>1 DEF Amounts, Priced
      <3> QED
        BY <2>1, <3>1, AnswerType DEF Outcomes
    <2> QED
      BY <1>0, <2>1, <2>2 DEF TypeOK, Tell, Steps
  <1>7. Release(t) /\ UNCHANGED <<status, latch, cmd>>
    BY DEF Commit
  <1> QED
    BY <1>0, <1>2, <1>3, <1>4, <1>5, <1>6, <1>7, ReleaseType DEF TypeOK

\* A commit changes no sale, balance or key another request relies on.
LEMMA CommitInv ==
  ASSUME IInv, NEW t \in Requests, Commit(t)
  PROVE  IInv'
  <1> DEFINE c == cmd[t]
  <1>0. /\ TypeOK /\ RequestInv(t) /\ pc[t] = "commit"
        /\ c \in Commands /\ c.sale \in Sales /\ holder[c.sale] = t /\ Rivals(t) = {}
    BY CommitKnows DEF IInv, Commit, RequestInv, InFlight
  <1>1. /\ returns' = returns \cup {c} /\ cmd' = cmd
        /\ \A s \in Sales \ {c.sale} : returned'[s] = returned[s]
        /\ \A x \in Cell : LinesAt(c, x) = {} => stock'[x] = stock[x]
    BY <1>0 DEF Commit, TypeOK
  <1>2. pc'[t] = "done" /\ written'[t] = << >>
    BY <1>0 DEF Commit, Tell, Release, TypeOK
  <1>3. RequestInv(t)'
    BY <1>2 DEF RequestInv, Holding, Checked, InFlight
  <1>4. ASSUME NEW u \in Requests, u # t
        PROVE  RequestInv(u)'
    <2> DEFINE d == cmd[u]
    <2>1. /\ RequestInv(u) /\ cmd'[u] = d
          /\ pc'[u] = pc[u] /\ answer'[u] = answer[u] /\ written'[u] = written[u]
          /\ \A s \in Sales : holder[s] = u => holder'[s] = u
          /\ \A x \in Cell : owner[x] = u => owner'[x] = u
      BY <1>0, <1>1, <1>4 DEF IInv, Commit, Tell, Release, TypeOK
    <2>2. pc[u] \in Holding => d.sale \in Sales \ {c.sale}
      BY <1>0, <1>4, <2>1 DEF RequestInv
    <2>3. pc[u] \in Checked => ~Adjusted(d, returns') /\ ~Exceeds(d, returned')
      <3> SUFFICES ASSUME pc[u] \in Checked
                   PROVE  ~Adjusted(d, returns') /\ ~Exceeds(d, returned')
        OBVIOUS
      <3>1. ~Adjusted(d, returns) /\ ~Exceeds(d, returned) /\ d.sale \in Sales \ {c.sale}
        BY <2>1, <2>2 DEF RequestInv, Checked, Holding
      <3>2. AdjustmentsOf(d.sale, returns') = AdjustmentsOf(d.sale, returns)
        BY <1>1, <3>1 DEF AdjustmentsOf
      <3>3. returned'[d.sale] = returned[d.sale]
        BY <1>1, <3>1
      <3> QED
        BY <3>1, <3>2, <3>3 DEF Adjusted, VoidsOf, Exceeds
    <2>4. pc[u] \in InFlight => Recorded(d, returns') = {} /\ Rivals(u)' = {}
      <3> SUFFICES ASSUME pc[u] \in InFlight
                   PROVE  Recorded(d, returns') = {} /\ Rivals(u)' = {}
        OBVIOUS
      <3>1. Recorded(d, returns) = {} /\ Rivals(u) = {}
        BY <2>1 DEF RequestInv
      <3>2. c.key # d.key
        BY <1>0, <1>4 DEF Rivals, InFlight
      <3>3. \A w \in Requests \ {t} : pc'[w] = pc[w]
        BY <1>0 DEF Commit, Tell, TypeOK
      <3> QED
        BY <1>1, <1>2, <3>1, <3>2, <3>3 DEF Recorded, Rivals
    <2>5. pc[u] \in InFlight => CreditsHeld(u)'
      <3> SUFFICES ASSUME pc[u] \in InFlight, NEW i \in DOMAIN written[u]
                   PROVE  /\ i \in DOMAIN EffectiveLines(d)
                          /\ owner'[CellOf(d, i)] = u
                          /\ written[u][i] = stock'[CellOf(d, i)] + QuantityOf(d, i)
        BY <2>1 DEF CreditsHeld
      <3>1. /\ i \in DOMAIN EffectiveLines(d)
            /\ owner[CellOf(d, i)] = u
            /\ written[u][i] = stock[CellOf(d, i)] + QuantityOf(d, i)
        BY <2>1 DEF RequestInv, CreditsHeld
      <3>2. CellOf(d, i) \in Cell
        BY <2>1, <3>1, LinesType DEF RequestInv, Holding, InFlight, IInv, TypeOK
      <3>3. LinesAt(c, CellOf(d, i)) = {}
        BY <1>0, <1>4, <3>1, <3>2, CommitKnows
      <3> QED
        BY <1>1, <2>1, <3>1, <3>2, <3>3
    <2> QED
      BY <2>1, <2>2, <2>3, <2>4, <2>5 DEF RequestInv, Line
  <1> QED
    BY <1>3, <1>4, CommitType DEF IInv

\* An update of the catalog is nobody's sale, balance or key.
LEMMA CatalogUpdateInv ==
  ASSUME IInv, NEW e \in Edited, CatalogNext(e)
  PROVE  IInv'
  <1>0. TypeOK /\ e \in Entities
    BY ActorAssumption DEF IInv, Entities
  <1>1. PICK st \in {"active", "inactive"},
             l \in {"free", "deactivating", "clear", "editing"} : CatalogStep(e, st, l)
    BY <1>0 DEF CatalogNext, LockEntity, CheckStock, UpdateEntity, AbandonUpdate, TypeOK
  <1>2. TypeOK'
    BY <1>0, <1>1 DEF TypeOK, CatalogStep, locks
  <1>3. \A t \in Requests : RequestInv(t)'
    BY <1>1 DEF IInv, RequestInv, CatalogStep, locks, CreditsHeld, Rivals, Line
  <1> QED
    BY <1>2, <1>3 DEF IInv

LEMMA InitInv == Init => IInv
  <1> SUFFICES ASSUME Init PROVE IInv
    OBVIOUS
  <1>1. \A o \in Outcomes : [outcome |-> o, value |-> 0, refunded |-> 0] \in Answer
    BY DEF Answer, Amounts
  <1>2. << >> \in Seq(Nat) /\ << >> \in Seq(Movement) /\ "pending" \in Outcomes
    BY DEF Outcomes
  <1>3. TypeOK
    BY <1>1, <1>2, ReturnAssumption, ActorAssumption DEF Init, TypeOK, Cell, Entities, Steps
  <1>4. \A t \in Requests : RequestInv(t)
    BY DEF Init, RequestInv, Holding, Checked, InFlight
  <1> QED
    BY <1>3, <1>4 DEF IInv

LEMMA NextInv == IInv /\ [Next]_vars => IInv'
  <1> SUFFICES ASSUME IInv, [Next]_vars PROVE IInv'
    OBVIOUS
  <1>1. ASSUME NEW t \in Requests, Statement(t) \/ DeadlockVictim(t) \/ Fail(t)
        PROVE  IInv'
    BY <1>1, LookupInv, LockSaleInv, CheckInv, InsertInv, CreditInv, PostInv, CommitInv,
       EndsInv
    DEF Statement
  <1>2. ASSUME NEW e \in Edited, CatalogNext(e)
        PROVE  IInv'
    BY <1>2, CatalogUpdateInv
  <1>3. CASE UNCHANGED vars
    BY <1>3 DEF vars, IInv, TypeOK, RequestInv, CreditsHeld, Rivals, Line
  <1> QED
    BY <1>1, <1>2, <1>3 DEF Next

\* Every variable keeps its type: no balance, returned quantity or refund of
\* process_sale_return is ever negative.
THEOREM TypeCorrect == Spec => []TypeOK
  <1>1. IInv => TypeOK
    BY DEF IInv
  <1> QED
    BY <1>1, InitInv, NextInv, PTL DEF Spec

-------------------------------------------------------------------------------
(* SaleReturns implements ReturnLedger *)

\* A call that ends without a commit is a replay or a justified refusal.
LEMMA FinishIsAnswer ==
  ASSUME IInv, NEW t \in Requests, pc[t] # "done",
         NEW o, NEW v, Finish(t, o, v),
         \/ o = "replayed" /\ \E r \in Repeated(cmd[t], returns) : v = ToldAgain(r)
         \/ /\ v = 0
            /\ \/ o = "invalid" /\ ~Valid(cmd[t])
               \/ o = "conflict" /\ Recorded(cmd[t], returns) # Repeated(cmd[t], returns)
               \/ o = "not_found" /\ cmd[t].sale = NoSale
               \/ o = "adjusted" /\ Adjusted(cmd[t], returns)
               \/ o = "exceeded" /\ cmd[t].sale \in Sales /\ Exceeds(cmd[t], returned)
               \/ o = "unavailable"
  PROVE  Ledger!Next
  <1>1. Ledger!Tell(t, o, v)
    BY SameWords DEF IInv, RequestInv, Finish, Tell, Ledger!Tell
  <1>2. UNCHANGED <<stock, movements, returns, returned, cmd>>
    BY DEF Finish, committed
  <1>3. Ledger!Refuse(t) \/ Ledger!Replay(t)
    BY <1>1, <1>2, SameWords DEF Ledger!Refuse, Ledger!Replay
  <1> QED
    BY <1>3 DEF Ledger!Next

\* A statement that goes on changes nothing ReturnLedger sees.
LEMMA GotoIsStutter ==
  ASSUME NEW t, NEW next, Goto(t, next)
  PROVE  UNCHANGED Ledger!ledgerVars
  BY DEF Goto, committed, Ledger!ledgerVars

LEMMA AnsweredIsAnswer ==
  ASSUME IInv, NEW t \in Requests, pc[t] # "done", Answered(t)
  PROVE  Ledger!Next
  <1>1. PICK r \in Recorded(cmd[t], returns) :
          \/ r \in Repeated(cmd[t], returns) /\ Finish(t, "replayed", ToldAgain(r))
          \/ r \notin Repeated(cmd[t], returns) /\ Finish(t, "conflict", 0)
    BY DEF Answered, SameRequest, Repeated
  <1>2. CASE r \in Repeated(cmd[t], returns) /\ Finish(t, "replayed", ToldAgain(r))
    BY <1>2, FinishIsAnswer
  <1>3. CASE r \notin Repeated(cmd[t], returns) /\ Finish(t, "conflict", 0)
    BY <1>1, <1>3, FinishIsAnswer
  <1> QED
    BY <1>1, <1>2, <1>3

\* A commit is the instant at which an adjustment takes effect: what it checked and
\* the balances it read, several statements earlier, still hold.
LEMMA CommitIsAdjust ==
  ASSUME IInv, NEW t \in Requests, Commit(t)
  PROVE  Ledger!Adjust(t)
  <1> DEFINE c == cmd[t]
             at(x) == CHOOSE i \in LinesAt(c, x) : TRUE
  <1>1. /\ Valid(c) /\ c.sale \in Sales /\ Recorded(c, returns) = {}
        /\ ~Adjusted(c, returns) /\ ~Exceeds(c, returned)
        /\ answer[t].outcome = "pending" /\ pc[t] = "commit"
    BY DEF IInv, RequestInv, Commit, Holding, Checked, InFlight
  <1>2. \A x \in Cell : LinesAt(c, x) # {} =>
          written[t][at(x)] = stock[x] + QuantityOf(c, at(x))
    <2> SUFFICES ASSUME NEW x \in Cell, LinesAt(c, x) # {}
                 PROVE  written[t][at(x)] = stock[x] + QuantityOf(c, at(x))
      OBVIOUS
    <2>1. at(x) \in LinesAt(c, x)
      OBVIOUS
    <2> QED
      BY <1>1, <2>1, CommitKnows
  <1>3. stock' = [x \in Cell |->
           IF LinesAt(c, x) = {} THEN stock[x] ELSE stock[x] + QuantityOf(c, at(x))]
    <2>1. stock' = [x \in Cell |->
                      IF LinesAt(c, x) = {} THEN stock[x] ELSE written[t][at(x)]]
      BY DEF Commit
    <2> HIDE DEF at, c
    <2> QED
      BY <1>2, <2>1
  <1>4. movements' = [x \in Cell |->
           IF LinesAt(c, x) = {} THEN movements[x]
           ELSE Append(movements[x], [return |-> c, quantity |-> QuantityOf(c, at(x)),
                                      after |-> stock[x] + QuantityOf(c, at(x))])]
    <2>1. movements' = [x \in Cell |->
           IF LinesAt(c, x) = {} THEN movements[x]
           ELSE Append(movements[x], [return |-> c, quantity |-> QuantityOf(c, at(x)),
                                      after |-> written[t][at(x)]])]
      BY DEF Commit
    <2> HIDE DEF at, c
    <2> QED
      BY <1>2, <2>1
  <1>5. /\ returns' = returns \cup {c} /\ UNCHANGED cmd
        /\ returned' = [returned EXCEPT ![c.sale] = [p \in Products |-> @[p] + Given(c, p)]]
    BY DEF Commit
  <1>6. Ledger!Tell(t, "created", ToldFirst(c)) \/ Ledger!Tell(t, "unavailable", 0)
    BY <1>1, SameWords DEF Commit, Tell, Ledger!Tell
  <1>7. \A x : Ledger!LinesAt(c, x) = LinesAt(c, x)
    BY SameWords
  <1>8. \A i : Ledger!QuantityOf(c, i) = QuantityOf(c, i)
    BY SameWords
  <1>9. stock' = [x \in Ledger!Cell |->
           IF Ledger!LinesAt(c, x) = {} THEN stock[x]
           ELSE stock[x] + Ledger!QuantityOf(c, CHOOSE i \in Ledger!LinesAt(c, x) : TRUE)]
    BY <1>3, <1>7, <1>8, SameWords
  <1>10. movements' = [x \in Ledger!Cell |->
           IF Ledger!LinesAt(c, x) = {} THEN movements[x]
           ELSE Append(movements[x],
                  [return |-> c,
                   quantity |-> Ledger!QuantityOf(c, CHOOSE i \in Ledger!LinesAt(c, x) : TRUE),
                   after |-> stock[x]
                     + Ledger!QuantityOf(c, CHOOSE i \in Ledger!LinesAt(c, x) : TRUE)])]
    BY <1>4, <1>7, <1>8, SameWords
  <1>11. /\ Ledger!Valid(c) /\ c.sale \in Sales /\ Ledger!Recorded(c, returns) = {}
         /\ ~Ledger!Adjusted(c, returns) /\ ~Ledger!Exceeds(c, returned)
         /\ returned' = [returned EXCEPT ![c.sale] =
                           [p \in Products |-> @[p] + Ledger!Given(c, p)]]
         /\ \/ Ledger!Tell(t, "created", Ledger!ToldFirst(c))
            \/ Ledger!Tell(t, "unavailable", 0)
    BY <1>1, <1>5, <1>6, SameWords
  <1> QED
    BY <1>5, <1>9, <1>10, <1>11 DEF Ledger!Adjust

LEMMA StatementIsStep ==
  ASSUME IInv, NEW t \in Requests, Statement(t) \/ DeadlockVictim(t) \/ Fail(t)
  PROVE  [Ledger!Next]_(Ledger!ledgerVars)
  <1> DEFINE c == cmd[t]
  <1>0. RequestInv(t) /\ c \in Commands
    BY DEF IInv, TypeOK
  <1>1. CASE Commit(t)
    BY <1>1, CommitIsAdjust DEF Ledger!Next
  <1>2. CASE InsertReturn(t) \/ CreditLine(t) \/ PostLine(t)
    BY <1>2, GotoIsStutter DEF InsertReturn, CreditLine, PostLine
  <1>3. CASE Lookup(t)
    BY <1>3, GotoIsStutter, AnsweredIsAnswer, FinishIsAnswer DEF Lookup
  <1>4. CASE Reread(t)
    BY <1>4, AnsweredIsAnswer DEF Reread
  <1>5. CASE LockSale(t)
    <2>1. c.sale \notin Sales => c.sale = NoSale
      BY <1>0, ReturnAssumption DEF Command
    <2> QED
      BY <1>5, <2>1, GotoIsStutter, FinishIsAnswer DEF LockSale
  <1>6. CASE CheckReturn(t)
    <2>1. c.sale \in Sales
      BY <1>0, <1>6 DEF RequestInv, CheckReturn, Holding
    <2> QED
      BY <1>6, <2>1, GotoIsStutter, AnsweredIsAnswer, FinishIsAnswer DEF CheckReturn
  <1>7. CASE Fail(t)
    BY <1>7, FinishIsAnswer DEF Fail
  <1>8. CASE DeadlockVictim(t)
    <2>1. PICK ts \in SUBSET Requests : t \in ts /\ Deadlock(ts)
      BY <1>8 DEF DeadlockVictim
    <2>2. pc[t] # "done"
      BY <2>1 DEF Deadlock, WaitsFor
    <2> QED
      BY <1>8, <2>2, FinishIsAnswer DEF DeadlockVictim
  <1> QED
    BY <1>1, <1>2, <1>3, <1>4, <1>5, <1>6, <1>7, <1>8 DEF Statement

LEMMA CatalogIsStutter ==
  ASSUME NEW e, CatalogNext(e)
  PROVE  UNCHANGED Ledger!ledgerVars
  BY DEF CatalogNext, LockEntity, CheckStock, UpdateEntity, AbandonUpdate, CatalogStep,
         Ledger!ledgerVars

LEMMA InitIsInit == Init => Ledger!Init
  BY SameWords, ActorAssumption DEF Init, Ledger!Init

LEMMA NextIsStep == IInv /\ [Next]_vars => [Ledger!Next]_(Ledger!ledgerVars)
  <1>1. CASE UNCHANGED vars
    BY <1>1 DEF vars, Ledger!ledgerVars
  <1> QED
    BY <1>1, StatementIsStep, CatalogIsStutter DEF Next

\* Statement by statement, under every interleaving, process_sale_return is the
\* atomic adjustment of ReturnLedger.
THEOREM Implementation == Spec => ImplementsReturnLedger
  BY InitIsInit, NextIsStep, InitInv, NextInv, PTL
  DEF Spec, ImplementsReturnLedger, Ledger!Spec

-------------------------------------------------------------------------------
(* What SaleReturns inherits from ReturnLedger *)

\* The ledger that receipts are read from reads the commands as ReturnLedger does ...
LEMMA LedgerWords ==
  /\ Receipts!Cell = Ledger!Cell
  /\ \A c : Receipts!Valid(c) <=> Ledger!Valid(c)
  /\ \A c : Receipts!EffectiveLines(c) = Ledger!EffectiveLines(c)
  /\ \A c, i : Receipts!CellOf(c, i) = Ledger!CellOf(c, i)
  /\ \A c, i : Receipts!QuantityOf(c, i) = Ledger!QuantityOf(c, i)
  /\ \A c, p : Receipts!Given(c, p) = Ledger!Given(c, p)
  /\ \A s, p : Receipts!Sold(s, p) = Ledger!Sold(s, p)
  /\ \A s, rs : Receipts!AdjustmentsOf(s, rs) = Ledger!AdjustmentsOf(s, rs)
  /\ \A c, rs : Receipts!Adjusted(c, rs) <=> Ledger!Adjusted(c, rs)
  /\ \A c, rs : Receipts!Recorded(c, rs) = Ledger!Recorded(c, rs)
  /\ \A c, rs : Receipts!Repeated(c, rs) = Ledger!Repeated(c, rs)
  /\ \A c, back : Receipts!Exceeds(c, back) <=> Ledger!Exceeds(c, back)
  /\ \A c, x : Receipts!LinesAt(c, x) = Ledger!LinesAt(c, x)
  <1>1. Receipts!Cell = Ledger!Cell
    BY DEF Receipts!Cell, Ledger!Cell
  <1>2. \A c : Receipts!Valid(c) <=> Ledger!Valid(c)
    BY DEF Receipts!Valid, Ledger!Valid
  <1>3. \A c : Receipts!EffectiveLines(c) = Ledger!EffectiveLines(c)
    BY DEF Receipts!EffectiveLines, Ledger!EffectiveLines
  <1>4. /\ \A c, i : Receipts!CellOf(c, i) = Ledger!CellOf(c, i)
        /\ \A c, i : Receipts!QuantityOf(c, i) = Ledger!QuantityOf(c, i)
    BY <1>3 DEF Receipts!CellOf, Ledger!CellOf, Receipts!QuantityOf, Ledger!QuantityOf
  <1>5. \A c, p : Receipts!Given(c, p) = Ledger!Given(c, p)
    BY DEF Receipts!Given, Ledger!Given, Receipts!GivenLines, Ledger!GivenLines,
           Receipts!QuantityOf, Ledger!QuantityOf, Receipts!EffectiveLines,
           Ledger!EffectiveLines
  <1>6. \A s, p : Receipts!Sold(s, p) = Ledger!Sold(s, p)
    BY DEF Receipts!Sold, Ledger!Sold, Receipts!SoldLines, Ledger!SoldLines
  <1>7. /\ \A s, rs : Receipts!AdjustmentsOf(s, rs) = Ledger!AdjustmentsOf(s, rs)
        /\ \A c, rs : Receipts!Adjusted(c, rs) <=> Ledger!Adjusted(c, rs)
    BY DEF Receipts!AdjustmentsOf, Ledger!AdjustmentsOf, Receipts!Adjusted,
           Ledger!Adjusted, Receipts!VoidsOf, Ledger!VoidsOf
  <1>8. \A c, rs : Receipts!Recorded(c, rs) = Ledger!Recorded(c, rs)
    BY DEF Receipts!Recorded, Ledger!Recorded
  <1>9. \A c, back : Receipts!Exceeds(c, back) <=> Ledger!Exceeds(c, back)
    BY <1>3, <1>4, <1>6 DEF Receipts!Exceeds, Ledger!Exceeds
  <1>10. \A c, x : Receipts!LinesAt(c, x) = Ledger!LinesAt(c, x)
    BY <1>3, <1>4 DEF Receipts!LinesAt, Ledger!LinesAt
  <1>11. \A c, rs : Receipts!Repeated(c, rs) = Ledger!Repeated(c, rs)
    BY DEF Receipts!Repeated, Ledger!Repeated, Receipts!Recorded, Ledger!Recorded,
       Receipts!Digest, Ledger!Digest, Receipts!Range, Ledger!Range
  <1> QED
    BY <1>1, <1>2, <1>3, <1>4, <1>5, <1>6, <1>7, <1>8, <1>9, <1>10, <1>11

\* ... and values them alike.
LEMMA LedgerAmounts ==
  /\ \A v : Receipts!Stored(v) = Ledger!Stored(v)
  /\ \A c : Receipts!Worth(c) = Ledger!Worth(c)
  /\ \A c : Receipts!ToldFirst(c) = Ledger!ToldFirst(c)
  /\ \A c : Receipts!ToldAgain(c) = Ledger!ToldAgain(c)
  /\ \A c, v : Receipts!Refund(c, v) = Ledger!Refund(c, v)
  <1>1. \A v : Receipts!Stored(v) = Ledger!Stored(v)
    BY DEF Receipts!Stored, Ledger!Stored
  <1>2. \A c : Receipts!Worth(c) = Ledger!Worth(c)
    BY DEF Receipts!Worth, Ledger!Worth, Receipts!SumFunction, Ledger!SumFunction,
       Receipts!SumFunctionOnSet, Ledger!SumFunctionOnSet, Receipts!FoldFunctionOnSet,
       Ledger!FoldFunctionOnSet, Receipts!MapThenFoldSet, Ledger!MapThenFoldSet,
       Receipts!EffectiveLines, Ledger!EffectiveLines, Receipts!QuantityOf,
       Ledger!QuantityOf, Receipts!Price, Ledger!Price, Receipts!SoldLines,
       Ledger!SoldLines
  <1>3. \A c, v : Receipts!Refund(c, v) = Ledger!Refund(c, v)
    BY DEF Receipts!Refund, Ledger!Refund
  <1> QED
    BY <1>1, <1>2, <1>3 DEF Receipts!ToldFirst, Ledger!ToldFirst, Receipts!ToldAgain,
       Ledger!ToldAgain

\* It is the ledger SaleReturns implements.
LEMMA SameSteps ==
  /\ Receipts!Init <=> Ledger!Init
  /\ Receipts!Next <=> Ledger!Next
  /\ Receipts!ledgerVars = Ledger!ledgerVars
  <1>1. Receipts!Init <=> Ledger!Init
    BY DEF Receipts!Init, Ledger!Init, Receipts!Cell, Ledger!Cell
  <1>2. \A t, o, v : Receipts!Tell(t, o, v) <=> Ledger!Tell(t, o, v)
    BY LedgerAmounts DEF Receipts!Tell, Ledger!Tell
  <1>3. ASSUME NEW t \in Requests
        PROVE  Receipts!Adjust(t) <=> Ledger!Adjust(t)
    <2> DEFINE c == cmd[t]
    <2>1. \A x : (CHOOSE i \in Receipts!LinesAt(c, x) : TRUE)
                 = (CHOOSE i \in Ledger!LinesAt(c, x) : TRUE)
      BY DEF Receipts!LinesAt, Ledger!LinesAt, Receipts!CellOf, Ledger!CellOf,
             Receipts!EffectiveLines, Ledger!EffectiveLines
    <2>2. \A x : Receipts!QuantityOf(c, CHOOSE i \in Receipts!LinesAt(c, x) : TRUE)
                 = Ledger!QuantityOf(c, CHOOSE i \in Ledger!LinesAt(c, x) : TRUE)
      BY <2>1, LedgerWords
    <2> HIDE DEF c
    <2>3. [returned EXCEPT ![c.sale] = [p \in Products |-> @[p] + Receipts!Given(c, p)]]
          = [returned EXCEPT ![c.sale] = [p \in Products |-> @[p] + Ledger!Given(c, p)]]
      BY LedgerWords
    <2>4. [x \in Receipts!Cell |->
             IF Receipts!LinesAt(c, x) = {} THEN stock[x]
             ELSE stock[x]
                    + Receipts!QuantityOf(c, CHOOSE i \in Receipts!LinesAt(c, x) : TRUE)]
          = [x \in Ledger!Cell |->
               IF Ledger!LinesAt(c, x) = {} THEN stock[x]
               ELSE stock[x]
                      + Ledger!QuantityOf(c, CHOOSE i \in Ledger!LinesAt(c, x) : TRUE)]
      BY <2>2, LedgerWords
    <2>5. [x \in Receipts!Cell |->
             IF Receipts!LinesAt(c, x) = {} THEN movements[x]
             ELSE Append(movements[x],
                    [return |-> c,
                     quantity |-> Receipts!QuantityOf(c,
                       CHOOSE i \in Receipts!LinesAt(c, x) : TRUE),
                     after |-> stock[x] + Receipts!QuantityOf(c,
                       CHOOSE i \in Receipts!LinesAt(c, x) : TRUE)])]
          = [x \in Ledger!Cell |->
               IF Ledger!LinesAt(c, x) = {} THEN movements[x]
               ELSE Append(movements[x],
                      [return |-> c,
                       quantity |-> Ledger!QuantityOf(c,
                         CHOOSE i \in Ledger!LinesAt(c, x) : TRUE),
                       after |-> stock[x] + Ledger!QuantityOf(c,
                         CHOOSE i \in Ledger!LinesAt(c, x) : TRUE)])]
      BY <2>2, LedgerWords
    <2> QED
      BY <1>2, <2>3, <2>4, <2>5, LedgerWords, LedgerAmounts, Zenon
      DEF c, Receipts!Adjust, Ledger!Adjust
  <1>4. ASSUME NEW t \in Requests
        PROVE  Receipts!Replay(t) <=> Ledger!Replay(t)
    BY <1>2, LedgerWords, LedgerAmounts DEF Receipts!Replay, Ledger!Replay
  <1>5. ASSUME NEW t \in Requests
        PROVE  Receipts!Refuse(t) <=> Ledger!Refuse(t)
    BY <1>2, LedgerWords DEF Receipts!Refuse, Ledger!Refuse
  <1>6. Receipts!ledgerVars = Ledger!ledgerVars
    BY DEF Receipts!ledgerVars, Ledger!ledgerVars
  <1> QED
    BY <1>1, <1>3, <1>4, <1>5, <1>6 DEF Receipts!Next, Ledger!Next

\* Both promise the same.
LEMMA SameProperties ==
  /\ Receipts!NeverOverReturned <=> NeverOverReturned
  /\ Receipts!VoidStandsAlone <=> VoidStandsAlone
  /\ Receipts!ReturnedOnce <=> ReturnedOnce
  /\ Receipts!CreditChain <=> CreditChain
  /\ Receipts!ReturnsDurable <=> ReturnsDurable
  /\ Receipts!RefundsWithinRounding <=> RefundsWithinRounding
  <1>1. Receipts!NeverOverReturned <=> NeverOverReturned
    BY LedgerWords
    DEF NeverOverReturned, Receipts!NeverOverReturned, Ledger!NeverOverReturned
  <1>2. Receipts!VoidStandsAlone <=> VoidStandsAlone
    BY LedgerWords DEF VoidStandsAlone, Receipts!VoidStandsAlone, Ledger!VoidStandsAlone
  <1>3. Receipts!ReturnedOnce <=> ReturnedOnce
    BY LedgerWords DEF ReturnedOnce, Receipts!ReturnedOnce, Ledger!ReturnedOnce
  <1>4. Receipts!CreditChain <=> CreditChain
    BY LedgerWords DEF CreditChain, Receipts!CreditChain, Ledger!CreditChain
  <1>5. Receipts!ReturnsDurable <=> ReturnsDurable
    BY LedgerWords DEF ReturnsDurable, Receipts!ReturnsDurable, Ledger!ReturnsDurable
  <1>6. Receipts!RefundsWithinRounding <=> RefundsWithinRounding
    <2>1. \A f : Receipts!SumFunction(f) = Ledger!SumFunction(f)
      BY DEF Receipts!SumFunction, Ledger!SumFunction, Receipts!SumFunctionOnSet,
             Ledger!SumFunctionOnSet, Receipts!FoldFunctionOnSet,
             Ledger!FoldFunctionOnSet, Receipts!MapThenFoldSet, Ledger!MapThenFoldSet
    <2>2. \A rs : [r \in rs |-> Receipts!Refund(r, Receipts!Stored(Receipts!Worth(r)))]
                  = [r \in rs |-> Ledger!Refund(r, Ledger!Stored(Ledger!Worth(r)))]
      BY LedgerAmounts
    <2>3. \A rs : Receipts!Cardinality(rs) = Ledger!Cardinality(rs)
      BY DEF Receipts!Cardinality, Ledger!Cardinality
    <2> QED
      BY <2>1, <2>2, <2>3, LedgerWords
      DEF RefundsWithinRounding, Receipts!RefundsWithinRounding,
          Ledger!RefundsWithinRounding
  <1> QED
    BY <1>1, <1>2, <1>3, <1>4, <1>5, <1>6

LEMMA Inherited == Spec => []Receipts!LedgerInv
  <1>1. Init => Receipts!LedgerInv
    BY InitIsInit, SameSteps, Receipts!LedgerInvInit, SaleAssumption, ReturnAssumption,
       SameAssumptions
  <1>2. /\ IInv /\ [Next]_vars
        /\ Receipts!LedgerInv
        => Receipts!LedgerInv'
    <2> SUFFICES ASSUME IInv, [Next]_vars, Receipts!LedgerInv
                 PROVE  Receipts!LedgerInv'
      OBVIOUS
    <2>1. [Ledger!Next]_(Ledger!ledgerVars)
      BY NextIsStep
    <2>2. [Receipts!Next]_(Receipts!ledgerVars)
      BY <2>1, SameSteps DEF Receipts!ledgerVars, Ledger!ledgerVars
    <2> QED
      BY <2>2, Receipts!LedgerInvNext, SaleAssumption, ReturnAssumption, SameAssumptions
  <1> QED
    BY <1>1, <1>2, InitInv, NextInv, PTL DEF Spec

\* However the returns and voids of a sale overlap, none of its products is returned
\* more often than it was sold.
THEOREM NoOverReturn == Spec => []NeverOverReturned
  <1>1. Receipts!LedgerInv => NeverOverReturned
    BY SameProperties DEF Receipts!LedgerInv
  <1> QED
    BY <1>1, Inherited, PTL

\* A void excludes every other adjustment of its sale, those in flight included.
THEOREM VoidsStandAlone == Spec => []VoidStandsAlone
  <1>1. Receipts!LedgerInv => VoidStandsAlone
    BY SameProperties DEF Receipts!LedgerInv, Receipts!VoidInv
  <1> QED
    BY <1>1, Inherited, PTL

\* A key adjusts a sale once, and the movement rows are those of recorded returns,
\* none missing and none twice.
THEOREM OncePerKey == Spec => []ReturnedOnce
  <1>1. Receipts!LedgerInv => ReturnedOnce
    BY SameProperties DEF Receipts!LedgerInv
  <1> QED
    BY <1>1, Inherited, PTL

\* Overlapping returns of different sales lose no credit of the balance they share.
THEOREM NoLostCredit == Spec => []CreditChain
  <1>1. Receipts!LedgerInv => CreditChain
    BY SameProperties DEF Receipts!LedgerInv
  <1> QED
    BY <1>1, Inherited, PTL

\* A caller told that its return was carried out can rely on it.
THEOREM NoFalseAnswer == Spec => []ReturnsDurable
  <1>1. Receipts!LedgerInv => ReturnsDurable
    BY SameProperties, Receipts!AnswersNear, SaleAssumption, ReturnAssumption,
       SameAssumptions
    DEF Receipts!LedgerInv
  <1> QED
    BY <1>1, Inherited, PTL

\* However many returns adjust a sale, what they refund exceeds what its goods were sold
\* for by no more than storing each amount rounds.
THEOREM RefundsAddUp == Spec => []RefundsWithinRounding
  <1>1. Receipts!LedgerInv => RefundsWithinRounding
    BY SameProperties, Receipts!AccountGivesRounding, SaleAssumption, ReturnAssumption,
       SameAssumptions
    DEF Receipts!LedgerInv
  <1> QED
    BY <1>1, Inherited, PTL

-------------------------------------------------------------------------------
(* Repeated returns *)

\* What a call is told when it ends: everybody else is told nothing.
LEMMA ToldAlone ==
  ASSUME TypeOK, NEW t \in Requests, NEW o, NEW v, Tell(t, o, v)
  PROVE  answer'[t].outcome = o /\ \A u \in Requests \ {t} : answer'[u] = answer[u]
  BY DEF TypeOK, Tell

\* What a statement of t tells its caller for reasons of the sale is told by the check
\* behind the lock of the sale.
LEMMA RefusedByCheck ==
  ASSUME IInv, NEW t \in Requests, Statement(t) \/ DeadlockVictim(t) \/ Fail(t),
         NEW u \in Requests, answer'[u] # answer[u],
         answer'[u].outcome \in {"adjusted", "exceeded"}
  PROVE  u = t /\ Recorded(cmd[t], returns) = {}
  <1>0. TypeOK
    BY DEF IInv
  <1>1. ASSUME NEW o, NEW v, Finish(t, o, v)
        PROVE  u = t /\ answer'[u].outcome = o
    BY <1>0, <1>1, ToldAlone DEF Finish
  <1>2. ~Answered(t)
    BY <1>1 DEF Answered
  <1>3. ASSUME NEW next, Goto(t, next)
        PROVE  FALSE
    BY <1>3 DEF Goto
  <1>4. CASE Lookup(t) \/ LockSale(t) \/ Reread(t)
    BY <1>1, <1>2, <1>3, <1>4 DEF Lookup, LockSale, Reread
  <1>5. CASE CheckReturn(t)
    BY <1>1, <1>2, <1>3, <1>5 DEF CheckReturn
  <1>6. CASE InsertReturn(t) \/ CreditLine(t) \/ PostLine(t)
    BY <1>3, <1>6 DEF InsertReturn, CreditLine, PostLine
  <1>7. CASE Commit(t)
    BY <1>0, <1>7, ToldAlone DEF Commit
  <1>8. CASE DeadlockVictim(t) \/ Fail(t)
    BY <1>1, <1>8 DEF DeadlockVictim, Fail
  <1> QED
    BY <1>4, <1>5, <1>6, <1>7, <1>8 DEF Statement

\* A return that is repeated is never refused for what it has itself done to the sale.
THEOREM RepeatsAreReplayed == Spec => RepeatsReplayed
  <1>1. ASSUME IInv, Next, NEW t \in Requests, answer[t].outcome = "pending",
               answer'[t].outcome \in {"adjusted", "exceeded"}
        PROVE  Repeated(cmd[t], returns) = {}
    <2>1. answer'[t] # answer[t]
      BY <1>1
    <2>2. ASSUME NEW e, CatalogNext(e)
          PROVE  FALSE
      BY <2>1, <2>2 DEF CatalogNext, LockEntity, CheckStock, UpdateEntity, AbandonUpdate,
                        CatalogStep
    <2>3. Recorded(cmd[t], returns) = {}
      BY <1>1, <2>1, <2>2, RefusedByCheck DEF Next
    <2> QED
      BY <2>3 DEF Repeated
  <1>2. IInv /\ [Next]_vars =>
          [\A t \in Requests :
             /\ answer[t].outcome = "pending"
             /\ answer'[t].outcome \in {"adjusted", "exceeded"}
             => Repeated(cmd[t], returns) = {}]_vars
    BY <1>1
  <1> QED
    BY <1>2, InitInv, NextInv, PTL DEF Spec, RepeatsReplayed

-------------------------------------------------------------------------------
(* Receipts beside the statements of the returns *)

BesideInit == Init /\ Receipts!ReceiptInit

\* A SELECT of a receipt changes nothing, and no lock of a return keeps it waiting.
BesideNext ==
  \/ Next /\ UNCHANGED receipt
  \/ /\ UNCHANGED vars
     /\ \E r \in Readers :
          \/ \E s \in Sales \cup {NoSale} : Receipts!ReadSale(r, s)
          \/ Receipts!ReadAdjustments(r)
          \/ Receipts!ReadQuantity(r)

Beside == BesideInit /\ [][BesideNext]_<<vars, receipt>>

LEMMA BesideIsReturns == [BesideNext]_<<vars, receipt>> => [Next]_vars
  BY DEF BesideNext, vars

LEMMA BesideIsReceipts ==
  ASSUME IInv, [BesideNext]_<<vars, receipt>>
  PROVE  [Receipts!ReceiptNext]_(Receipts!receiptVars)
  <1>1. CASE UNCHANGED <<vars, receipt>>
    BY <1>1 DEF vars, Receipts!receiptVars, Receipts!ledgerVars
  <1>2. CASE Next /\ UNCHANGED receipt
    <2>1. [Ledger!Next]_(Ledger!ledgerVars)
      BY <1>2, NextIsStep
    <2>2. [Receipts!Next]_(Receipts!ledgerVars)
      BY <2>1, SameSteps DEF Receipts!ledgerVars, Ledger!ledgerVars
    <2> QED
      BY <1>2, <2>2 DEF Receipts!ReceiptNext, Receipts!receiptVars
  <1>3. CASE \E r \in Readers :
               \/ \E s \in Sales \cup {NoSale} : Receipts!ReadSale(r, s)
               \/ Receipts!ReadAdjustments(r)
               \/ Receipts!ReadQuantity(r)
    BY <1>3 DEF Receipts!ReceiptNext
  <1> QED
    BY <1>1, <1>2, <1>3 DEF BesideNext

\* Receipts that are read between the statements of the returns, whatever locks these
\* hold, are receipts of ReturnLedger.
THEOREM ReceiptsImplemented == Beside => Receipts!ReceiptSpec
  BY BesideIsReturns, BesideIsReceipts, InitInv, NextInv, PTL
  DEF Beside, BesideInit, Receipts!ReceiptSpec

\* The status of such a receipt agrees with its list and with the sale.
THEOREM ReceiptsAreTrueBeside == Beside => []Receipts!ReceiptTrue
  <1>1. Receipts!ReceiptSpec => []Receipts!ReceiptTrue
    BY Receipts!ReceiptsAreTrue, SaleAssumption, ReturnAssumption, SameAssumptions
  <1> QED
    BY <1>1, ReceiptsImplemented, PTL

\* And none of them shows an earlier stage of its sale than one shown before.
THEOREM ReceiptsAdvanceBeside == Beside => Receipts!ReceiptsAdvance
  <1>1. Receipts!ReceiptSpec => Receipts!ReceiptsAdvance
    BY Receipts!ReceiptsOnlyAdvance, SaleAssumption, ReturnAssumption, SameAssumptions
  <1> QED
    BY <1>1, ReceiptsImplemented
===============================================================================
