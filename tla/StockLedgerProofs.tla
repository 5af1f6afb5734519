--------------------------- MODULE StockLedgerProofs ---------------------------
(* The properties of StockLedger, for every catalog, set of commands and number *)
(* of requests.                                                                 *)
EXTENDS StockLedger, TLAPS

\* The cells, context and key of a command the clients send are of the catalog.
LEMMA CommandParts ==
  ASSUME NEW c \in Commands
  PROVE  /\ Source(c) \in Cell /\ Destination(c) \in Cell
         /\ Context(c) \subseteq Entities
         /\ OpId(c) \in OpIds
         /\ c.quantity \in Nat
         /\ c.kind \in {"RECEIPT", "ISSUE", "TRANSFER"}
         /\ c.kind # "TRANSFER" => Source(c) = Destination(c)
  BY CommandAssumption DEF Command, Source, Destination, Cell, Context, Entities, OpId, OpIds

\* An update that respects WHERE quantity >= q returns natural numbers.
LEMMA BalancesAfterType ==
  ASSUME NEW c \in Commands, NEW b \in [Cell -> Nat],
         Debits(c) => b[Source(c)] >= c.quantity
  PROVE  BalancesAfter(c, b) \in Balances
  BY CommandParts DEF BalancesAfter, Balances, Debits, Credits

LEMMA WrittenType ==
  ASSUME NEW c \in Commands, NEW b \in [Cell -> Nat], NEW bal \in Balances
  PROVE  Written(c, bal, b) \in [Cell -> Nat]
  BY CommandParts DEF Written, Balances

LEMMA RowType ==
  ASSUME NEW c \in Commands, NEW type \in {"RECEIPT", "ISSUE"}, NEW n \in Nat
  PROVE  Row(c, type, n) \in Posting
  BY CommandParts DEF Row, Posting

LEMMA PostedType ==
  ASSUME NEW c \in Commands, NEW h \in [Cell -> Seq(Posting)], NEW bal \in Balances
  PROVE  Posted(c, bal, h) \in [Cell -> Seq(Posting)]
  <1>1. bal.source \in Nat /\ bal.destination \in Nat
    BY DEF Balances
  <1>2. Row(c, "ISSUE", bal.source) \in Posting /\ Row(c, "RECEIPT", bal.destination) \in Posting
    BY <1>1, RowType
  <1>3. ASSUME NEW x \in Cell, NEW r \in Posting
        PROVE  Append(h[x], r) \in Seq(Posting)
    OBVIOUS
  <1> QED
    BY <1>2, <1>3 DEF Posted

\* LedgerTypeOK holds of the opening stock.
LEMMA LedgerTypeOKInit == Init => LedgerTypeOK
  BY OpeningAssumption, CatalogAssumption
  DEF Init, LedgerTypeOK, Cell, Entities, Answer, Outcomes, Balances, NoBalances

\* Confirm writes natural numbers, since a debit has found enough.
LEMMA LedgerTypeOKNext == LedgerTypeOK /\ [Next]_ledgerVars => LedgerTypeOK'
  <1> SUFFICES ASSUME LedgerTypeOK, [Next]_ledgerVars
               PROVE  LedgerTypeOK'
    OBVIOUS
  <1>1. ASSUME NEW r \in Requests, NEW o \in Outcomes, NEW bal \in Balances, Tell(r, o, bal)
        PROVE  answer' \in [Requests -> Answer]
    BY <1>1 DEF LedgerTypeOK, Tell, Answer
  <1>2. NoBalances \in Balances
    BY DEF NoBalances, Balances
  <1>3. ASSUME NEW r \in Requests, Confirm(r)
        PROVE  LedgerTypeOK'
    <2> DEFINE c == cmd[r]
               bal == BalancesAfter(c, balance)
    <2>1. c \in Commands /\ bal \in Balances
      BY <1>3, BalancesAfterType DEF LedgerTypeOK, Confirm
    <2>2. answer' \in [Requests -> Answer]
      BY <1>1, <1>2, <1>3, <2>1 DEF Confirm, Outcomes
    <2>3. balance' \in [Cell -> Nat] /\ history' \in [Cell -> Seq(Posting)]
      BY <1>3, <2>1, WrittenType, PostedType DEF LedgerTypeOK, Confirm
    <2>4. entries' \subseteq Entry
      BY <1>3, <2>1 DEF LedgerTypeOK, Confirm, Entry
    <2> QED
      BY <1>3, <2>2, <2>3, <2>4 DEF LedgerTypeOK, Confirm
  <1>4. ASSUME NEW r \in Requests, Replay(r)
        PROVE  LedgerTypeOK'
    <2>1. PICK e \in Recorded(cmd[r], entries) : Tell(r, "replayed", e.balances)
      BY <1>4 DEF Replay
    <2>2. e.balances \in Balances
      BY <2>1 DEF LedgerTypeOK, Recorded, Entry
    <2> QED
      BY <1>1, <1>4, <2>1, <2>2 DEF LedgerTypeOK, Replay, Outcomes
  <1>5. ASSUME NEW r \in Requests, Refuse(r)
        PROVE  LedgerTypeOK'
    <2>1. \E o \in Outcomes : Tell(r, o, NoBalances)
      BY <1>5 DEF Refuse, Outcomes
    <2> QED
      BY <1>1, <1>2, <1>5, <2>1 DEF LedgerTypeOK, Refuse
  <1>6. ASSUME NEW e \in Entities, Create(e) \/ Activate(e) \/ Deactivate(e)
        PROVE  LedgerTypeOK'
    BY <1>6 DEF LedgerTypeOK, Create, Activate, Deactivate, SetStatus
  <1>7. CASE UNCHANGED ledgerVars
    BY <1>7 DEF LedgerTypeOK, ledgerVars
  <1> QED
    BY <1>3, <1>4, <1>5, <1>6, <1>7 DEF Next

\* Every variable of the ledger keeps its type: no balance is ever negative.
THEOREM LedgerTypeCorrect == Spec => []LedgerTypeOK
  BY LedgerTypeOKInit, LedgerTypeOKNext, PTL DEF Spec

-------------------------------------------------------------------------------
\* What Confirm appends to a cell is right: a posting that starts from the balance.
LEMMA ConfirmAppends ==
  ASSUME LedgerTypeOK, NEW r \in Requests, Confirm(r), NEW x \in Cell
  PROVE  \/ /\ history'[x] = history[x]
            /\ balance'[x] = balance[x]
         \/ \E p \in Posting :
              /\ history'[x] = Append(history[x], p)
              /\ balance'[x] = p.after
              /\ p.after = IF p.type = "RECEIPT" THEN balance[x] + p.quantity
                                                 ELSE balance[x] - p.quantity
              /\ p.op = OpId(cmd[r])
              /\ <<x, p>> \in PostingsOf(cmd[r], BalancesAfter(cmd[r], balance))
  <1> DEFINE c == cmd[r]
             bal == BalancesAfter(c, balance)
  <1>1. /\ c \in Commands
        /\ balance \in [Cell -> Nat]
        /\ bal \in Balances
    BY BalancesAfterType DEF LedgerTypeOK, Confirm
  <1>2. /\ history' = Posted(c, bal, history)
        /\ balance' = Written(c, bal, balance)
    BY DEF Confirm
  <1>3. /\ Source(c) \in Cell /\ Destination(c) \in Cell /\ c.quantity \in Nat
        /\ c.kind \in {"RECEIPT", "ISSUE", "TRANSFER"}
    BY <1>1, CommandParts
  <1>4. c.kind = "TRANSFER" <=> Source(c) # Destination(c)
    BY <1>1, CommandParts DEF Confirm, Valid, Source, Destination
  <1>5. bal.source \in Nat /\ bal.destination \in Nat
    BY <1>1 DEF Balances
  <1>6. CASE Debits(c) /\ x = Source(c)
    <2> DEFINE p == Row(c, "ISSUE", bal.source)
    <2>1. p \in Posting
      BY <1>1, <1>5, RowType
    <2>2. history'[x] = Append(history[x], p) /\ <<x, p>> \in PostingsOf(c, bal)
      BY <1>2, <1>6 DEF Posted, PostingsOf
    <2>3. balance'[x] = bal.source /\ bal.source = balance[x] - c.quantity
      BY <1>1, <1>2, <1>3, <1>4, <1>6 DEF Written, BalancesAfter, Debits, Credits
    <2> QED
      BY <2>1, <2>2, <2>3 DEF Row
  <1>7. CASE ~ (Debits(c) /\ x = Source(c)) /\ Credits(c) /\ x = Destination(c)
    <2> DEFINE p == Row(c, "RECEIPT", bal.destination)
    <2>1. p \in Posting
      BY <1>1, <1>5, RowType
    <2>2. history'[x] = Append(history[x], p) /\ <<x, p>> \in PostingsOf(c, bal)
      BY <1>2, <1>7 DEF Posted, PostingsOf
    <2>3. balance'[x] = bal.destination /\ bal.destination = balance[x] + c.quantity
      BY <1>1, <1>2, <1>3, <1>7 DEF Written, BalancesAfter, Credits
    <2> QED
      BY <2>1, <2>2, <2>3 DEF Row
  <1>8. CASE ~ (Debits(c) /\ x = Source(c)) /\ ~ (Credits(c) /\ x = Destination(c))
    <2>1. x # Source(c) /\ x # Destination(c)
      BY <1>3, <1>4, <1>8 DEF Debits, Credits
    <2> QED
      BY <1>1, <1>2, <1>8, <2>1 DEF Written, Posted
  <1> QED
    BY <1>6, <1>7, <1>8

\* The steps that are not Confirm leave the stock alone.
LEMMA OthersKeepStock ==
  ASSUME [Next]_ledgerVars, \A r \in Requests : ~Confirm(r)
  PROVE  UNCHANGED <<balance, history, entries>>
  BY DEF Next, ledgerVars, Replay, Refuse, Create, Activate, Deactivate, SetStatus

\* BalanceChain holds of the opening stock.
LEMMA BalanceChainInit == Init => BalanceChain
  BY DEF Init, BalanceChain, Before

\* A posting is appended to the balance the last one left.
LEMMA BalanceChainNext == LedgerTypeOK /\ BalanceChain /\ [Next]_ledgerVars => BalanceChain'
  <1> SUFFICES ASSUME LedgerTypeOK, BalanceChain, [Next]_ledgerVars
               PROVE  BalanceChain'
    OBVIOUS
  <1>1. ASSUME NEW r \in Requests, Confirm(r), NEW x \in Cell
        PROVE  /\ \A i \in DOMAIN history'[x] :
                    LET p == history'[x][i] IN
                    p.after = IF p.type = "RECEIPT" THEN Before(x, i)' + p.quantity
                                                    ELSE Before(x, i)' - p.quantity
               /\ balance'[x] = Before(x, Len(history[x]) + 1)'
    <2>0. history[x] \in Seq(Posting) /\ Len(history[x]) \in Nat
      BY DEF LedgerTypeOK
    <2>1. CASE history'[x] = history[x] /\ balance'[x] = balance[x]
      BY <2>1 DEF BalanceChain, Before
    <2>2. ASSUME NEW p \in Posting,
                 history'[x] = Append(history[x], p),
                 balance'[x] = p.after,
                 p.after = IF p.type = "RECEIPT" THEN balance[x] + p.quantity
                                                 ELSE balance[x] - p.quantity
          PROVE  /\ \A i \in DOMAIN history'[x] :
                      LET q == history'[x][i] IN
                      q.after = IF q.type = "RECEIPT" THEN Before(x, i)' + q.quantity
                                                      ELSE Before(x, i)' - q.quantity
                 /\ balance'[x] = Before(x, Len(history[x]) + 1)'
      <3> DEFINE n == Len(history[x])
      <3>1. /\ DOMAIN history'[x] = 1 .. n + 1
            /\ Len(history'[x]) = n + 1
            /\ history'[x][n + 1] = p
            /\ \A i \in 1 .. n : history'[x][i] = history[x][i]
        BY <2>0, <2>2
      <3>2. \A i \in 1 .. n + 1 : Before(x, i)' = Before(x, i)
        BY <2>0, <3>1 DEF Before
      <3>3. balance[x] = Before(x, n + 1)
        BY DEF BalanceChain
      <3>4. balance'[x] = Before(x, Len(history[x]) + 1)'
        BY <2>0, <2>2, <3>1 DEF Before
      <3>5. ASSUME NEW i \in 1 .. n + 1
            PROVE  LET q == history'[x][i] IN
                   q.after = IF q.type = "RECEIPT" THEN Before(x, i)' + q.quantity
                                                   ELSE Before(x, i)' - q.quantity
        <4>1. CASE i = n + 1
          BY <2>2, <3>1, <3>2, <3>3, <4>1
        <4>2. CASE i \in 1 .. n
          BY <2>0, <3>1, <3>2, <4>2 DEF BalanceChain
        <4> QED
          BY <2>0, <4>1, <4>2
      <3> QED
        BY <3>1, <3>4, <3>5
    <2> QED
      BY <1>1, <2>1, <2>2, ConfirmAppends
  <1>2. CASE \A r \in Requests : ~Confirm(r)
    BY <1>2, OthersKeepStock DEF BalanceChain, Before
  <1> QED
    BY <1>1, <1>2 DEF BalanceChain

\* No update is lost: in each cell the postings chain up to the stored balance
\* (balance_after, in record_stock_movement and transfer_stock).
THEOREM BalanceChainHolds == Spec => []BalanceChain
  BY BalanceChainInit, BalanceChainNext, LedgerTypeCorrect, PTL DEF Spec

-------------------------------------------------------------------------------
\* ExactlyOnce holds of the opening stock.
LEMMA ExactlyOnceInit == Init => ExactlyOnce
  BY DEF Init, ExactlyOnce

\* Confirm adds one entry and its rows, under a key that is free.
LEMMA ExactlyOnceNext == LedgerTypeOK /\ ExactlyOnce /\ [Next]_ledgerVars => ExactlyOnce'
  <1> SUFFICES ASSUME LedgerTypeOK, ExactlyOnce, [Next]_ledgerVars
               PROVE  ExactlyOnce'
    OBVIOUS
  <1>1. CASE \A r \in Requests : ~Confirm(r)
    BY <1>1, OthersKeepStock DEF ExactlyOnce
  <1>2. ASSUME NEW r \in Requests, Confirm(r)
        PROVE  ExactlyOnce'
    <2> DEFINE c == cmd[r]
               bal == BalancesAfter(c, balance)
               new == [command |-> c, balances |-> bal]
    <2>0. c \in Commands
      BY DEF LedgerTypeOK
    <2>1. /\ Recorded(c, entries) = {}
          /\ entries' = entries \cup {new}
          /\ history' = Posted(c, bal, history)
      BY <1>2 DEF Confirm
    <2>a. ASSUME NEW x \in Cell
          PROVE  \/ history'[x] = history[x]
                 \/ \E p \in Posting : /\ history'[x] = Append(history[x], p)
                                       /\ p.op = OpId(c)
                                       /\ <<x, p>> \in PostingsOf(c, bal)
      BY <1>2, ConfirmAppends
    <2>b. Valid(c)
      BY <1>2 DEF Confirm
    <2>c. new.command = c /\ new.balances = bal
      OBVIOUS
    <2> HIDE DEF c, bal, new
    <2>2. ASSUME NEW x \in Cell
          PROVE  /\ Len(history[x]) \in Nat
                 /\ history[x] \in Seq(Posting)
                 /\ DOMAIN history[x] \subseteq DOMAIN history'[x]
                 /\ \A i \in DOMAIN history[x] : history'[x][i] = history[x][i]
                 /\ \A i \in DOMAIN history'[x] \ DOMAIN history[x] :
                      /\ i = Len(history[x]) + 1
                      /\ <<x, history'[x][i]>> \in PostingsOf(c, bal)
                      /\ history'[x][i].op = OpId(c)
      <3>1. history[x] \in Seq(Posting)
        BY DEF LedgerTypeOK
      <3>2. Len(history[x]) \in Nat /\ DOMAIN history[x] = 1 .. Len(history[x])
        BY <3>1
      <3>3. CASE history'[x] = history[x]
        BY <3>1, <3>2, <3>3
      <3>4. ASSUME NEW p \in Posting, history'[x] = Append(history[x], p),
                   p.op = OpId(c), <<x, p>> \in PostingsOf(c, bal)
            PROVE  /\ DOMAIN history[x] \subseteq DOMAIN history'[x]
                   /\ \A i \in DOMAIN history[x] : history'[x][i] = history[x][i]
                   /\ \A i \in DOMAIN history'[x] \ DOMAIN history[x] :
                        /\ i = Len(history[x]) + 1
                        /\ <<x, history'[x][i]>> \in PostingsOf(c, bal)
                        /\ history'[x][i].op = OpId(c)
        <4>1. /\ \A i \in DOMAIN history[x] : history'[x][i] = history[x][i]
              /\ DOMAIN history'[x] = 1 .. Len(history[x]) + 1
              /\ history'[x][Len(history[x]) + 1] = p
          BY <3>1, <3>4
        <4>2. \A i \in DOMAIN history'[x] \ DOMAIN history[x] : i = Len(history[x]) + 1
          BY <3>2, <4>1
        <4>3. DOMAIN history[x] \subseteq DOMAIN history'[x]
          BY <3>2, <4>1
        <4> QED
          BY <3>4, <4>1, <4>2, <4>3
      <3> QED
        BY <2>a, <3>1, <3>2, <3>3, <3>4
    <2>3. \A e \in entries : OpId(e.command) # OpId(c)
      BY <2>1 DEF Recorded
    <2>4. \A e, f \in entries' : OpId(e.command) = OpId(f.command) => e = f
      BY <2>1, <2>3, <2>c DEF ExactlyOnce
    <2>5. ASSUME NEW e \in entries', NEW row \in PostingsOf(e.command, e.balances)
          PROVE  \E i \in DOMAIN history'[row[1]] : history'[row[1]][i] = row[2]
      <3>1. CASE e \in entries
        <4>1. e.command \in Commands
          BY <3>1 DEF LedgerTypeOK, Entry
        <4>2. row[1] \in Cell
          BY <4>1, CommandParts DEF PostingsOf
        <4>3. PICK i \in DOMAIN history[row[1]] : history[row[1]][i] = row[2]
          BY <3>1 DEF ExactlyOnce
        <4>4. i \in DOMAIN history'[row[1]] /\ history'[row[1]][i] = history[row[1]][i]
          BY <2>2, <4>2
        <4> QED
          BY <4>3, <4>4
      <3>2. CASE e = new
        <4>1. row \in PostingsOf(c, bal)
          BY <2>c, <3>2
        <4>2. row[1] \in Cell /\ history'[row[1]] = Append(history[row[1]], row[2])
          <5>1. Valid(c) /\ Source(c) \in Cell /\ Destination(c) \in Cell
            BY <2>0, <2>b, CommandParts
          <5>2. CASE Debits(c) /\ row = <<Source(c), Row(c, "ISSUE", bal.source)>>
            BY <2>1, <5>1, <5>2 DEF Posted
          <5>3. CASE Credits(c) /\ row = <<Destination(c), Row(c, "RECEIPT", bal.destination)>>
            <6>1. Debits(c) => Destination(c) # Source(c)
              BY <5>1, <5>3 DEF Valid, Source, Destination, Debits, Credits
            <6> QED
              BY <2>1, <5>1, <5>3, <6>1 DEF Posted
          <5> QED
            BY <4>1, <5>2, <5>3 DEF PostingsOf
        <4>3. history[row[1]] \in Seq(Posting)
          BY <2>2, <4>2
        <4>4. /\ Len(history[row[1]]) + 1 \in DOMAIN history'[row[1]]
              /\ history'[row[1]][Len(history[row[1]]) + 1] = row[2]
          BY <4>2, <4>3
        <4> QED
          BY <4>4
      <3> QED
        BY <2>1, <3>1, <3>2
    <2>6. ASSUME NEW x \in Cell, NEW i \in DOMAIN history'[x]
          PROVE  /\ \E e \in entries' : <<x, history'[x][i]>> \in PostingsOf(e.command, e.balances)
                 /\ \A j \in DOMAIN history'[x] : history'[x][i].op = history'[x][j].op => i = j
      <3>1. \A k \in DOMAIN history[x] : history[x][k].op # OpId(c)
        <4> SUFFICES ASSUME NEW k \in DOMAIN history[x]
                     PROVE  history[x][k].op # OpId(c)
          OBVIOUS
        <4>1. PICK e \in entries : <<x, history[x][k]>> \in PostingsOf(e.command, e.balances)
          BY DEF ExactlyOnce
        <4>2. history[x][k].op = OpId(e.command)
          BY <4>1 DEF PostingsOf, Row
        <4> QED
          BY <2>3, <4>2
      <3>2. CASE i \in DOMAIN history[x]
        <4>1. PICK e \in entries : <<x, history[x][i]>> \in PostingsOf(e.command, e.balances)
          BY <3>2 DEF ExactlyOnce
        <4>2. e \in entries' /\ history'[x][i] = history[x][i]
          BY <2>1, <2>2, <3>2
        <4>3. ASSUME NEW j \in DOMAIN history'[x], history'[x][i].op = history'[x][j].op
              PROVE  i = j
          <5>1. CASE j \in DOMAIN history[x]
            <6>1. history'[x][j] = history[x][j] /\ history'[x][i] = history[x][i]
              BY <2>2, <3>2, <5>1
            <6>2. history[x][i].op = history[x][j].op
              BY <4>3, <6>1
            <6> QED
              BY <3>2, <5>1, <6>2 DEF ExactlyOnce
          <5>2. CASE j \notin DOMAIN history[x]
            <6>1. history'[x][j].op = OpId(c) /\ history'[x][i] = history[x][i]
              BY <2>2, <3>2, <5>2
            <6> QED
              BY <3>1, <3>2, <4>3, <6>1
          <5> QED
            BY <5>1, <5>2
        <4> QED
          BY <4>1, <4>2, <4>3
      <3>3. CASE i \notin DOMAIN history[x]
        <4>1. \E e \in entries' : <<x, history'[x][i]>> \in PostingsOf(e.command, e.balances)
          <5>1. new \in entries'
            BY <2>1
          <5>2. <<x, history'[x][i]>> \in PostingsOf(c, bal)
            BY <2>2, <3>3
          <5> QED
            BY <2>c, <5>1, <5>2
        <4>2. ASSUME NEW j \in DOMAIN history'[x], history'[x][i].op = history'[x][j].op
              PROVE  i = j
          <5>1. CASE j \in DOMAIN history[x]
            <6>1. history'[x][i].op = OpId(c) /\ history'[x][j] = history[x][j]
              BY <2>2, <3>3, <5>1
            <6> QED
              BY <3>1, <4>2, <5>1, <6>1
          <5>2. CASE j \notin DOMAIN history[x]
            <6>1. i = Len(history[x]) + 1 /\ j = Len(history[x]) + 1
              BY <2>2, <3>3, <5>2
            <6> QED
              BY <6>1
          <5> QED
            BY <5>1, <5>2
        <4> QED
          BY <4>1, <4>2
      <3> QED
        BY <3>2, <3>3
    <2> QED
      BY <2>4, <2>5, <2>6 DEF ExactlyOnce
  <1> QED
    BY <1>1, <1>2

\* An operation is recorded and posted once, or not at all: the idempotency keys of
\* record_stock_movement and transfer_stock.
THEOREM ExactlyOnceHolds == Spec => []ExactlyOnce
  BY ExactlyOnceInit, ExactlyOnceNext, LedgerTypeCorrect, PTL DEF Spec

-------------------------------------------------------------------------------
\* AnswersDurable holds of the opening stock.
LEMMA AnswersDurableInit == Init => AnswersDurable
  BY DEF Init, AnswersDurable

\* A key is confirmed once, and its entry stays.
LEMMA AnswersDurableNext == LedgerTypeOK /\ AnswersDurable /\ [Next]_ledgerVars => AnswersDurable'
  <1> SUFFICES ASSUME LedgerTypeOK, AnswersDurable, [Next]_ledgerVars
               PROVE  AnswersDurable'
    OBVIOUS
  <1>1. ASSUME NEW r \in Requests, Confirm(r)
        PROVE  AnswersDurable'
    <2>1. ASSUME NEW s \in Requests, answer[s].outcome = "created"
          PROVE  OpId(cmd[s]) # OpId(cmd[r])
      <3> DEFINE e == [command |-> cmd[s], balances |-> answer[s].balances]
      <3>1. e \in entries /\ e.command = cmd[s]
        BY <2>1 DEF AnswersDurable
      <3>2. e \notin Recorded(cmd[r], entries)
        BY <1>1 DEF Confirm
      <3> HIDE DEF e
      <3> QED
        BY <3>1, <3>2 DEF Recorded
    <2>2. /\ cmd' = cmd
          /\ [command |-> cmd[r], balances |-> BalancesAfter(cmd[r], balance)] \in entries'
          /\ entries \subseteq entries'
      BY <1>1 DEF Confirm
    <2>3. \/ answer' = [answer EXCEPT ![r] =
               [outcome |-> "created", balances |-> BalancesAfter(cmd[r], balance)]]
          \/ answer' = [answer EXCEPT ![r] =
               [outcome |-> "unavailable", balances |-> NoBalances]]
      BY <1>1 DEF Confirm, Tell
    <2>4. CASE answer' = [answer EXCEPT ![r] =
                 [outcome |-> "created", balances |-> BalancesAfter(cmd[r], balance)]]
      <3>1. /\ answer'[r].outcome = "created"
            /\ answer'[r].balances = BalancesAfter(cmd[r], balance)
            /\ \A s \in Requests \ {r} : answer'[s] = answer[s]
        BY <2>4 DEF LedgerTypeOK
      <3> QED
        BY <2>1, <2>2, <3>1 DEF AnswersDurable
    <2>5. CASE answer' = [answer EXCEPT ![r] =
                 [outcome |-> "unavailable", balances |-> NoBalances]]
      <3>1. /\ answer'[r].outcome = "unavailable"
            /\ \A s \in Requests \ {r} : answer'[s] = answer[s]
        BY <2>5 DEF LedgerTypeOK
      <3> QED
        BY <2>2, <3>1 DEF AnswersDurable
    <2> QED
      BY <2>3, <2>4, <2>5
  <1>2. ASSUME NEW r \in Requests, Replay(r)
        PROVE  AnswersDurable'
    <2>1. PICK e \in entries :
            /\ e.command = cmd[r]
            /\ answer' = [answer EXCEPT ![r] = [outcome |-> "replayed", balances |-> e.balances]]
      BY <1>2 DEF Replay, Recorded, Tell
    <2>2. e = [command |-> cmd[r], balances |-> e.balances]
      BY <2>1 DEF LedgerTypeOK, Entry
    <2> QED
      BY <1>2, <2>1, <2>2 DEF Replay, AnswersDurable, LedgerTypeOK
  <1>3. ASSUME NEW r \in Requests, Refuse(r)
        PROVE  AnswersDurable'
    <2>1. \E o \in Outcomes \ {"created", "replayed"} :
            answer' = [answer EXCEPT ![r] = [outcome |-> o, balances |-> NoBalances]]
      BY <1>3 DEF Refuse, Tell, Outcomes
    <2> QED
      BY <1>3, <2>1 DEF Refuse, AnswersDurable, LedgerTypeOK
  <1>4. ASSUME NEW e \in Entities, Create(e) \/ Activate(e) \/ Deactivate(e)
        PROVE  AnswersDurable'
    BY <1>4 DEF Create, Activate, Deactivate, SetStatus, AnswersDurable
  <1>5. CASE UNCHANGED ledgerVars
    BY <1>5 DEF ledgerVars, AnswersDurable
  <1> QED
    BY <1>1, <1>2, <1>3, <1>4, <1>5 DEF Next

\* A call told "created" or "replayed" can rely on the entry; one caller of a key is
\* told "created".
THEOREM AnswersDurableHolds == Spec => []AnswersDurable
  BY AnswersDurableInit, AnswersDurableNext, LedgerTypeCorrect, PTL DEF Spec

-------------------------------------------------------------------------------
\* InactiveHoldsNoStock holds of the opening stock.
LEMMA InactiveHoldsNoStockInit == Init => InactiveHoldsNoStock
  BY OpeningAssumption DEF Init, InactiveHoldsNoStock, CellsOf, Cell, Entities

\* Stock moves only in active contexts, and only empty ones are deactivated.
LEMMA InactiveHoldsNoStockNext == LedgerTypeOK /\ InactiveHoldsNoStock /\ [Next]_ledgerVars => InactiveHoldsNoStock'
  <1> SUFFICES ASSUME LedgerTypeOK, InactiveHoldsNoStock, [Next]_ledgerVars,
                      NEW e \in Entities, status'[e] # "active", NEW x \in CellsOf(e)
               PROVE  balance'[x] = 0
    BY DEF InactiveHoldsNoStock, CellsOf
  <1>1. ASSUME NEW r \in Requests, Confirm(r)
        PROVE  balance'[x] = 0
    <2>1. /\ x \in Cell /\ x # Source(cmd[r]) /\ x # Destination(cmd[r])
          /\ status[e] # "active"
      BY <1>1 DEF Confirm, CellsOf, Context, Source, Destination
    <2> QED
      BY <1>1, <2>1 DEF Confirm, Written, LedgerTypeOK, InactiveHoldsNoStock
  <1>2. ASSUME NEW f \in Entities, Create(f) \/ Activate(f) \/ Deactivate(f)
        PROVE  balance'[x] = 0
    BY <1>2 DEF Create, Activate, Deactivate, SetStatus, LedgerTypeOK, InactiveHoldsNoStock
  <1>3. ASSUME NEW r \in Requests, Replay(r) \/ Refuse(r)
        PROVE  balance'[x] = 0
    BY <1>3 DEF Replay, Refuse, InactiveHoldsNoStock
  <1>4. CASE UNCHANGED ledgerVars
    BY <1>4 DEF ledgerVars, InactiveHoldsNoStock
  <1> QED
    BY <1>1, <1>2, <1>3, <1>4 DEF Next

\* Only active products and warehouses hold stock (update_product and
\* update_warehouse deactivate empty ones only).
THEOREM InactiveHoldsNoStockHolds == Spec => []InactiveHoldsNoStock
  BY InactiveHoldsNoStockInit, InactiveHoldsNoStockNext, LedgerTypeCorrect, PTL DEF Spec

-------------------------------------------------------------------------------
\* The invariants together, as a refinement of this module needs them.
LedgerInv ==
  LedgerTypeOK /\ BalanceChain /\ ExactlyOnce /\ AnswersDurable /\ InactiveHoldsNoStock

\* They hold of the opening stock.
LEMMA LedgerInvInit ==
  ASSUME Init
  PROVE  LedgerInv
  BY LedgerTypeOKInit, BalanceChainInit, ExactlyOnceInit, AnswersDurableInit,
     InactiveHoldsNoStockInit
  DEF LedgerInv

\* Every step keeps them.
LEMMA LedgerInvNext ==
  ASSUME LedgerInv, [Next]_ledgerVars
  PROVE  LedgerInv'
  BY LedgerTypeOKNext, BalanceChainNext, ExactlyOnceNext, AnswersDurableNext,
     InactiveHoldsNoStockNext
  DEF LedgerInv
===============================================================================
