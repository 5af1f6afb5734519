----------------------------- MODULE SaleReceipts -----------------------------
(***************************************************************************)
(* get_sale_receipt (app/modules/sales/use_cases.py) beside the returns    *)
(* that adjust the sale it shows.  Its SELECTs see only what is committed, *)
(* each of them at its own instant, so it runs on ReturnLedger, which      *)
(* SaleReturns implements.                                                 *)
(***************************************************************************)
EXTENDS ReturnLedger

CONSTANT Readers   \* calls of get_sale_receipt

VARIABLE receipt   \* what each call has read, and shows when it is done

receiptVars == <<ledgerVars, receipt>>

ReceiptInit ==
  /\ Init
  /\ receipt = [r \in Readers |-> [step |-> "sale", sale |-> NoSale,
                                   adjustments |-> {}, status |-> "unknown"]]

-------------------------------------------------------------------------------
\* The sale with its lines, which never change.  An unknown one raises, and the
\* caller may ask again.
Exists(s) == s \in Sales
ReadSale(r, s) ==
  /\ receipt[r].step \in {"sale", "done"}
  /\ receipt' = [receipt EXCEPT ![r] =
       [step |-> IF Exists(s) THEN "adjustments" ELSE "sale", sale |-> s,
        adjustments |-> {}, status |-> "unknown"]]
  /\ UNCHANGED ledgerVars

ReadAdjustments(r) ==
  /\ receipt[r].step = "adjustments"
  /\ receipt' = [receipt EXCEPT ![r].step = "quantity",
                   ![r].adjustments = AdjustmentsOf(receipt[r].sale, returns)]
  /\ UNCHANGED ledgerVars

SoldQuantity(s) == SumFunction([p \in Products |-> Sold(s, p)])
GivenQuantity(c) == SumFunction([p \in Products |-> Given(c, p)])

\* The sum over the sale's return lines, whatever adjustments were read before.
\* Mutant: the sum over the lines of those adjustments.
ListedQuantity(r) == SumFunction([a \in receipt[r].adjustments |-> GivenQuantity(a)])
ReturnedQuantity(r) == SumFunction(returned[receipt[r].sale])

\* The status of sale s with the adjustments adjs and a returned quantity q.
\* Mutant: the quantities are compared first.
QuantityFirst(s, adjs, q) ==
  CASE q = 0 -> "CONFIRMED"
    [] q = SoldQuantity(s) -> "RETURNED"
    [] OTHER -> "PARTIALLY_RETURNED"
StatusOf(s, adjs, q) ==
  CASE \E a \in adjs : a.kind = "VOID" -> "VOIDED"
    [] (\A a \in adjs : a.kind # "VOID") /\ q = 0 -> "CONFIRMED"
    [] (\A a \in adjs : a.kind # "VOID") /\ q # 0 /\ q = SoldQuantity(s) -> "RETURNED"
    [] OTHER -> "PARTIALLY_RETURNED"

ReadQuantity(r) ==
  /\ receipt[r].step = "quantity"
  /\ receipt' = [receipt EXCEPT ![r].step = "done",
                   ![r].status = StatusOf(receipt[r].sale, receipt[r].adjustments,
                                          ReturnedQuantity(r))]
  /\ UNCHANGED ledgerVars

ReceiptNext ==
  \/ Next /\ UNCHANGED receipt
  \/ \E r \in Readers :
       \/ \E s \in Sales \cup {NoSale} : ReadSale(r, s)
       \/ ReadAdjustments(r)
       \/ ReadQuantity(r)

ReceiptSpec == ReceiptInit /\ [][ReceiptNext]_receiptVars

-------------------------------------------------------------------------------
(* Properties *)

Shown == {r \in Readers : receipt[r].step = "done"}

\* The three reads of a receipt may see the sale at three stages, and yet its status
\* agrees with the adjustments it lists and with the sale as it is from then on: no
\* adjustment is listed under CONFIRMED, VOIDED is said exactly of a listed void, a
\* sale shown as partly returned is never void, and one shown as returned is.
ReceiptTrue ==
  \A r \in Shown :
    LET s == receipt[r].sale
        listed == receipt[r].adjustments
    IN  /\ receipt[r].status = "CONFIRMED" => listed = {}
        /\ receipt[r].status = "VOIDED" <=> VoidsOf(s, listed) # {}
        /\ receipt[r].status = "PARTIALLY_RETURNED" => VoidsOf(s, returns) = {}
        /\ receipt[r].status = "RETURNED" => \A p \in Products : returned[s][p] = Sold(s, p)

\* A receipt never shows an earlier stage of its sale than one shown before it did,
\* although what it read first is older than what it read last.
Stage(st) == CASE st = "CONFIRMED" -> 0 [] st = "PARTIALLY_RETURNED" -> 1 [] OTHER -> 2
ReceiptsAdvance ==
  [][\A r \in Readers, u \in Shown :
       /\ receipt'[r].step = "done"
       /\ receipt[r].step # "done"
       /\ receipt'[r].sale = receipt[u].sale
       => Stage(receipt'[r].status) >= Stage(receipt[u].status)]_receiptVars
===============================================================================
