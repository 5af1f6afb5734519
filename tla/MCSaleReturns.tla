----------------------------- MODULE MCSaleReturns -----------------------------
(* Finite instances of SaleReturns: two products sold by two sales of one shop. *)
EXTENDS SaleReturns

CONSTANTS soap, comb, shop, s1, s2, ana, ben, t1, t2, t3, k1, k2, k3

MCWarehouses == {shop}
MCShop == [s \in {s1, s2} |-> shop]

Sells(p, q, u) == [product |-> p, quantity |-> q, price |-> u]
MCSaleLines == [s \in {s1, s2} |->
  IF s = s1 THEN <<Sells(soap, 2, 1), Sells(comb, 1, 3)>>
            ELSE <<Sells(soap, 1, 2), Sells(comb, 1, 1)>>]

Back(p, q, d) == [product |-> p, quantity |-> q, disposition |-> d]
Cmd(kind, s, k, lines, reason, resolution) ==
  [kind |-> kind, sale |-> s, by |-> ana, key |-> k, lines |-> lines, reason |-> reason,
   resolution |-> resolution]
Return(s, k, lines) == Cmd("RETURN", s, k, lines, "given", "REFUNDED_NOW")
Void(s, k) == Cmd("VOID", s, k, << >>, "given", "REFUNDED_NOW")

\* On one sale: two returns that do not fit together, two halves that do, a void,
\* a key used twice; on the other sale the same products in the other order.
Mixed ==
  <<Return(s1, k1, <<Back(soap, 1, "RESTOCK")>>),
    Return(s1, k2, <<Back(soap, 2, "RESTOCK"), Back(comb, 1, "RESTOCK")>>),
    Return(s1, k3, <<Back(soap, 1, "DAMAGED")>>),
    Void(s1, k1),
    Return(s2, k2, <<Back(comb, 1, "RESTOCK"), Back(soap, 1, "RESTOCK")>>)>>

\* Calls that are refused for what they ask, and one that is not.
Odd ==
  <<Cmd("VOID", s1, k1, << >>, BlankReason, "NO_REFUND"),
    Return(s1, k1, <<Back(soap, 1, "RESTOCK"), Back(soap, 1, "DAMAGED")>>),
    Return(s1, k2, <<Back(soap, 0, "RESTOCK")>>),
    Return(s1, k2, << >>),
    Return(NoSale, k2, <<Back(soap, 1, "RESTOCK")>>),
    Void(NoSale, k3),
    Return(s2, k3, <<Back(comb, 2, "RESTOCK")>>),
    Cmd("RETURN", s1, k3, <<Back(comb, 1, "DAMAGED")>>, "given", "NO_REFUND")>>

\* Repeats of the second and the last of Mixed, their lines in the other order, and a
\* repeat of the first and of the last by somebody else.
Again ==
  <<Return(s1, k2, <<Back(comb, 1, "RESTOCK"), Back(soap, 2, "RESTOCK")>>),
    Return(s2, k2, <<Back(soap, 1, "RESTOCK"), Back(comb, 1, "RESTOCK")>>),
    [Mixed[1] EXCEPT !.by = ben],
    [Mixed[5] EXCEPT !.by = ben]>>

\* Any three of Mixed; one of Odd or Again beside two that do not fit together, and beside
\* two that lock the same balances.  The requests differ in nothing but their commands, so
\* each choice is given once.
Menu == Mixed \o Odd \o Again
AllCommands == Range(Menu)
Chosen ==
  {i \in (1 .. Len(Menu)) \X (1 .. Len(Menu)) \X (1 .. Len(Menu)) :
     /\ i[1] <= i[2] /\ i[2] <= i[3]
     /\ i[3] <= Len(Mixed) \/ <<i[1], i[2]>> \in {<<1, 2>>, <<4, 5>>}}
Threes == {[t \in {t1, t2, t3} |->
              Menu[CASE t = t1 -> i[1] [] t = t2 -> i[2] [] OTHER -> i[3]]] : i \in Chosen}

\* Two adjustments that lock the two balances in opposite orders, one at a time.
CrossingCommands ==
  {Void(s1, k1),
   Return(s2, k2, <<Back(comb, 1, "RESTOCK"), Back(soap, 1, "RESTOCK")>>)}
Alone == [{t1} -> CrossingCommands]

Everything == {soap, comb, shop}
AllCells == {soap, comb} \X {shop} \X {"AVAILABLE", "DAMAGED"}
OneComb == [x \in AllCells |-> IF x[1] = comb /\ x[3] = "AVAILABLE" THEN 1 ELSE 0]
NoStock == [x \in AllCells |-> 0]
===============================================================================
