---------------------------- MODULE MCSaleReceipts ----------------------------
(* A finite instance of SaleReceipts: two sales, and all that can adjust them. *)
EXTENDS SaleReceipts

CONSTANTS soap, comb, shop, s1, s2, ana, t1, t2, t3, r1, r2, k1, k2, k3

MCWarehouses == {shop}
MCShop == [s \in {s1, s2} |-> shop]

Sells(p, q, u) == [product |-> p, quantity |-> q, price |-> u]
MCSaleLines == [s \in {s1, s2} |->
  IF s = s1 THEN <<Sells(soap, 2, 1), Sells(comb, 1, 3)>> ELSE <<Sells(soap, 1, 2)>>]

Back(p, q, d) == [product |-> p, quantity |-> q, disposition |-> d]
Cmd(kind, s, k, lines) ==
  [kind |-> kind, sale |-> s, by |-> ana, key |-> k, lines |-> lines, reason |-> "given",
   resolution |-> "NO_REFUND"]

\* The parts and the whole of the first sale, its void, and a void of the other.
MCCommands ==
  {Cmd("RETURN", s1, k1, <<Back(soap, 1, "RESTOCK")>>),
   Cmd("RETURN", s1, k2, <<Back(soap, 1, "DAMAGED"), Back(comb, 1, "RESTOCK")>>),
   Cmd("RETURN", s1, k3, <<Back(soap, 2, "RESTOCK"), Back(comb, 1, "RESTOCK")>>),
   Cmd("VOID", s1, k3, << >>),
   Cmd("VOID", s2, k2, << >>)}

NoStock == [x \in {soap, comb} \X {shop} \X {"AVAILABLE", "DAMAGED"} |-> 0]
===============================================================================
