-------------------------------- MODULE MCSales --------------------------------
(* Finite instances of Sales: an administrator and a salesperson in one shop. *)
EXTENDS Sales, TLC

CONSTANTS ana, ben, shop, t1, t2, t3, k1, k2, k3, right, wrong

\* Two products with stock, one without, and one that does not exist.
soap == 1
comb == 2
mint == 3
soda == 4

MCProducts == {soap, comb, mint, soda}
MCWarehouses == {shop}
MCMembers == {ana, ben}
MCAdmins == {ana}
MCPins == {right, wrong}

Sells(p, q, u) == [product |-> p, quantity |-> q, price |-> u]
Cmd(k, m, lines, reason, approval) ==
  [key |-> k, shop |-> shop, seller |-> m, lines |-> lines, reason |-> reason,
   approval |-> approval]
Plain(k, m, lines) == Cmd(k, m, lines, FALSE, Nobody)
By(m, p) == [approver |-> m, pin |-> p]
Approved(k, m, lines, a) == Cmd(k, m, lines, TRUE, a)

\* 10 less 1 is the tenth that is allowed, 10 less 2 is more.
Both == <<Sells(soap, 1, Listed), Sells(comb, 1, Listed)>>
Crossed == <<Sells(comb, 1, Listed), Sells(soap, 1, Listed)>>
Cheap == <<Sells(soap, 1, 8)>>

\* Sales of the same stock: a key used twice with the same lines, a key of two sales
\* that lock nothing in common, sales whose prices are right or wrong as the catalog
\* and the limit change, and calls that are refused for what they ask.
MixedCommands ==
  {Plain(k1, ben, Both),
   Plain(k1, ben, Crossed),
   Approved(k2, ben, Cheap, By(ana, right)),
   Plain(k2, ana, <<Sells(comb, 2, Listed)>>),
   Approved(k3, ben, Cheap, Nobody),
   Plain(k3, ana, <<Sells(mint, 1, Listed), Sells(soap, 1, 9)>>),
   Plain(k3, ben, <<Sells(soda, 1, Listed)>>),
   Plain(k3, ben, << >>)}

\* Guesses of the PIN, and the approver's own sale that crosses an approved one.
Guesses ==
  {Approved(k1, ben, Cheap, By(ana, wrong)),
   Approved(k2, ben, Cheap, By(ana, right)),
   Plain(k3, ana, <<Sells(soap, 1, Listed)>>)}

\* A wrong PIN, and a right one whose sale falls short.
ShortCommands ==
  {Approved(k1, ben, Cheap, By(ana, wrong)),
   Approved(k3, ben, <<Sells(soap, 2, 8)>>, By(ana, right))}

OneOrTwo == [x \in MCProducts \X {shop} |->
  CASE x[1] = soap -> 1 [] x[1] = comb -> 2 [] OTHER -> 0]
MCRows == {soap, comb} \X {shop}
MCPrices == [p \in MCProducts |->
  IF p = soap THEN [cost |-> 6, list |-> 10] ELSE [cost |-> 1, list |-> 2]]
NewPrices == {[cost |-> 9, list |-> 9]}
MCPinsBy == [m \in MCMembers |-> IF m = ana THEN right ELSE Nobody]
MCOpened == {soap, comb, mint, shop}

Symmetric == Permutations(Requests)
===============================================================================
