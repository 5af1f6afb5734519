----------------------------- MODULE MCInvitations -----------------------------
(* Finite instances of Invitations: two organizations, one of which invites the   *)
(* same address again and again, an address that has an account, and one whose    *)
(* account is inactive; and a third one that is founded meanwhile.                *)
EXTENDS Invitations, TLC

CONSTANTS acme, base, corp, sole, eve, sam, ivy, s1, s2, s3, s4, e1, e2, v, w, c1, c2

To(o, e, r) == [org |-> o, email |-> e, role |-> r]
MCInvited == [i \in {s1, s2, s3, s4, e1, e2, v, w} |->
  CASE i = s1 -> To(acme, sam, "admin")
    [] i \in {s2, s3, s4} -> To(acme, sam, "salesperson")
    [] i = e1 -> To(acme, eve, "admin")
    [] i = e2 -> To(base, eve, "salesperson")
    [] i = v -> To(base, ivy, "admin")
    [] i = w -> To(base, sam, "admin")]

With(i, p, a) == [token |-> i, password |-> p, session |-> a]

\* Eve has no account: she answers with a password, twice perhaps.  Sam has one
\* and is a member of base; Ivy's is inactive.
Eve(i) == With(i, TRUE, Nobody)
Sam(i) == With(i, FALSE, sam)
Founds(e) == [organization |-> corp, email |-> e, valid |-> TRUE]
Two(x, y) == (c1 :> x) @@ (c2 :> y)
MCCommands ==
  {Two(Eve(e1), Eve(e1)), Two(Eve(e1), Eve(e2)), Two(Sam(s1), Sam(s1)), Two(Sam(s1), Sam(s2)),
   Two(Sam(s1), Sam(s3)), Two(Sam(e1), Eve(e2)), Two(Sam(w), Sam(s1)),
   Two(With(v, FALSE, ivy), Eve(NoInvite)), Two(Eve(e1), Founds(eve)), Two(Sam(s1), Founds(sam)),
   Two(Founds(eve), [Founds(eve) EXCEPT !.organization = sole]),
   Two(Eve(e1), [Founds(eve) EXCEPT !.valid = FALSE])}
SamBase == {<<base, sam>>}
OneCommand == {c1 :> Sam(s1)}
===============================================================================
