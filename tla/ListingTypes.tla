----------------------------- MODULE ListingTypes -----------------------------
(***************************************************************************)
(* The rows of the listings and the order in which they are listed.        *)
(***************************************************************************)
EXTENDS Integers, FiniteSets

CONSTANTS
  Walkers,   \* clients that walk through a listing
  Rows,      \* row ids; numbers, for the order UUIDs have in ORDER BY
  NoRow      \* no cursor

ASSUME RowAssumption == Rows \subseteq Nat /\ NoRow \notin Rows

\* ORDER BY created_at, id, both descending in the histories, both ascending in the
\* catalogs: row r of time s comes before row q of time t.
Earlier(newest, s, r, t, q) ==
  IF newest THEN s > t \/ (s = t /\ r > q) ELSE s < t \/ (s = t /\ r < q)
===============================================================================
