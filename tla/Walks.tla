--------------------------------- MODULE Walks ---------------------------------
(***************************************************************************)
(* What a listing promises to a client that walks through it page by page: *)
(* each page is, at one instant, the next rows in the order of the         *)
(* listing, and no row that is there all along is missed.  Listings, the   *)
(* statement-level specification, implements it.                           *)
(***************************************************************************)
EXTENDS ListingTypes

VARIABLES
  stamp,    \* created_at of each row; final for a row that is listed
  listed,   \* the rows that the filters of each walk select now
  ask,      \* what each walk asks for
  shown,    \* the rows that each walk has been shown
  last,     \* the row where the next page of each walk starts
  outcome,  \* how each walk stands
  steady    \* the rows that each walk's filters have selected since its first page

walkVars == <<stamp, listed, ask, shown, last, outcome, steady>>

Outcomes == {"walking", "complete", "refused", "not_found"}

WellAsked(w) ==
  /\ ask[w].newest \in BOOLEAN
  /\ ask[w].limit \in Nat \ {0}
  /\ ask[w].start \in Rows \cup {NoRow}

WalkTypeOK ==
  /\ stamp \in [Rows -> Nat]
  /\ listed \in [Walkers -> SUBSET Rows]
  /\ shown \in [Walkers -> SUBSET Rows]
  /\ last \in [Walkers -> Rows \cup {NoRow}]
  /\ outcome \in [Walkers -> Outcomes]
  /\ steady \in [Walkers -> SUBSET Rows]
  /\ \A w \in Walkers : WellAsked(w)

\* Row a comes before row b: by time, and by id where the times are equal.
Precedes(w, a, b) == Earlier(ask[w].newest, stamp[a], a, stamp[b], b)

Follows(w, r, from) == from = NoRow \/ Precedes(w, from, r)

Init ==
  /\ stamp \in [Rows -> Nat]
  /\ listed \in [Walkers -> SUBSET Rows]
  /\ \A w \in Walkers : WellAsked(w)
  /\ last = [w \in Walkers |-> ask[w].start]
  /\ shown = [w \in Walkers |-> {}]
  /\ outcome = [w \in Walkers |-> "walking"]
  /\ steady = listed

Begun(w) == shown[w] # {} \/ outcome[w] # "walking"
Watch == steady' = [w \in Walkers |-> IF Begun(w) THEN steady[w] \cap listed'[w]
                                                  ELSE listed'[w]]

\* Rows come and go.  Where they stand does not change while they are listed.
Change ==
  /\ stamp' \in [Rows -> Nat]
  /\ listed' \in [Walkers -> SUBSET Rows]
  /\ \A w \in Walkers, r \in Rows :
       r \in listed[w] \cup shown[w] \cup {last[w], ask[w].start} => stamp'[r] = stamp[r]
  /\ Watch
  /\ UNCHANGED <<ask, shown, last, outcome>>

\* The next page.  The walk is complete when nothing comes after it.
Page(w) ==
  /\ outcome[w] = "walking"
  /\ LET rest == {r \in listed[w] : Follows(w, r, last[w])} IN
     \E page \in SUBSET rest :
       /\ \A a \in page, b \in rest \ page : Precedes(w, a, b)
       /\ shown' = [shown EXCEPT ![w] = @ \cup page]
       /\ \/ /\ page = rest
             /\ Cardinality(page) <= ask[w].limit
             /\ outcome' = [outcome EXCEPT ![w] = "complete"]
             /\ UNCHANGED last
          \/ /\ page # rest
             /\ Cardinality(page) = ask[w].limit
             /\ \E r \in page :
                  /\ \A a \in page \ {r} : Precedes(w, a, r)
                  /\ last' = [last EXCEPT ![w] = r]
             /\ UNCHANGED outcome
  /\ Watch
  /\ UNCHANGED <<stamp, listed, ask>>

\* A walk is refused only if the row it has come to is not listed any more (or never
\* was, where the client has its first cursor from elsewhere).
Refuse(w) ==
  /\ outcome[w] = "walking"
  /\ \/ /\ last[w] \notin listed[w] \cup {NoRow}
        /\ outcome' = [outcome EXCEPT ![w] = "refused"]
     \/ /\ shown[w] = {}
        /\ outcome' = [outcome EXCEPT ![w] = "not_found"]
  /\ Watch
  /\ UNCHANGED <<stamp, listed, ask, shown, last>>

Next == Change \/ \E w \in Walkers : Page(w) \/ Refuse(w)

Spec == Init /\ [][Next]_walkVars

-------------------------------------------------------------------------------
\* decisions/0009 rejects offsets as "unstable when new movements are inserted while a
\* user navigates".  A walk misses no row that its filters have selected since its
\* first page: it has been shown every such row up to the one it has come to, and all
\* of them when it is complete, however many rows were inserted, committed late,
\* renamed or deactivated meanwhile.
NothingMissed ==
  \A w \in Walkers : \A r \in steady[w] :
    /\ Follows(w, r, ask[w].start)
    /\ Begun(w)
    /\ outcome[w] = "complete" \/ ~Follows(w, r, last[w])
    => r \in shown[w]
===============================================================================
