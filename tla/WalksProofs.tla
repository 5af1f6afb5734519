------------------------------ MODULE WalksProofs ------------------------------
(* A walk misses nothing, for any number of walkers and rows. *)
EXTENDS Walks, TLAPS

\* What a walker needs of the others is nothing; what it needs of itself is that the
\* rows watched are listed, so that they keep their place, and that a walk that has not
\* begun stands at its start.
Seen(w) ==
  \A r \in steady[w] :
    /\ Follows(w, r, ask[w].start)
    /\ Begun(w)
    /\ outcome[w] = "complete" \/ ~Follows(w, r, last[w])
    => r \in shown[w]

WalkerInv(w) ==
  /\ steady[w] \subseteq listed[w]
  /\ ~Begun(w) => last[w] = ask[w].start
  /\ Seen(w)

WalkInv == WalkTypeOK /\ \A w \in Walkers : WalkerInv(w)

LEMMA WalkInvInit == Init => WalkInv
  <1> SUFFICES ASSUME Init
               PROVE  WalkInv
    OBVIOUS
  <1>1. WalkTypeOK
    BY DEF Init, WalkTypeOK, WellAsked, Outcomes
  <1>2. ASSUME NEW w \in Walkers
        PROVE  WalkerInv(w)
    BY <1>2 DEF Init, WalkerInv, Seen, Begun
  <1> QED
    BY <1>1, <1>2 DEF WalkInv

\* A step that leaves a walk alone and its rows where they stand keeps its invariant.
LEMMA Bystander ==
  ASSUME WalkTypeOK, NEW w \in Walkers, WalkerInv(w), Watch,
         listed' \in [Walkers -> SUBSET Rows],
         \A r \in (listed[w] \cup {last[w], ask[w].start}) \cap Rows : stamp'[r] = stamp[r],
         ask' = ask,
         shown'[w] = shown[w], last'[w] = last[w], outcome'[w] = outcome[w]
  PROVE  WalkerInv(w)'
  <1>1. Begun(w)' <=> Begun(w)
    BY DEF Begun
  <1>2. steady'[w] \subseteq listed'[w]
    BY DEF Watch
  <1>3. ASSUME Begun(w)
        PROVE  Seen(w)'
    <2>1. steady'[w] \subseteq steady[w]
      BY <1>3 DEF Watch
    <2>2. ASSUME NEW r \in steady[w]
          PROVE  /\ Follows(w, r, last[w])' <=> Follows(w, r, last[w])
                 /\ Follows(w, r, ask[w].start)' <=> Follows(w, r, ask[w].start)
      <3>1. r \in listed[w] /\ r \in Rows
        BY <2>2 DEF WalkerInv, WalkTypeOK
      <3>2. ASSUME NEW from \in {last[w], ask[w].start}, from # NoRow
            PROVE  Precedes(w, from, r)' <=> Precedes(w, from, r)
        <4>1. from \in Rows
          BY <3>2 DEF WalkTypeOK, WellAsked
        <4>2. stamp'[from] = stamp[from] /\ stamp'[r] = stamp[r]
          BY <3>1, <3>2, <4>1
        <4> QED
          BY <4>2 DEF Precedes
      <3> QED
        BY <3>2 DEF Follows
    <2> QED
      BY <1>3, <2>1, <2>2 DEF WalkerInv, Seen
  <1>4. ASSUME ~Begun(w)
        PROVE  Seen(w)'
    BY <1>1, <1>4 DEF Seen
  <1> QED
    BY <1>1, <1>2, <1>3, <1>4 DEF WalkerInv

LEMMA ChangeInv == WalkInv /\ Change => WalkInv'
  <1> SUFFICES ASSUME WalkInv, Change
               PROVE  WalkInv'
    OBVIOUS
  <1>1. steady' \in [Walkers -> SUBSET Rows]
    BY DEF WalkInv, WalkTypeOK, Change, Watch
  <1>2. WalkTypeOK'
    BY <1>1 DEF WalkInv, WalkTypeOK, Change, WellAsked
  <1>3. ASSUME NEW w \in Walkers
        PROVE  WalkerInv(w)'
    <2>1. \A r \in (listed[w] \cup {last[w], ask[w].start}) \cap Rows : stamp'[r] = stamp[r]
      BY DEF Change
    <2> QED
      BY <2>1, Bystander DEF WalkInv, Change
  <1> QED
    BY <1>2, <1>3 DEF WalkInv

\* The others are bystanders of a call that gets a page.
LEMMA OthersInv ==
  ASSUME WalkInv, NEW w \in Walkers, Page(w) \/ Refuse(w), NEW u \in Walkers, u # w
  PROVE  WalkerInv(u)'
  <1>1. /\ Watch /\ UNCHANGED <<stamp, listed, ask>>
        /\ shown'[u] = shown[u] /\ last'[u] = last[u] /\ outcome'[u] = outcome[u]
    BY DEF Page, Refuse, WalkInv, WalkTypeOK
  <1>2. listed' \in [Walkers -> SUBSET Rows]
    BY <1>1 DEF WalkInv, WalkTypeOK
  <1> QED
    BY <1>1, <1>2, Bystander DEF WalkInv

\* A row that follows the start of a walk and that the walk has come past has been shown.
LEMMA SeenSoFar ==
  ASSUME WalkInv, NEW w \in Walkers, outcome[w] = "walking", Watch, UNCHANGED <<listed>>,
         NEW r \in steady'[w], Follows(w, r, ask[w].start), ~Follows(w, r, last[w])
  PROVE  r \in shown[w]
  <1>1. WalkerInv(w)
    BY DEF WalkInv
  <1>2. Begun(w)
    BY <1>1 DEF WalkerInv
  <1>3. r \in steady[w]
    BY <1>2 DEF Watch
  <1> QED
    BY <1>1, <1>2, <1>3 DEF WalkerInv, Seen

LEMMA SteadyListed ==
  ASSUME WalkInv, Watch, listed' \in [Walkers -> SUBSET Rows]
  PROVE  /\ steady' \in [Walkers -> SUBSET Rows]
         /\ \A w \in Walkers : steady'[w] \subseteq listed'[w]
  BY DEF WalkInv, WalkTypeOK, WalkerInv, Watch

\* What follows the new position and is not on the page comes after all of the page.
LEMMA PageInv == ASSUME WalkInv, NEW w \in Walkers, Page(w)
                PROVE  WalkInv'
  <1>0. Watch /\ UNCHANGED <<stamp, listed, ask>> /\ outcome[w] = "walking"
    BY DEF Page
  <1> DEFINE rest == {r \in listed[w] : Follows(w, r, last[w])}
             Complete(page) == /\ page = rest
                               /\ outcome' = [outcome EXCEPT ![w] = "complete"]
                               /\ UNCHANGED last
             Onward(page, q) == /\ page # {} /\ q \in page
                                /\ last' = [last EXCEPT ![w] = q]
                                /\ UNCHANGED outcome
  <1>1. PICK page \in SUBSET rest :
          /\ \A a \in page, b \in rest \ page : Precedes(w, a, b)
          /\ shown' = [shown EXCEPT ![w] = @ \cup page]
          /\ Complete(page) \/ \E q \in page : Onward(page, q)
    <2>1. PICK page \in SUBSET rest :
            /\ \A a \in page, b \in rest \ page : Precedes(w, a, b)
            /\ shown' = [shown EXCEPT ![w] = @ \cup page]
            /\ \/ Complete(page)
               \/ /\ \E r \in page : last' = [last EXCEPT ![w] = r]
                  /\ UNCHANGED outcome
      BY DEF Page
    <2> QED
      BY <2>1
  <1>2. rest \subseteq Rows
    BY DEF WalkInv, WalkTypeOK
  <1>3. /\ last' \in [Walkers -> Rows \cup {NoRow}]
        /\ shown' \in [Walkers -> SUBSET Rows]
        /\ outcome' \in [Walkers -> Outcomes]
    BY <1>1, <1>2 DEF WalkInv, WalkTypeOK, Outcomes
  <1>4. WalkTypeOK'
    BY <1>0, <1>3, SteadyListed DEF WalkInv, WalkTypeOK, WellAsked
  <1>5. \A r \in Rows, from \in Rows \cup {NoRow} : Follows(w, r, from)' <=> Follows(w, r, from)
    BY <1>0 DEF Follows, Precedes
  <1>6. shown'[w] = shown[w] \cup page
    BY <1>1 DEF WalkInv, WalkTypeOK
  <1>7. ASSUME NEW r \in steady'[w], Follows(w, r, ask[w].start), r \notin shown'[w]
        PROVE  Follows(w, r, last[w]) /\ r \in rest \ page
    <2>1. Follows(w, r, last[w])
      BY <1>0, <1>6, <1>7, SeenSoFar
    <2> QED
      BY <1>0, <1>6, <1>7, <2>1, SteadyListed DEF WalkInv, WalkTypeOK
  <1>8. ASSUME NEW r \in steady'[w], Follows(w, r, ask[w].start), r \notin shown'[w]
        PROVE  outcome'[w] # "complete" /\ Follows(w, r, last'[w])
    <2>1. r \in rest \ page
      BY <1>7, <1>8
    <2>2. PICK q \in page : Onward(page, q)
      BY <1>1, <2>1
    <2>3. last'[w] = q /\ Precedes(w, q, r) /\ outcome'[w] = "walking"
      BY <1>0, <1>1, <2>1, <2>2 DEF WalkInv, WalkTypeOK
    <2> QED
      BY <2>3 DEF Follows
  <1>9. Seen(w)'
    <2>1. steady'[w] \subseteq Rows /\ last'[w] \in Rows \cup {NoRow}
          /\ ask[w].start \in Rows \cup {NoRow} /\ ask' = ask
      BY <1>0, <1>3, SteadyListed DEF WalkInv, WalkTypeOK, WellAsked
    <2> QED
      BY <1>5, <1>8, <2>1 DEF Seen
  <1>10. ~Begun(w)' => last'[w] = ask'[w].start
    <2>1. CASE Complete(page)
      BY <1>3, <2>1 DEF Begun, WalkInv, WalkTypeOK
    <2>2. CASE \E q \in page : Onward(page, q)
      BY <1>6, <2>2 DEF Begun
    <2> QED
      BY <1>1, <2>1, <2>2
  <1>11. WalkerInv(w)'
    BY <1>0, <1>9, <1>10, SteadyListed DEF WalkerInv, WalkInv, WalkTypeOK
  <1> QED
    BY <1>4, <1>11, OthersInv DEF WalkInv

LEMMA RefuseInv == ASSUME WalkInv, NEW w \in Walkers, Refuse(w)
                  PROVE  WalkInv'
  <1>0. /\ Watch /\ UNCHANGED <<stamp, listed, ask, shown, last>> /\ outcome[w] = "walking"
        /\ \E o \in {"refused", "not_found"} : outcome' = [outcome EXCEPT ![w] = o]
    BY DEF Refuse
  <1>1. WalkTypeOK' /\ outcome'[w] \in {"refused", "not_found"}
    BY <1>0, SteadyListed DEF WalkInv, WalkTypeOK, WellAsked, Outcomes
  <1>2. \A r \in Rows, from \in Rows \cup {NoRow} : Follows(w, r, from)' <=> Follows(w, r, from)
    BY <1>0 DEF Follows, Precedes
  <1>3. Seen(w)'
    <2>1. steady'[w] \subseteq Rows /\ last[w] \in Rows \cup {NoRow}
          /\ ask[w].start \in Rows \cup {NoRow}
      BY <1>0, SteadyListed DEF WalkInv, WalkTypeOK, WellAsked
    <2> QED
      BY <1>0, <1>1, <1>2, <2>1, SeenSoFar DEF Seen
  <1>4. WalkerInv(w)'
    BY <1>0, <1>1, <1>3, SteadyListed DEF WalkerInv, WalkInv, WalkTypeOK, Begun
  <1> QED
    BY <1>1, <1>4, OthersInv DEF WalkInv

LEMMA WalkInvNext == WalkInv /\ [Next]_walkVars => WalkInv'
  <1> SUFFICES ASSUME WalkInv, [Next]_walkVars
               PROVE  WalkInv'
    OBVIOUS
  <1>1. CASE UNCHANGED walkVars
    BY <1>1 DEF WalkInv, WalkTypeOK, WellAsked, WalkerInv, Seen, Begun, Follows, Precedes, walkVars
  <1> QED
    BY <1>1, ChangeInv, PageInv, RefuseInv DEF Next

\* No row that is there all along is missed, however many others come and go.
THEOREM NothingIsMissed == Spec => []NothingMissed
  <1>1. WalkInv => NothingMissed
    BY DEF WalkInv, WalkerInv, Seen, NothingMissed
  <1> QED
    BY <1>1, WalkInvInit, WalkInvNext, PTL DEF Spec
================================================================================
